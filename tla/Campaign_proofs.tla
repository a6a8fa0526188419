---------------------------- MODULE Campaign_proofs ----------------------------
(***************************************************************************)
(* Proofs about Campaign, for every list of workloads, structures and      *)
(* registered cells, every number of trials, and every number of crashes   *)
(* and losses of power, wherever they strike.                              *)
(***************************************************************************)
EXTENDS Campaign, FiniteSetTheorems, SequenceTheorems, TLAPS

-----------------------------------------------------------------------------
(***************************************************************************)
(* Lists.  The schedule is built with two folds: one that lists the cells  *)
(* of a block, one that joins the blocks.                                  *)
(***************************************************************************)

(* A set of natural numbers that is not empty has a least element. *)
LEMMA LeastNatural ==
  ASSUME NEW T \in SUBSET Nat, T # {}
  PROVE  \E n \in T : \A m \in T : n <= m
<1>1. PICK R : R = OpToRel(<, Nat)
  OBVIOUS
<1>2. IsWellFoundedOn(R, Nat)
  BY <1>1, NatLessThanWellFounded
<1>3. PICK n \in T : \A m \in T : ~(<<m, n>> \in R)
  BY <1>2, WFMin
<1>4. \A m \in T : m \in Nat
  OBVIOUS
<1>5. \A m \in T : ~(m < n)
  BY <1>1, <1>3 DEF OpToRel
<1> QED BY <1>4, <1>5

(* Induction over the natural numbers, for membership in a set. *)
LEMMA SetInduction ==
  ASSUME NEW T, 0 \in T, \A n \in Nat : n \in T => n + 1 \in T
  PROVE  Nat \subseteq T
<1> DEFINE C == {n \in Nat : n \notin T}
<1> SUFFICES ASSUME C # {} PROVE FALSE
  OBVIOUS
<1>1. PICK n \in C : \A m \in C : n <= m
  BY LeastNatural
<1>2. n # 0 /\ n - 1 \in Nat /\ (n - 1) + 1 = n
  BY <1>1
<1>3. n - 1 \notin C
  BY <1>1
<1> QED BY <1>1, <1>2, <1>3

(* Appending and joining lists. *)
LEMMA AppendCells ==
  ASSUME NEW S, NEW list \in Seq(S), NEW e \in S
  PROVE  /\ Append(list, e) \in Seq(S)
         /\ Cells(Append(list, e)) = Cells(list) \cup {e}
<1>1. /\ Append(list, e) \in Seq(S)
      /\ Len(Append(list, e)) = Len(list) + 1
      /\ DOMAIN Append(list, e) = 1 .. Len(list) + 1
      /\ DOMAIN list = 1 .. Len(list)
      /\ Len(list) \in Nat
  OBVIOUS
<1>2. /\ \A i \in 1 .. Len(list) : Append(list, e)[i] = list[i]
      /\ Append(list, e)[Len(list) + 1] = e
  OBVIOUS
<1>3. \A i : i \in 1 .. Len(list) + 1 <=> i \in 1 .. Len(list) \/ i = Len(list) + 1
  BY <1>1
<1> QED BY <1>1, <1>2, <1>3 DEF Cells

LEMMA JoinCells ==
  ASSUME NEW S, NEW a \in Seq(S), NEW b \in Seq(S)
  PROVE  /\ a \o b \in Seq(S)
         /\ Cells(a \o b) = Cells(a) \cup Cells(b)
<1>1. /\ a \o b \in Seq(S)
      /\ Len(a \o b) = Len(a) + Len(b)
      /\ Len(a) \in Nat /\ Len(b) \in Nat
      /\ DOMAIN a = 1 .. Len(a) /\ DOMAIN b = 1 .. Len(b)
      /\ DOMAIN (a \o b) = 1 .. Len(a) + Len(b)
  OBVIOUS
<1>2. \A i \in 1 .. Len(a) + Len(b) :
        (a \o b)[i] = IF i <= Len(a) THEN a[i] ELSE b[i - Len(a)]
  OBVIOUS
<1>3. Cells(a \o b) \subseteq Cells(a) \cup Cells(b)
  BY <1>1, <1>2 DEF Cells
<1>4. ASSUME NEW e \in Cells(a) PROVE e \in Cells(a \o b)
  BY <1>1, <1>2 DEF Cells
<1>5. ASSUME NEW e \in Cells(b) PROVE e \in Cells(a \o b)
  <2>1. PICK i \in 1 .. Len(b) : e = b[i]
    BY <1>1 DEF Cells
  <2>2. i + Len(a) \in 1 .. Len(a) + Len(b) /\ ~(i + Len(a) <= Len(a))
        /\ (i + Len(a)) - Len(a) = i
    BY <1>1
  <2>3. (a \o b)[i + Len(a)] = e
    BY <1>2, <2>1, <2>2
  <2> QED BY <1>1, <2>2, <2>3 DEF Cells
<1> QED BY <1>1, <1>3, <1>4, <1>5

(***************************************************************************)
(* A block in its recorded order lists the cells of the block.             *)
(***************************************************************************)
LEMMA ShuffledCells ==
  ASSUME NEW S, IsFiniteSet(S)
  PROVE  Shuffled(S) \in Seq(S) /\ Cells(Shuffled(S)) = S
<1> DEFINE One(s) == CHOOSE e \in s : TRUE
           Body(f, s) == IF s = {} THEN <<>> ELSE Append(f[s \ {One(s)}], One(s))
           UpTo(k, f) == \A s \in SUBSET S : Cardinality(s) <= k => f[s] = Body(f, s)
           T == {k \in Nat : \E f \in [SUBSET S -> Seq(S)] : UpTo(k, f)}
<1>1. \A s \in SUBSET S : IsFiniteSet(s) /\ Cardinality(s) \in Nat
                           /\ (Cardinality(s) = 0 <=> s = {})
  BY FS_Subset, FS_EmptySet, FS_CardinalityType
<1>2. ASSUME NEW s \in SUBSET S, s # {}
      PROVE  /\ One(s) \in s /\ One(s) \in S
             /\ s \ {One(s)} \in SUBSET S
             /\ Cardinality(s \ {One(s)}) = Cardinality(s) - 1
  BY <1>1, <1>2, FS_RemoveElement
<1>3. <<>> \in Seq(S)
  OBVIOUS
<1>4. 0 \in T
  <2>1. PICK f : f = [s \in SUBSET S |-> <<>>]
    OBVIOUS
  <2>2. f \in [SUBSET S -> Seq(S)]
    BY <1>3, <2>1
  <2>3. UpTo(0, f)
    BY <1>1, <2>1
  <2> QED BY <2>2, <2>3
<1> HIDE DEF One
<1>5. ASSUME NEW f \in [SUBSET S -> Seq(S)], NEW s \in SUBSET S
      PROVE  Body(f, s) \in Seq(S)
  BY <1>2, <1>3, AppendCells
<1>6. ASSUME NEW k \in Nat, k \in T PROVE k + 1 \in T
  <2>1. PICK f \in [SUBSET S -> Seq(S)] : UpTo(k, f)
    BY <1>6
  <2>2. PICK g : g = [s \in SUBSET S |-> IF Cardinality(s) <= k THEN f[s] ELSE Body(f, s)]
    OBVIOUS
  <2>3. g \in [SUBSET S -> Seq(S)]
    <3> HIDE DEF Body
    <3> QED BY <1>5, <2>2
  <2>4. ASSUME NEW s \in SUBSET S, Cardinality(s) <= k + 1
        PROVE  Body(g, s) = Body(f, s)
    <3>1. CASE s = {}
      BY <3>1
    <3>2. CASE s # {}
      <4>1. s \ {One(s)} \in SUBSET S /\ Cardinality(s \ {One(s)}) <= k
        BY <1>1, <1>2, <2>4, <3>2
      <4>2. g[s \ {One(s)}] = f[s \ {One(s)}]
        <5> HIDE DEF Body
        <5> QED BY <2>2, <4>1
      <4> QED BY <3>2, <4>2
    <3> QED BY <3>1, <3>2
  <2>5. UpTo(k + 1, g)
    <3> SUFFICES ASSUME NEW s \in SUBSET S, Cardinality(s) <= k + 1
                 PROVE  g[s] = Body(g, s)
      OBVIOUS
    <3>1. Cardinality(s) <= k => f[s] = Body(f, s)
      BY <2>1
    <3> HIDE DEF Body
    <3> QED BY <2>2, <2>4, <3>1
  <2> HIDE DEF UpTo
  <2> QED BY <2>3, <2>5
<1>7. Nat \subseteq T
  <2> HIDE DEF T
  <2> QED BY <1>4, <1>6, SetInduction
<1>8. PICK f \in [SUBSET S -> Seq(S)] : UpTo(Cardinality(S), f)
  BY <1>1, <1>7
<1>9. \A s \in SUBSET S : Cardinality(s) <= Cardinality(S)
  BY FS_Subset
<1> DEFINE Iter(g) == [s \in SUBSET S |-> Body(g, s)]
<1>10. \E g : g = Iter(g)
  <2>1. \A s \in SUBSET S : f[s] = Body(f, s)
    BY <1>8, <1>9
  <2>2. f = Iter(f)
    <3> HIDE DEF Body
    <3> QED BY <2>1
  <2> QED BY <2>2
<1>11. PICK g : g = Iter(g) /\ Shuffled(S) = g[S]
  BY <1>10 DEF Shuffled, FoldSet, MapThenFoldSet, One
<1>12. \A s \in SUBSET S : g[s] = Body(g, s)
  <2> HIDE DEF Body
  <2> QED BY <1>11
<1> DEFINE Listed(s) == g[s] \in Seq(s) /\ Cells(g[s]) = s
           U == {k \in Nat : \A s \in SUBSET S : Cardinality(s) <= k => Listed(s)}
<1>13. 0 \in U
  <2>1. {} \in SUBSET S /\ g[{}] = <<>>
    BY <1>12
  <2>2. <<>> \in Seq({}) /\ Cells(<<>>) = {}
    BY DEF Cells
  <2>3. \A s \in SUBSET S : Cardinality(s) <= 0 => s = {}
    BY <1>1
  <2> QED BY <2>1, <2>2, <2>3
<1>14. ASSUME NEW k \in Nat, k \in U PROVE k + 1 \in U
  <2> SUFFICES ASSUME NEW s \in SUBSET S, Cardinality(s) <= k + 1 PROVE Listed(s)
    OBVIOUS
  <2>1. CASE s = {}
    <3>1. 0 \in U /\ Cardinality(s) <= 0
      BY <1>1, <1>13, <2>1
    <3> HIDE DEF Listed
    <3> QED BY <3>1
  <2>2. CASE s # {}
    <3>1. PICK e, r : e = One(s) /\ r = s \ {One(s)}
      OBVIOUS
    <3>2. /\ e \in s /\ r \in SUBSET S /\ Cardinality(r) <= k /\ s = r \cup {e}
      BY <1>1, <1>2, <2>2, <3>1
    <3>3. g[r] \in Seq(r) /\ Cells(g[r]) = r
      BY <1>14, <3>2
    <3>4. g[r] \in Seq(s)
      BY <3>2, <3>3
    <3>5. g[s] = Append(g[r], e)
      BY <1>12, <2>2, <3>1
    <3> QED BY <3>2, <3>3, <3>4, <3>5, AppendCells
  <2> QED BY <2>1, <2>2
<1>15. Nat \subseteq U
  <2> HIDE DEF U
  <2> QED BY <1>13, <1>14, SetInduction
<1>16. Listed(S)
  <2> HIDE DEF Listed
  <2> QED BY <1>1, <1>9, <1>15
<1> QED BY <1>11, <1>16

\* The lists joined, up to each of them.
Joined(f, lists, n, S) ==
  /\ f \in [1 .. n -> Seq(S)]
  /\ \A i \in 1 .. n : f[i] = IF i = 1 THEN lists[i] ELSE f[i - 1] \o lists[i]

LEMMA JoinedExists ==
  ASSUME NEW n \in Nat, NEW S, NEW lists \in [1 .. n -> Seq(S)]
  PROVE  \E f : Joined(f, lists, n, S)
<1> DEFINE Solvable(m) == \E f : Joined(f, lists, m, S)
           T == {m \in Nat : m <= n => Solvable(m)}
<1>1. 0 \in T
  <2>1. PICK f : f = [i \in 1 .. 0 |-> <<>>]
    OBVIOUS
  <2>2. Joined(f, lists, 0, S)
    BY <2>1 DEF Joined
  <2> QED BY <2>2
<1>2. ASSUME NEW m \in Nat, m \in T PROVE m + 1 \in T
  <2> HIDE DEF Solvable
  <2> SUFFICES ASSUME m + 1 <= n PROVE Solvable(m + 1)
    OBVIOUS
  <2> USE DEF Solvable
  <2>1. PICK f : Joined(f, lists, m, S)
    BY <1>2
  <2>2. /\ f \in [1 .. m -> Seq(S)] /\ m + 1 \in 1 .. n
        /\ m # 0 => f[m] \in Seq(S)
        /\ lists[m + 1] \in Seq(S)
    BY <2>1 DEF Joined
  <2>3. PICK last \in Seq(S) : last = IF m = 0 THEN lists[m + 1] ELSE f[m] \o lists[m + 1]
    BY <2>2, JoinCells
  <2>4. PICK g : g = [i \in 1 .. m + 1 |-> IF i = m + 1 THEN last ELSE f[i]]
    OBVIOUS
  <2>5. g \in [1 .. m + 1 -> Seq(S)]
    BY <2>2, <2>4
  <2>6. ASSUME NEW i \in 1 .. m + 1
        PROVE  g[i] = IF i = 1 THEN lists[i] ELSE g[i - 1] \o lists[i]
    <3>1. CASE i = m + 1
      <4>1. g[i] = last /\ (m # 0 => g[i - 1] = f[m]) /\ (m = 0 <=> i = 1)
        BY <2>4, <3>1
      <4> QED BY <2>3, <3>1, <4>1
    <3>2. CASE i # m + 1
      <4>1. i \in 1 .. m /\ g[i] = f[i] /\ (i # 1 => g[i - 1] = f[i - 1])
        BY <2>4, <3>2
      <4> QED BY <2>1, <4>1 DEF Joined
    <3> QED BY <3>1, <3>2
  <2>7. Joined(g, lists, m + 1, S)
    BY <2>5, <2>6 DEF Joined
  <2> QED BY <2>7
<1>3. Nat \subseteq T
  <2> HIDE DEF T
  <2> QED BY <1>1, <1>2, SetInduction
<1> QED BY <1>3

\* They hold the members of the lists joined.
JoinedRight(f, lists, n) ==
  \A k \in 1 .. n : \A e : e \in Cells(f[k]) <=> \E i \in 1 .. k : e \in Cells(lists[i])

LEMMA JoinedCells ==
  ASSUME NEW n \in Nat, NEW S, NEW lists \in [1 .. n -> Seq(S)],
         NEW f, Joined(f, lists, n, S)
  PROVE  JoinedRight(f, lists, n)
<1> DEFINE Right(m) == \A e : e \in Cells(f[m]) <=> \E i \in 1 .. m : e \in Cells(lists[i])
           T == {m \in Nat : m \in 1 .. n => Right(m)}
<1>1. 0 \in T
  OBVIOUS
<1>2. ASSUME NEW m \in Nat, m \in T PROVE m + 1 \in T
  <2> HIDE DEF Right
  <2> SUFFICES ASSUME m + 1 \in 1 .. n PROVE Right(m + 1)
    OBVIOUS
  <2> USE DEF Right
  <2>1. CASE m = 0
    <3>1. f[m + 1] = lists[m + 1] /\ m + 1 \in 1 .. m + 1 /\ \A i \in 1 .. m + 1 : i = m + 1
      BY <2>1 DEF Joined
    <3>2. \A e : (\E i \in 1 .. m + 1 : e \in Cells(lists[i])) <=> e \in Cells(lists[m + 1])
      BY <3>1
    <3> QED BY <3>1, <3>2
  <2>2. CASE m # 0
    <3>1. /\ m \in 1 .. n /\ (m + 1) - 1 = m /\ m + 1 # 1
          /\ f[m] \in Seq(S) /\ lists[m + 1] \in Seq(S)
      BY <2>2 DEF Joined
    <3>2. f[m + 1] = f[m] \o lists[m + 1]
      BY <3>1 DEF Joined
    <3>3. Cells(f[m + 1]) = Cells(f[m]) \cup Cells(lists[m + 1])
      BY <3>1, <3>2, JoinCells
    <3>4. Right(m)
      BY <1>2, <3>1
    <3>5. \A i : i \in 1 .. m + 1 <=> i \in 1 .. m \/ i = m + 1
      OBVIOUS
    <3> QED BY <3>3, <3>4, <3>5
  <2> QED BY <2>1, <2>2
<1>3. Nat \subseteq T
  <2> HIDE DEF T
  <2> QED BY <1>1, <1>2, SetInduction
<1>4. ASSUME NEW k \in 1 .. n PROVE Right(k)
  <2> HIDE DEF Right
  <2> QED BY <1>3
<1> QED BY <1>4 DEF JoinedRight

(***************************************************************************)
(* The blocks, one after the other, hold what each of them holds.          *)
(***************************************************************************)
LEMMA FlattenCells ==
  ASSUME NEW n \in Nat, NEW S, NEW lists \in [1 .. n -> Seq(S)]
  PROVE  /\ FlattenSeq(lists) \in Seq(S)
         /\ \A e : e \in Cells(FlattenSeq(lists)) <=>
                     \E i \in 1 .. n : e \in Cells(lists[i])
<1>1. lists \in Seq(Seq(S)) /\ Len(lists) = n
  OBVIOUS
<1>2. CASE n = 0
  <2>1. lists = <<>> /\ FlattenSeq(lists) = lists
    BY <1>1, <1>2 DEF FlattenSeq
  <2>2. <<>> \in Seq(S) /\ \A e : e \notin Cells(<<>>)
    BY DEF Cells
  <2>3. \A e : ~\E i \in 1 .. n : e \in Cells(lists[i])
    BY <1>2
  <2> QED BY <2>1, <2>2, <2>3
<1>3. CASE n # 0
  <2> DEFINE Iter(g) == [i \in 1 .. n |-> IF i = 1 THEN lists[i] ELSE g[i - 1] \o lists[i]]
  <2>1. \E g : g = Iter(g)
    <3>1. PICK f : Joined(f, lists, n, S)
      BY JoinedExists
    <3>2. f = Iter(f)
      BY <3>1 DEF Joined
    <3> QED BY <3>2
  <2>2. PICK g : g = Iter(g) /\ FlattenSeq(lists) = g[n]
    <3>1. \E g : g = [i \in 1 .. Len(lists) |->
                        IF i = 1 THEN lists[i] ELSE g[i - 1] \o lists[i]]
      BY <1>1, <2>1
    <3>2. Len(lists) # 0
      BY <1>1, <1>3
    <3>3. \E g : /\ g = [i \in 1 .. Len(lists) |->
                        IF i = 1 THEN lists[i] ELSE g[i - 1] \o lists[i]]
                 /\ FlattenSeq(lists) = g[Len(lists)]
      BY <3>1, <3>2 DEF FlattenSeq
    <3> QED BY <1>1, <3>3
  <2>3. Joined(g, lists, n, S)
    <3>1. \A i \in 1 .. n : g[i] = IF i = 1 THEN lists[i] ELSE g[i - 1] \o lists[i]
      BY <2>2
    <3>2. DOMAIN g = 1 .. n
      BY <2>2
    <3> DEFINE T == {m \in Nat : m \in 1 .. n => g[m] \in Seq(S)}
    <3>3. 0 \in T
      OBVIOUS
    <3>4. ASSUME NEW m \in Nat, m \in T PROVE m + 1 \in T
      <4> SUFFICES ASSUME m + 1 \in 1 .. n PROVE g[m + 1] \in Seq(S)
        OBVIOUS
      <4>1. lists[m + 1] \in Seq(S)
        OBVIOUS
      <4>2. ASSUME m # 0 PROVE g[m] \in Seq(S) /\ g[m + 1] = g[m] \o lists[m + 1]
        <5>1. m \in 1 .. n /\ m + 1 # 1 /\ (m + 1) - 1 = m
          BY <4>2
        <5> HIDE DEF Iter
        <5> QED BY <3>1, <3>4, <5>1
      <4>3. m = 0 => g[m + 1] = lists[m + 1]
        BY <3>1
      <4>4. CASE m = 0
        BY <4>1, <4>3, <4>4
      <4>5. CASE m # 0
        <5>1. PICK a, b \in Seq(S) : a = g[m] /\ b = lists[m + 1] /\ g[m + 1] = a \o b
          BY <4>1, <4>2, <4>5
        <5> QED BY <5>1
      <4> QED BY <4>4, <4>5
    <3>5. Nat \subseteq T
      <4> HIDE DEF T
      <4> QED BY <3>3, <3>4, SetInduction
    <3>6. \A i \in 1 .. n : g[i] \in Seq(S)
      BY <3>5
    <3>7. g \in [1 .. n -> Seq(S)]
      BY <2>2, <3>2, <3>6
    <3> QED BY <3>1, <3>7 DEF Joined
  <2>4. n \in 1 .. n
    BY <1>3
  <2>5. g[n] \in Seq(S)
    BY <2>3, <2>4 DEF Joined
  <2>6. \A e : e \in Cells(g[n]) <=> \E i \in 1 .. n : e \in Cells(lists[i])
    <3>1. JoinedRight(g, lists, n)
      BY <2>3, JoinedCells
    <3> HIDE DEF Iter
    <3> QED BY <2>4, <3>1 DEF JoinedRight
  <2> QED BY <2>2, <2>5, <2>6
<1> QED BY <1>2, <1>3

-----------------------------------------------------------------------------
(***************************************************************************)
(* The cells of a schedule.                                                *)
(***************************************************************************)

(* The workloads: their number, the lengths of their sweeps, their names. *)
LEMMA WorkloadFacts ==
  /\ DOMAIN workloads = 1 .. 12
  /\ \A i \in 1 .. 12 : /\ DOMAIN workloads[i].sizes \subseteq 1 .. 5
                        /\ DOMAIN workloads[i].variants \subseteq 1 .. 6
  /\ \A i, j \in 1 .. 12 : workloads[i].id = workloads[j].id => i = j
<1>1. DOMAIN workloads = 1 .. 12
  BY DEF workloads
<1>2. \A i \in 1 .. 12 : i = 1 \/ i = 2 \/ i = 3 \/ i = 4 \/ i = 5 \/ i = 6
                         \/ i = 7 \/ i = 8 \/ i = 9 \/ i = 10 \/ i = 11 \/ i = 12
  OBVIOUS
<1>3. /\ workloads[1].id = "W1" /\ workloads[2].id = "W2" /\ workloads[3].id = "W3"
      /\ workloads[4].id = "W4" /\ workloads[5].id = "W5" /\ workloads[6].id = "W6"
      /\ workloads[7].id = "W7" /\ workloads[8].id = "W8" /\ workloads[9].id = "W9"
      /\ workloads[10].id = "W10" /\ workloads[11].id = "W11" /\ workloads[12].id = "W12"
  BY DEF workloads, Workload
<1>4. \A i \in 1 .. 12 : workloads[i].sizes \in {AllSizes, Medium}
  BY <1>2 DEF workloads, Workload
<1>5. DOMAIN AllSizes \subseteq 1 .. 5 /\ DOMAIN Medium \subseteq 1 .. 5
  BY DEF AllSizes, Medium
<1>6. \A i \in 1 .. 12 : DOMAIN workloads[i].variants \subseteq 1 .. 6
  BY <1>2 DEF workloads, Workload
<1>7. \A i, j \in 1 .. 12 : workloads[i].id = workloads[j].id => i = j
  BY <1>2, <1>3
<1> QED BY <1>1, <1>4, <1>5, <1>6, <1>7

LEMMA UpToFinite == \A n \in Nat : IsFiniteSet(1 .. n)
<1> SUFFICES ASSUME NEW n \in Nat PROVE IsFiniteSet(1 .. n)
  OBVIOUS
<1>1. 1 \in Int /\ n \in Int
  OBVIOUS
<1> QED BY <1>1, FS_Interval, Zenon

(* There are finitely many names of structures. *)
LEMMA StructuresFinite == IsFiniteSet(structures)
<1>1. PICK f : f = <<"lazy", "persistent", "copy-on-push", "full-copy", "point-only",
                     "checkpointing", "buffered", "fat-node", "external">>
  OBVIOUS
<1>2. f \in Surjection(1 .. 9, structures)
  BY <1>1 DEF structures, Surjection
<1>3. IsFiniteSet(1 .. 9)
  BY UpToFinite
<1> QED BY <1>2, <1>3, FS_Surjection, Zenon

LEMMA JobsFinite ==
  ASSUME NEW options, options.structures \subseteq structures
  PROVE  IsFiniteSet(BuildJobs(options))
<1> DEFINE D == ((1 .. 12) \X (1 .. 5)) \X ((1 .. 6) \X structures)
           job(x) == [workload |-> workloads[x[1][1]].id, n |-> workloads[x[1][1]].sizes[x[1][2]],
                      variant |-> workloads[x[1][1]].variants[x[2][1]], structure |-> x[2][2]]
           T == {job(x) : x \in D}
<1>1. IsFiniteSet(D)
  <2>1. IsFiniteSet(1 .. 12) /\ IsFiniteSet(1 .. 5) /\ IsFiniteSet(1 .. 6)
    BY UpToFinite
  <2>2. IsFiniteSet((1 .. 12) \X (1 .. 5))
    BY <2>1, FS_Product
  <2>3. IsFiniteSet((1 .. 6) \X structures)
    BY <2>1, StructuresFinite, FS_Product
  <2> QED BY <2>2, <2>3, FS_Product
<1>2. IsFiniteSet(T)
  <2>1. PICK f : f = [x \in D |-> job(x)]
    OBVIOUS
  <2>2. f \in Surjection(D, T)
    <3> HIDE DEF D, job
    <3> QED BY <2>1 DEF Surjection
  <2> HIDE DEF D, T
  <2> QED BY <1>1, <2>2, FS_Surjection
<1>3. ASSUME NEW j \in BuildJobs(options) PROVE j \in T
  <2>1. PICK w \in Range(workloads) : \E p \in Points(options, w), s \in options.structures :
          j = [workload |-> w.id, n |-> p[1], variant |-> p[2], structure |-> s]
    BY DEF BuildJobs, Selected
  <2>8. PICK p \in Points(options, w), s \in options.structures :
          j = [workload |-> w.id, n |-> p[1], variant |-> p[2], structure |-> s]
    BY <2>1
  <2>2. PICK i \in 1 .. 12 : w = workloads[i]
    BY <2>1, WorkloadFacts DEF Range
  <2>3. p[1] \in Range(w.sizes) /\ p[2] \in Range(w.variants)
    BY DEF Points
  <2>4. PICK a \in 1 .. 5 : p[1] = w.sizes[a]
    BY <2>2, <2>3, WorkloadFacts DEF Range
  <2>5. PICK b \in 1 .. 6 : p[2] = w.variants[b]
    BY <2>2, <2>3, WorkloadFacts DEF Range
  <2>6. <<<<i, a>>, <<b, s>>>> \in D
    OBVIOUS
  <2>7. j = job(<<<<i, a>>, <<b, s>>>>)
    BY <2>2, <2>4, <2>5, <2>8
  <2> HIDE DEF D, job
  <2> QED BY <2>6, <2>7
<1> HIDE DEF T
<1> QED BY <1>2, <1>3, FS_Subset

(* The greatest element of a bounded set, and the least of any. *)
LEMMA MaxFacts ==
  ASSUME NEW T \in SUBSET Nat, 0 \in T, NEW b \in Nat, \A y \in T : y <= b
  PROVE  Max(T) \in T /\ \A y \in T : y <= Max(T)
<1> DEFINE U == {n \in Nat : \A y \in T : y <= n}
<1>1. PICK m \in U : \A n \in U : m <= n
  <2>1. b \in U
    OBVIOUS
  <2> HIDE DEF U
  <2>2. U \in SUBSET Nat
    BY DEF U
  <2> QED BY <2>1, <2>2, LeastNatural
<1>2. m \in Nat /\ \A y \in T : y <= m
  OBVIOUS
<1>3. m \in T
  <2> SUFFICES ASSUME m \notin T PROVE FALSE
    OBVIOUS
  <2>1. m # 0 /\ m - 1 \in Nat
    BY <1>2
  <2>2. \A y \in T : y <= m - 1
    BY <1>2
  <2>3. m - 1 \in U
    BY <2>1, <2>2
  <2> QED BY <1>1, <1>2, <2>3
<1>4. \E x \in T : \A y \in T : x >= y
  BY <1>2, <1>3
<1> QED BY <1>4 DEF Max

LEMMA MinFacts ==
  ASSUME NEW T \in SUBSET Nat, T # {}
  PROVE  Min(T) \in T /\ \A y \in T : Min(T) <= y
BY LeastNatural DEF Min

(* The trials of every cell are among those registered. *)
LEMMA TrialsFacts ==
  ASSUME NEW job
  PROVE  /\ TrialsFor(job) \in {Trials, PrimaryTrials, CappedTrials}
         /\ TrialsFor(job) \in Nat
         /\ TrialsFor(job) <= Max({Trials, PrimaryTrials, CappedTrials})
<1>1. TrialsFor(job) \in {Trials, PrimaryTrials, CappedTrials}
  BY DEF TrialsFor
<1>2. Trials \in Nat /\ PrimaryTrials \in Nat /\ CappedTrials \in Nat
  BY CountsAssumption
<1>3. PICK m \in {Trials, PrimaryTrials, CappedTrials} :
        \A y \in {Trials, PrimaryTrials, CappedTrials} : m >= y
  BY <1>2
<1>4. \A y \in {Trials, PrimaryTrials, CappedTrials} :
        Max({Trials, PrimaryTrials, CappedTrials}) >= y
  BY <1>3 DEF Max
<1>5. Max({Trials, PrimaryTrials, CappedTrials}) \in {Trials, PrimaryTrials, CappedTrials}
  BY <1>3 DEF Max
<1> QED BY <1>1, <1>2, <1>4, <1>5

\* What is planned for a list of structures: each job, at each of its trials.
Planned(of) ==
  UNION {{Cell(job, t) : t \in 0 .. TrialsFor(job) - 1} : job \in BuildJobs(Everything(of))}

(***************************************************************************)
(* A schedule holds what is planned, and nothing else.                     *)
(***************************************************************************)
LEMMA ScheduleCells ==
  ASSUME NEW of \in SUBSET structures
  PROVE  /\ BuildSchedule(of) \in Seq(Planned(of))
         /\ Cells(BuildSchedule(of)) = Planned(of)
<1> DEFINE jobs == BuildJobs(Everything(of))
           T == {0} \cup {TrialsFor(job) : job \in jobs}
           part(t) == {Cell(job, t - 1) : job \in {j \in jobs : t <= TrialsFor(j)}}
           block == [t \in 1 .. Max(T) |-> Shuffled(part(t))]
<1>1. IsFiniteSet(jobs)
  BY JobsFinite DEF Everything
<1>2. \A job \in jobs : TrialsFor(job) \in Nat
  BY TrialsFacts
<1>3. Max(T) \in Nat /\ \A job \in jobs : TrialsFor(job) <= Max(T)
  <2>1. T \in SUBSET Nat /\ 0 \in T
    BY <1>2
  <2>2. PICK b \in Nat : b = Trials + PrimaryTrials + CappedTrials
    BY CountsAssumption
  <2>3. Trials <= b /\ PrimaryTrials <= b /\ CappedTrials <= b
    BY <2>2, CountsAssumption
  <2>4. \A y \in T : y <= b
    BY <2>3, TrialsFacts
  <2>5. Max(T) \in T /\ \A y \in T : y <= Max(T)
    <3> HIDE DEF T
    <3> QED BY <2>1, <2>4, MaxFacts
  <2> QED BY <2>1, <2>5
<1>4. ASSUME NEW t \in 1 .. Max(T)
      PROVE  /\ part(t) \subseteq Planned(of)
             /\ Shuffled(part(t)) \in Seq(part(t))
             /\ Cells(Shuffled(part(t))) = part(t)
  <2>1. part(t) \subseteq Planned(of)
    <3> SUFFICES ASSUME NEW job \in jobs, t <= TrialsFor(job)
                 PROVE  Cell(job, t - 1) \in Planned(of)
      OBVIOUS
    <3>1. t - 1 \in 0 .. TrialsFor(job) - 1
      BY <1>2, <1>3
    <3> QED BY <3>1 DEF Planned
  <2>2. IsFiniteSet(part(t))
    <3>1. PICK S : S = {j \in jobs : t <= TrialsFor(j)}
      OBVIOUS
    <3>2. IsFiniteSet(S)
      BY <1>1, <3>1, FS_Subset
    <3>3. PICK f : f = [job \in S |-> Cell(job, t - 1)]
      OBVIOUS
    <3>4. f \in Surjection(S, part(t))
      BY <3>1, <3>3 DEF Surjection
    <3> HIDE DEF part
    <3> QED BY <3>2, <3>4, FS_Surjection
  <2> HIDE DEF part
  <2> QED BY <2>1, <2>2, ShuffledCells
<1>5. block \in [1 .. Max(T) -> Seq(Planned(of))]
  <2> HIDE DEF part, T
  <2> QED BY <1>4
<1>6. BuildSchedule(of) = FlattenSeq(block)
  BY DEF BuildSchedule
<1>7. /\ FlattenSeq(block) \in Seq(Planned(of))
      /\ \A e : e \in Cells(FlattenSeq(block)) <=> \E t \in 1 .. Max(T) : e \in Cells(block[t])
  <2> HIDE DEF block, T
  <2> QED BY <1>3, <1>5, FlattenCells
<1>8. \A t \in 1 .. Max(T) : Cells(block[t]) = part(t)
  <2> HIDE DEF part, T
  <2> QED BY <1>4
<1>9. ASSUME NEW e \in Planned(of) PROVE \E t \in 1 .. Max(T) : e \in part(t)
  <2>1. PICK job \in jobs : \E t \in 0 .. TrialsFor(job) - 1 : e = Cell(job, t)
    BY DEF Planned
  <2>2. PICK t \in 0 .. TrialsFor(job) - 1 : e = Cell(job, t)
    BY <2>1
  <2>3. t + 1 \in 1 .. Max(T) /\ (t + 1) - 1 = t /\ t + 1 <= TrialsFor(job)
    <3> HIDE DEF T
    <3> QED BY <1>2, <1>3
  <2>4. e \in part(t + 1)
    BY <2>2, <2>3
  <2> QED BY <2>3, <2>4
<1>10. Cells(FlattenSeq(block)) \subseteq Planned(of)
  <2> HIDE DEF part, T, block
  <2> QED BY <1>4, <1>7, <1>8
<1>11. Planned(of) \subseteq Cells(FlattenSeq(block))
  <2> HIDE DEF part, T, block
  <2> QED BY <1>7, <1>8, <1>9
<1> QED BY <1>6, <1>7, <1>10, <1>11

-----------------------------------------------------------------------------
(***************************************************************************)
(* A runner past the verification works on the schedule whose checksum is  *)
(* recorded, at one of its lines; before a checksum is recorded no process *)
(* has ever been started.                                                  *)
(***************************************************************************)
OneScheduleInv ==
  /\ OneScheduleOnly
  /\ ~digest.exists => DOMAIN runs = {}
  /\ pc = "verify" => schedule.exists
  /\ pc \in {"loop", "run", "process"} => digest.exists /\ schedule = digest
  /\ pc \in {"run", "process"} => next \in DOMAIN schedule.lines

LEMMA InitOneSchedule == Init => OneScheduleInv
  BY DEF Init, OneScheduleInv, OneScheduleOnly, NoSchedule

(***************************************************************************)
(* The steps of a running phase that may write or remove files of a cell.  *)
(***************************************************************************)
LEMMA CellOneSchedule ==
  ASSUME OneScheduleInv,
         ReuseCell \/ ClearCell \/ StartProcess \/ RunAttempt \/ ExitProcess
  PROVE  OneScheduleInv'
<1>1. UNCHANGED <<schedule, digest>>
  BY DEF ReuseCell, ClearCell, StartProcess, RunAttempt, ExitProcess, files
<1>2. digest.exists /\ schedule = digest
  BY DEF OneScheduleInv, ReuseCell, ClearCell, StartProcess, RunAttempt, ExitProcess
<1>3. next \in DOMAIN schedule.lines /\ cell \in Cells(digest.lines)
  BY <1>2 DEF OneScheduleInv, ReuseCell, ClearCell, StartProcess, RunAttempt,
              ExitProcess, Cells, cell
<1>4. DOMAIN runs' \subseteq DOMAIN runs \cup {cell}
  BY DEF ReuseCell, ClearCell, RemoveFiles, Restrict, StartProcess, RunAttempt,
         ExitProcess, Created, files
<1>5. OneScheduleOnly'
  BY <1>1, <1>3, <1>4 DEF OneScheduleInv, OneScheduleOnly
<1>6. pc' \in {"loop", "run", "process", "down"}
      /\ (pc' \in {"run", "process"} => UNCHANGED next)
  BY DEF ReuseCell, ClearCell, StartProcess, RunAttempt, ExitProcess
<1> QED BY <1>1, <1>2, <1>3, <1>5, <1>6 DEF OneScheduleInv

(***************************************************************************)
(* The other steps of the runner.  Where it records a checksum there was   *)
(* none, so there is no file of a cell yet.                                *)
(***************************************************************************)
LEMMA RunnerOneSchedule ==
  ASSUME OneScheduleInv, Start \/ WriteSchedule \/ VerifySchedule \/ AuditAndMarkPhase
  PROVE  OneScheduleInv'
<1>1. UNCHANGED runs
  BY DEF Start, WriteSchedule, VerifySchedule, AuditAndMarkPhase
<1>2. CASE Start \/ WriteSchedule
  BY <1>1, <1>2 DEF Start, WriteSchedule, OneScheduleInv, OneScheduleOnly, Whole
<1>3. CASE VerifySchedule
  <2>1. schedule.exists /\ UNCHANGED schedule
    BY <1>3 DEF VerifySchedule, OneScheduleInv
  <2>2. /\ digest' = IF digest.exists THEN digest ELSE schedule
        /\ pc' = "down" \/ (pc' = "loop" /\ schedule = digest')
    BY <1>3 DEF VerifySchedule, HashOrVerifyArtifact
  <2>3. digest'.exists /\ OneScheduleOnly'
    BY <1>1, <2>1, <2>2 DEF OneScheduleInv, OneScheduleOnly
  <2> QED BY <2>1, <2>2, <2>3 DEF OneScheduleInv
<1>4. CASE AuditAndMarkPhase
  BY <1>1, <1>4 DEF AuditAndMarkPhase, OneScheduleInv, OneScheduleOnly
<1> QED BY <1>2, <1>3, <1>4

(***************************************************************************)
(* A fault stops the runner.  It empties files but removes none, and loses *)
(* the recorded checksum only while there is no file of a cell.            *)
(***************************************************************************)
LEMMA FaultOneSchedule ==
  ASSUME OneScheduleInv, Kill \/ PowerLoss \/ ReplaceSchedule
  PROVE  OneScheduleInv'
<1>1. pc' = "down" /\ DOMAIN runs' = DOMAIN runs
  BY DEF Kill, PowerLoss, ReplaceSchedule, Crash
<1>2. UNCHANGED digest \/ (DOMAIN runs = {} /\ digest' = Whole(<<>>))
  <2>1. runs = <<>> => DOMAIN runs = {}
    OBVIOUS
  <2> QED BY <2>1 DEF Kill, PowerLoss, ReplaceSchedule
<1> QED BY <1>1, <1>2 DEF OneScheduleInv, OneScheduleOnly, Whole

LEMMA NextOneSchedule == OneScheduleInv /\ [Next]_vars => OneScheduleInv'
<1> SUFFICES ASSUME OneScheduleInv, [Next]_vars PROVE OneScheduleInv'
  OBVIOUS
<1>1. CASE UNCHANGED vars
  BY <1>1 DEF vars, OneScheduleInv, OneScheduleOnly
<1>2. CASE Next
  BY <1>2, CellOneSchedule, RunnerOneSchedule, FaultOneSchedule DEF Next, Run
<1> QED BY <1>1, <1>2

(***************************************************************************)
(* Files of two schedules never meet in a campaign, whatever the schedules *)
(* are, and however often it is killed, loses power or has its schedule    *)
(* replaced.                                                               *)
(***************************************************************************)
THEOREM SchedulesNeverMix == Spec => []OneScheduleOnly
<1>1. OneScheduleInv => OneScheduleOnly
  BY DEF OneScheduleInv
<1> QED BY <1>1, InitOneSchedule, NextOneSchedule, PTL DEF Spec

-----------------------------------------------------------------------------
(***************************************************************************)
(* The process of a cell.  Of the attempts it makes one is not a warm-up,  *)
(* and that one is the last.                                               *)
(***************************************************************************)
LEMMA ProcessFields ==
  ASSUME NEW c
  PROVE  /\ ProcessOptions(c).ids = {c.workload}
         /\ ProcessOptions(c).structures = {c.structure}
         /\ ProcessOptions(c).reachesCap = ReachesCap
         /\ ProcessOptions(c).sizes = {c.n}
         /\ ProcessOptions(c).variants = {c.variant}
         /\ ProcessOptions(c).warmup = Warmup
         /\ ProcessOptions(c).seed = BaseSeed
         /\ ProcessOptions(c).cappedTrials = 1
         /\ ProcessOptions(c).trials = TrialsFor(c)
         /\ ProcessOptions(c).trialIndex = c.trial
BY DEF ProcessOptions, Everything

LEMMA ProcessAttempts ==
  ASSUME NEW c, c.trial \in Nat
  PROVE  /\ Attempts(ProcessOptions(c)) \subseteq Nat
         /\ \A a \in Attempts(ProcessOptions(c)) : a >= Warmup => a = Warmup + c.trial
         /\ c.trial < TrialsFor(c) => Warmup + c.trial \in Attempts(ProcessOptions(c))
<1>1. Warmup \in Nat /\ TrialsFor(c) \in Nat
  BY CountsAssumption, TrialsFacts
<1>2. Attempts(ProcessOptions(c)) =
        {a \in 0 .. Warmup + TrialsFor(c) - 1 :
           c.trial >= 0 /\ a >= Warmup => a - Warmup = c.trial}
  BY ProcessFields DEF Attempts
<1> QED BY <1>1, <1>2

(* A warm-up leaves no row. *)
LEMMA WarmupHasNoRows ==
  ASSUME NEW c, NEW w, NEW a, ~(a >= Warmup)
  PROVE  RowGroup(ProcessOptions(c), w, c.n, a, c.variant) = {}
BY ProcessFields DEF RowGroup

(* A cell that is planned. *)
LEMMA PlannedCells ==
  ASSUME NEW of, NEW c \in Planned(of)
  PROVE  \E job \in BuildJobs(Everything(of)) :
           /\ c = Cell(job, c.trial)
           /\ TrialsFor(c) = TrialsFor(job)
           /\ c.trial \in Nat /\ c.trial < TrialsFor(c)
<1>1. PICK job \in BuildJobs(Everything(of)) :
             \E t \in 0 .. TrialsFor(job) - 1 : c = Cell(job, t)
  BY DEF Planned
<1>2. PICK t \in 0 .. TrialsFor(job) - 1 : c = Cell(job, t)
  BY <1>1
<1>3. c.trial = t /\ c.variant = job.variant /\ c.structure = job.structure
  BY <1>2 DEF Cell
<1>4. TrialsFor(c) = TrialsFor(job) /\ TrialsFor(job) \in Nat
  BY <1>3, TrialsFacts DEF TrialsFor
<1> QED BY <1>2, <1>3, <1>4

-----------------------------------------------------------------------------
(***************************************************************************)
(* What a resumption finds.  Every line of a schedule, and of the one a    *)
(* checksum is recorded for, is a planned cell; a process starts without   *)
(* files of its cell, and once it has measured has no attempt left.        *)
(***************************************************************************)
PlannedCell == Planned(ScheduledStructures) \cup Planned(OtherStructures)

ProcessInv ==
  /\ OneScheduleInv
  /\ Cells(schedule.lines) \cup Cells(digest.lines) \subseteq PlannedCell
  /\ pc = "run" => cell \notin DOMAIN runs
  /\ pc = "process" => /\ cell \in DOMAIN runs
                       /\ attempts \subseteq Attempts(ProcessOptions(cell))
                       /\ Measured(cell) # {} => attempts = {}
  /\ losses \in Nat

(* The runner is at a planned cell when it runs a process for it. *)
LEMMA AtPlannedCell ==
  ASSUME ProcessInv, pc \in {"run", "process"}
  PROVE  cell \in PlannedCell /\ cell.trial \in Nat /\ cell.trial < TrialsFor(cell)
<1>1. cell \in PlannedCell
  BY DEF ProcessInv, OneScheduleInv, cell, Cells
<1> QED BY <1>1, PlannedCells DEF PlannedCell

LEMMA InitProcess == Init => ProcessInv
BY InitOneSchedule DEF Init, ProcessInv, NoSchedule, Cells

LEMMA ScheduleLines ==
  /\ Schedule \in Seq(PlannedCell) /\ Cells(Schedule) \subseteq PlannedCell
  /\ Cells(OtherSchedule) \subseteq PlannedCell
  /\ Cells(<<>>) = {}
<1>1. ScheduledStructures \in SUBSET structures /\ OtherStructures \in SUBSET structures
  BY StructuresAssumption
<1>2. Cells(Schedule) = Planned(ScheduledStructures)
      /\ Schedule \in Seq(Planned(ScheduledStructures))
  BY <1>1, ScheduleCells DEF Schedule
<1>3. Cells(OtherSchedule) = Planned(OtherStructures)
  BY <1>1, ScheduleCells DEF OtherSchedule
<1>4. Planned(ScheduledStructures) \subseteq PlannedCell
      /\ Planned(OtherStructures) \subseteq PlannedCell
  BY DEF PlannedCell
<1>5. Schedule \in Seq(PlannedCell)
  BY <1>2, <1>4
<1> QED BY <1>2, <1>3, <1>4, <1>5 DEF Cells

(* The lines of the files, before any step and after it. *)
LEMMA NextLines ==
  ASSUME ProcessInv, [Next]_vars
  PROVE  (Cells(schedule.lines) \cup Cells(digest.lines) \subseteq PlannedCell)'
<1>1. Cells(schedule.lines) \subseteq PlannedCell /\ Cells(digest.lines) \subseteq PlannedCell
  BY DEF ProcessInv
<1>2. CASE schedule' = schedule /\ digest' \in {digest, schedule}
  BY <1>1, <1>2
<1>3. CASE digest' = digest /\ schedule' \in {Whole(<<>>), Whole(Schedule), NoSchedule,
                                              Whole(OtherSchedule)}
  BY <1>1, <1>3, ScheduleLines DEF Whole, NoSchedule
<1>4. CASE Kill /\ pc = "schedule"
  <2>1. digest' = digest
    BY <1>4 DEF Kill
  <2>2. PICK k \in 0 .. Len(Schedule) - 1 : schedule'.lines = SubSeq(Schedule, 1, k)
    BY <1>4 DEF Kill
  <2>3. Cells(SubSeq(Schedule, 1, k)) \subseteq Cells(Schedule)
    BY ScheduleLines DEF Cells
  <2> QED BY <1>1, <2>1, <2>2, <2>3, ScheduleLines
<1>5. CASE Kill /\ pc # "schedule"
  BY <1>2, <1>5 DEF Kill
<1>6. CASE PowerLoss
  <2>1. schedule' \in {schedule, Whole(<<>>)} /\ digest' \in {digest, Whole(<<>>)}
    BY <1>6 DEF PowerLoss
  <2> QED BY <1>1, <2>1, ScheduleLines DEF Whole
<1>7. CASE Run
  <2>1. CASE Start
    BY <1>2, <1>3, <2>1 DEF Start
  <2>2. CASE WriteSchedule
    BY <1>3, <2>2 DEF WriteSchedule
  <2>3. CASE VerifySchedule
    BY <1>2, <2>3 DEF VerifySchedule, HashOrVerifyArtifact
  <2>4. CASE ReuseCell \/ ClearCell \/ StartProcess \/ RunAttempt \/ ExitProcess
             \/ AuditAndMarkPhase
    BY <1>2, <2>4 DEF ReuseCell, ClearCell, StartProcess, RunAttempt, ExitProcess,
                      AuditAndMarkPhase, files
  <2> QED BY <1>7, <2>1, <2>2, <2>3, <2>4 DEF Run
<1>8. CASE ReplaceSchedule
  BY <1>3, <1>8 DEF ReplaceSchedule
<1>9. CASE UNCHANGED vars
  BY <1>2, <1>9 DEF vars
<1> QED BY <1>4, <1>5, <1>6, <1>7, <1>8, <1>9 DEF Next

-----------------------------------------------------------------------------
(***************************************************************************)
(* One lemma for each kind of step: it preserves the invariant, and no     *)
(* measured row is lost or added to.                                       *)
(***************************************************************************)
RowsStay ==
  \A c \in DOMAIN runs : Measured(c) # {} =>
    c \in DOMAIN runs' /\ runs'[c] \ {Header} = Measured(c)

LEMMA QuietRows ==
  ASSUME ProcessInv, OneScheduleInv',
         (Cells(schedule.lines) \cup Cells(digest.lines) \subseteq PlannedCell)',
         Start \/ WriteSchedule \/ VerifySchedule \/ ReuseCell \/ AuditAndMarkPhase
           \/ Kill \/ ReplaceSchedule
  PROVE  ProcessInv' /\ RowsStay
<1>1. runs' = runs /\ losses' = losses
  BY DEF Start, WriteSchedule, VerifySchedule, ReuseCell, AuditAndMarkPhase, Kill,
         ReplaceSchedule, files, faults
<1>2. pc' \notin {"run", "process"}
  BY DEF Start, WriteSchedule, VerifySchedule, HashOrVerifyArtifact, ReuseCell,
         AuditAndMarkPhase, Kill, Crash, ReplaceSchedule
<1>3. ProcessInv'
  BY <1>1, <1>2 DEF ProcessInv
<1> QED BY <1>1, <1>3 DEF RowsStay, Measured

LEMMA PowerLossRows ==
  ASSUME ProcessInv, OneScheduleInv',
         (Cells(schedule.lines) \cup Cells(digest.lines) \subseteq PlannedCell)',
         PowerLoss
  PROVE  ProcessInv' /\ losses' # losses
<1>1. pc' = "down" /\ losses' = losses + 1 /\ losses \in Nat
  BY DEF PowerLoss, Crash, ProcessInv
<1> QED BY <1>1 DEF ProcessInv

LEMMA ClearCellRows ==
  ASSUME ProcessInv, OneScheduleInv',
         (Cells(schedule.lines) \cup Cells(digest.lines) \subseteq PlannedCell)',
         ClearCell
  PROVE  ProcessInv' /\ RowsStay
<1>1. /\ pc' = "run" /\ UNCHANGED <<schedule, next, losses>>
      /\ runs' = [c \in DOMAIN runs \ {cell} |-> runs[c]]
      /\ ~HasContent(cell)
  BY DEF ClearCell, RemoveFiles, Restrict, faults
<1>2. cell' = cell /\ cell \notin DOMAIN runs'
  BY <1>1 DEF cell
<1>3. ProcessInv'
  BY <1>1, <1>2 DEF ProcessInv
<1>4. ASSUME NEW c \in DOMAIN runs, Measured(c) # {}
      PROVE  c \in DOMAIN runs' /\ runs'[c] \ {Header} = Measured(c)
  <2>1. c # cell
    BY <1>1, <1>4 DEF HasContent, Measured
  <2> QED BY <1>1, <2>1 DEF Measured
<1> QED BY <1>3, <1>4 DEF RowsStay

LEMMA StartProcessRows ==
  ASSUME ProcessInv, OneScheduleInv',
         (Cells(schedule.lines) \cup Cells(digest.lines) \subseteq PlannedCell)',
         StartProcess
  PROVE  ProcessInv' /\ RowsStay
<1>1. UNCHANGED <<schedule, next, losses>> /\ cell' = cell /\ cell \notin DOMAIN runs
  BY DEF StartProcess, faults, cell, ProcessInv
<1>2. CASE pc' = "down" /\ runs' = runs
  BY <1>1, <1>2 DEF ProcessInv, RowsStay, Measured
<1>3. CASE /\ pc' = "process" /\ attempts' = Attempts(ProcessOptions(cell))
           /\ runs' = Created(runs, cell, {})
  <2>1. /\ DOMAIN runs' = DOMAIN runs \cup {cell}
        /\ runs'[cell] = {}
        /\ \A c \in DOMAIN runs : runs'[c] = runs[c]
    BY <1>1, <1>3 DEF Created
  <2>2. Measured(cell)' = {}
    BY <1>1, <2>1 DEF Measured
  <2>3. (Measured(cell) # {} => attempts = {})'
    BY <2>2
  <2>4. (attempts \subseteq Attempts(ProcessOptions(cell)))'
    <3>1. Attempts(ProcessOptions(cell))' = Attempts(ProcessOptions(cell))
      BY <1>1 DEF ProcessOptions, Attempts, Everything, TrialsFor
    <3> QED BY <1>3, <3>1
  <2>5. (cell \in DOMAIN runs)'
    BY <1>1, <2>1
  <2>6. ProcessInv'
    BY <1>1, <1>3, <2>3, <2>4, <2>5 DEF ProcessInv
  <2> QED BY <2>1, <2>6 DEF RowsStay, Measured
<1> QED BY <1>2, <1>3 DEF StartProcess

(* An attempt that is measured is the last one. *)
LEMMA RunAttemptRows ==
  ASSUME ProcessInv, OneScheduleInv',
         (Cells(schedule.lines) \cup Cells(digest.lines) \subseteq PlannedCell)',
         RunAttempt
  PROVE  ProcessInv' /\ RowsStay
<1>1. UNCHANGED <<schedule, pc, next, losses>> /\ cell' = cell /\ pc = "process"
  BY DEF RunAttempt, faults, cell
<1>2. /\ cell \in DOMAIN runs /\ attempts # {}
      /\ attempts \subseteq Attempts(ProcessOptions(cell))
      /\ Measured(cell) = {}
  BY <1>1 DEF ProcessInv, RunAttempt
<1>3. cell.trial \in Nat /\ cell.trial < TrialsFor(cell)
  BY <1>1, AtPlannedCell
<1>4. PICK a : a = Min(attempts)
  OBVIOUS
<1>5. a \in attempts /\ attempts \subseteq Nat /\ \A b \in attempts : a <= b
  BY <1>2, <1>3, <1>4, ProcessAttempts, MinFacts
<1>6. /\ attempts' = attempts \ {a}
      /\ runs' = [runs EXCEPT ![cell] = Flushed(cell, a)]
  BY <1>4 DEF RunAttempt
<1>7. ASSUME Measured(cell)' # {} PROVE attempts' = {}
  <2>1. Flushed(cell, a) \ {Header} # {}
    BY <1>1, <1>2, <1>6, <1>7 DEF Measured
  <2>2. RowGroup(ProcessOptions(cell), WorkloadOf(cell), cell.n, a, cell.variant) # {}
    BY <1>2, <2>1 DEF Flushed, Measured
  <2>3. a >= Warmup
    BY <2>2, WarmupHasNoRows
  <2>4. \A b \in attempts : b = a
    <3>1. Warmup \in Nat
      BY CountsAssumption
    <3>2. \A b \in attempts : b >= Warmup
      BY <1>5, <2>3, <3>1
    <3> QED BY <1>2, <1>3, <1>5, <3>2, ProcessAttempts
  <2> QED BY <1>6, <2>4
<1>8. (attempts \subseteq Attempts(ProcessOptions(cell)))'
  <2>1. Attempts(ProcessOptions(cell))' = Attempts(ProcessOptions(cell))
    BY <1>1 DEF ProcessOptions, Attempts, Everything, TrialsFor
  <2> QED BY <1>2, <1>6, <2>1
<1>9. (cell \in DOMAIN runs)' /\ DOMAIN runs' = DOMAIN runs
  BY <1>1, <1>2, <1>6
<1>10. ProcessInv'
  BY <1>1, <1>7, <1>8, <1>9 DEF ProcessInv
<1>11. \A c \in DOMAIN runs : c # cell => runs'[c] = runs[c]
  BY <1>6
<1> QED BY <1>2, <1>9, <1>10, <1>11 DEF RowsStay, Measured

LEMMA ExitProcessRows ==
  ASSUME ProcessInv, OneScheduleInv',
         (Cells(schedule.lines) \cup Cells(digest.lines) \subseteq PlannedCell)',
         ExitProcess
  PROVE  ProcessInv' /\ RowsStay
<1>1. /\ pc' = "loop" /\ losses' = losses
      /\ runs' = [runs EXCEPT ![cell] = runs[cell] \cup {Header}]
  BY DEF ExitProcess, faults
<1>2. ProcessInv'
  BY <1>1 DEF ProcessInv
<1>3. \A c \in DOMAIN runs : runs'[c] \ {Header} = Measured(c)
  BY <1>1 DEF Measured
<1> QED BY <1>1, <1>2, <1>3 DEF RowsStay

LEMMA NextProcess ==
  ASSUME ProcessInv, [Next]_vars
  PROVE  ProcessInv' /\ (losses' = losses => RowsStay)
<1>1. OneScheduleInv'
  BY NextOneSchedule DEF ProcessInv
<1>2. (Cells(schedule.lines) \cup Cells(digest.lines) \subseteq PlannedCell)'
  BY NextLines
<1>3. CASE UNCHANGED vars
  <2>1. UNCHANGED <<runs, pc, attempts, losses, cell>>
    BY <1>3 DEF vars, cell
  <2>2. Measured(cell)' = Measured(cell)
        /\ Attempts(ProcessOptions(cell))' = Attempts(ProcessOptions(cell))
    BY <2>1 DEF Measured, ProcessOptions, Attempts, Everything, TrialsFor
  <2>3. ProcessInv'
    BY <1>1, <1>2, <2>1, <2>2 DEF ProcessInv
  <2> QED BY <2>1, <2>3 DEF RowsStay, Measured
<1> QED BY <1>1, <1>2, <1>3, QuietRows, PowerLossRows, ClearCellRows, StartProcessRows,
           RunAttemptRows, ExitProcessRows DEF Next, Run

LEMMA ProcessInvariant == Spec => []ProcessInv
BY InitProcess, NextProcess, PTL DEF Spec

(***************************************************************************)
(* A measurement, once flushed, is never measured again, and no resumption *)
(* removes it: whatever the schedule is, and however often the campaign is *)
(* killed and started again, only a loss of power can                      *)
(* (reuse_or_clear_cell).                                                  *)
(***************************************************************************)
THEOREM MeasuredOnce == Spec => FinishedRowsStay
<1>1. ProcessInv /\ [Next]_vars =>
        [losses' = losses =>
           \A c \in DOMAIN runs : Measured(c) # {} =>
             c \in DOMAIN runs' /\ runs'[c] \ {Header} = Measured(c)]_vars
  BY NextProcess DEF RowsStay
<1> QED BY <1>1, ProcessInvariant, PTL DEF Spec, FinishedRowsStay

-----------------------------------------------------------------------------
(***************************************************************************)
(* The rows.  A cell has one row, whether a process of its own records it  *)
(* or an invocation for everything does.                                   *)
(***************************************************************************)

\* The point of a sweep at which a job with this structure is not a repetition.
OwnPoint(w, variant, structure) ==
  w.axis = "k" /\ structure # "checkpointing" => variant = w.variants[1]

IsJob(job, of) ==
  \E w \in Range(workloads) :
    /\ w.id \in ScheduledWorkloads
    /\ \E size \in Range(w.sizes), variant \in Range(w.variants), s \in of :
         /\ job = [workload |-> w.id, n |-> size, variant |-> variant, structure |-> s]
         /\ OwnPoint(w, variant, s)

RowAt(w, size, variant, structure, trial) ==
  [workload |-> w.id, n |-> size, variant |-> variant, structure |-> structure,
   k |-> JobInterval(w, size, variant, structure),
   seed |-> BaseSeed + Warmup + trial, trial |-> trial]

\* The row of a cell.
RowOf(c) == RowAt(WorkloadOf(c), c.n, c.variant, c.structure, c.trial)

(* A workload is known by its name. *)
LEMMA WorkloadNamed ==
  ASSUME NEW w \in Range(workloads), NEW c, c.workload = w.id
  PROVE  WorkloadOf(c) = w
<1>1. \A x \in Range(workloads) : x.id = w.id => x = w
  <2> SUFFICES ASSUME NEW x \in Range(workloads), x.id = w.id PROVE x = w
    OBVIOUS
  <2>1. PICK i \in 1 .. 12, j \in 1 .. 12 : w = workloads[i] /\ x = workloads[j]
    BY WorkloadFacts DEF Range
  <2> QED BY <2>1, WorkloadFacts
<1> QED BY <1>1 DEF WorkloadOf

(* An invocation for everything visits every point of a workload. *)
LEMMA PointsOfAll ==
  ASSUME NEW of, NEW w \in Range(workloads)
  PROVE  Points(Everything(of), w) = Range(w.sizes) \X Range(w.variants)
<1>1. PICK i \in 1 .. 12 : w = workloads[i]
  BY WorkloadFacts DEF Range
<1>2. \A j \in 1 .. 12 : j = 1 \/ j = 2 \/ j = 3 \/ j = 4 \/ j = 5 \/ j = 6
                         \/ j = 7 \/ j = 8 \/ j = 9 \/ j = 10 \/ j = 11 \/ j = 12
  OBVIOUS
<1>3. w.sizes \in {AllSizes, Medium}
  BY <1>1, <1>2 DEF workloads, Workload
<1>4. Range(Medium) \subseteq Range(AllSizes)
  <2>1. Medium = <<AllSizes[2]>> /\ 2 \in DOMAIN AllSizes
    BY DEF Medium, AllSizes
  <2>2. Range(Medium) = {AllSizes[2]}
    BY <2>1 DEF Range
  <2> QED BY <2>1, <2>2 DEF Range
<1>5. Range(w.sizes) \subseteq Range(AllSizes)
  BY <1>3, <1>4
<1>6. Range(w.variants) \subseteq UNION {Range(x.variants) : x \in Range(workloads)}
  OBVIOUS
<1>7. /\ Everything(of).sizes = Range(AllSizes)
      /\ Everything(of).variants = UNION {Range(x.variants) : x \in Range(workloads)}
  BY DEF Everything
<1> QED BY <1>5, <1>6, <1>7 DEF Points

(* The jobs that are planned. *)
LEMMA JobMembers ==
  ASSUME NEW of, NEW job
  PROVE  job \in BuildJobs(Everything(of)) <=> IsJob(job, of)
<1> DEFINE E == Everything(of)
           Of(w, p, s) == [workload |-> w.id, n |-> p[1], variant |-> p[2], structure |-> s]
<1>1. E.structures = of /\ E.ids = ScheduledWorkloads
  BY DEF Everything
<1>2. job \in BuildJobs(E) <=>
        /\ \E w \in Selected(E) : \E p \in Points(E, w), s \in of : job = Of(w, p, s)
        /\ ~\E w \in {x \in Selected(E) : x.axis = "k"} :
              \E p \in {q \in Points(E, w) : q[2] # w.variants[1]}, s \in of \ {"checkpointing"} :
                job = Of(w, p, s)
  <2> DEFINE Rest(w) == {q \in Points(E, w) : q[2] # w.variants[1]}
             A == UNION {{Of(w, p, s) : p \in Points(E, w), s \in E.structures} : w \in Selected(E)}
             B == UNION {{Of(w, p, s) : p \in Rest(w), s \in E.structures \ {"checkpointing"}} :
                           w \in {x \in Selected(E) : x.axis = "k"}}
  <2>1. BuildJobs(E) = A \ B
    <3> HIDE DEF E
    <3>1. BuildJobs(E) =
            (UNION {{[workload |-> w.id, n |-> p[1], variant |-> p[2], structure |-> s] :
                       p \in Points(E, w), s \in E.structures} : w \in Selected(E)})
              \ (UNION {{[workload |-> w.id, n |-> p[1], variant |-> p[2], structure |-> s] :
                           p \in {q \in Points(E, w) : q[2] # w.variants[1]},
                           s \in E.structures \ {"checkpointing"}} :
                          w \in {x \in Selected(E) : x.axis = "k"}})
      BY DEF BuildJobs
    <3> QED BY <3>1
  <2>2. job \in A <=> \E w \in Selected(E) : \E p \in Points(E, w), s \in of : job = Of(w, p, s)
    <3> HIDE DEF E, Of
    <3> QED BY <1>1
  <2>3. job \in B <=> \E w \in {x \in Selected(E) : x.axis = "k"} :
                        \E p \in Rest(w), s \in of \ {"checkpointing"} : job = Of(w, p, s)
    <3> HIDE DEF E, Of, Rest
    <3> QED BY <1>1
  <2> HIDE DEF E, Of, A, B
  <2> QED BY <2>1, <2>2, <2>3
<1>3. Selected(E) = {w \in Range(workloads) : w.id \in ScheduledWorkloads}
  BY <1>1 DEF Selected
<1>4. \A w \in Range(workloads) : Points(E, w) = Range(w.sizes) \X Range(w.variants)
  BY PointsOfAll
<1>5. \A w, x \in Range(workloads) : w.id = x.id => w = x
  <2> SUFFICES ASSUME NEW w \in Range(workloads), NEW x \in Range(workloads), w.id = x.id
               PROVE  w = x
    OBVIOUS
  <2>1. PICK i \in 1 .. 12, j \in 1 .. 12 : w = workloads[i] /\ x = workloads[j]
    BY WorkloadFacts DEF Range
  <2> QED BY <2>1, WorkloadFacts
<1> HIDE DEF E
<1>6. ASSUME job \in BuildJobs(E) PROVE IsJob(job, of)
  <2>1. PICK w \in Selected(E) : \E p \in Points(E, w), s \in of : job = Of(w, p, s)
    BY <1>2, <1>6
  <2>2. PICK p \in Points(E, w), s \in of : job = Of(w, p, s)
    BY <2>1
  <2>3. w \in Range(workloads) /\ w.id \in ScheduledWorkloads
        /\ p[1] \in Range(w.sizes) /\ p[2] \in Range(w.variants)
    BY <1>3, <1>4
  <2>4. OwnPoint(w, p[2], s)
    BY <1>2, <1>6, <2>2 DEF OwnPoint
  <2> QED BY <2>2, <2>3, <2>4 DEF IsJob
<1>7. ASSUME IsJob(job, of) PROVE job \in BuildJobs(E)
  <2>1. PICK w \in Range(workloads) :
          /\ w.id \in ScheduledWorkloads
          /\ \E size \in Range(w.sizes), variant \in Range(w.variants), s \in of :
               /\ job = [workload |-> w.id, n |-> size, variant |-> variant, structure |-> s]
               /\ OwnPoint(w, variant, s)
    BY <1>7 DEF IsJob
  <2>2. PICK size \in Range(w.sizes), variant \in Range(w.variants), s \in of :
          /\ job = [workload |-> w.id, n |-> size, variant |-> variant, structure |-> s]
          /\ OwnPoint(w, variant, s)
    BY <2>1
  <2>3. w \in Selected(E) /\ <<size, variant>> \in Points(E, w)
    BY <1>3, <1>4, <2>1
  <2>4. job = Of(w, <<size, variant>>, s)
    BY <2>2
  <2>5. ASSUME NEW x \in Selected(E), x.axis = "k", NEW p \in Points(E, x),
               p[2] # x.variants[1], NEW t \in of, t # "checkpointing", job = Of(x, p, t)
        PROVE  FALSE
    <3>1. x.id = w.id /\ p[2] = variant /\ t = s
      BY <2>2, <2>5
    <3>2. x = w
      BY <1>3, <1>5, <2>3, <3>1
    <3> QED BY <2>2, <2>5, <3>1, <3>2 DEF OwnPoint
  <2> QED BY <1>2, <2>3, <2>4, <2>5
<1> QED BY <1>6, <1>7 DEF E

\* A cell that is planned, seen from its workload.
IsCellOf(c, w, of) ==
  /\ w \in Range(workloads) /\ w.id \in ScheduledWorkloads
  /\ c = [workload |-> w.id, n |-> c.n, variant |-> c.variant, structure |-> c.structure,
          trial |-> c.trial]
  /\ c.n \in Range(w.sizes) /\ c.variant \in Range(w.variants) /\ c.structure \in of
  /\ OwnPoint(w, c.variant, c.structure)
  /\ c.trial \in Nat /\ c.trial < TrialsFor(c)

LEMMA PlannedMembers ==
  ASSUME NEW of, NEW c
  PROVE  c \in Planned(of) <=> \E w : IsCellOf(c, w, of)
<1>1. ASSUME c \in Planned(of) PROVE \E w : IsCellOf(c, w, of)
  <2>1. PICK job \in BuildJobs(Everything(of)) :
           /\ c = Cell(job, c.trial)
           /\ c.trial \in Nat /\ c.trial < TrialsFor(c)
    BY <1>1, PlannedCells
  <2>2. PICK w \in Range(workloads) :
          /\ w.id \in ScheduledWorkloads
          /\ \E size \in Range(w.sizes), variant \in Range(w.variants), s \in of :
               /\ job = [workload |-> w.id, n |-> size, variant |-> variant, structure |-> s]
               /\ OwnPoint(w, variant, s)
    BY JobMembers DEF IsJob
  <2>3. PICK size \in Range(w.sizes), variant \in Range(w.variants), s \in of :
          /\ job = [workload |-> w.id, n |-> size, variant |-> variant, structure |-> s]
          /\ OwnPoint(w, variant, s)
    BY <2>2
  <2>4. c = [workload |-> w.id, n |-> size, variant |-> variant, structure |-> s,
             trial |-> c.trial]
    BY <2>1, <2>3 DEF Cell
  <2>5. c.n = size /\ c.variant = variant /\ c.structure = s
    BY <2>4
  <2> QED BY <2>1, <2>2, <2>3, <2>4, <2>5 DEF IsCellOf
<1>2. ASSUME NEW w, IsCellOf(c, w, of) PROVE c \in Planned(of)
  <2>1. PICK job : job = [workload |-> w.id, n |-> c.n, variant |-> c.variant,
                          structure |-> c.structure]
    OBVIOUS
  <2>2. job \in BuildJobs(Everything(of))
    <3>1. IsJob(job, of)
      BY <1>2, <2>1 DEF IsCellOf, IsJob
    <3> QED BY <3>1, JobMembers
  <2>3. job.variant = c.variant /\ job.structure = c.structure
    BY <2>1
  <2>4. TrialsFor(job) = TrialsFor(c)
    BY <2>3 DEF TrialsFor
  <2>5. c = Cell(job, c.trial)
    BY <1>2, <2>1 DEF IsCellOf, Cell
  <2>6. c.trial \in 0 .. TrialsFor(job) - 1
    BY <1>2, <2>4, TrialsFacts DEF IsCellOf
  <2> QED BY <2>2, <2>5, <2>6 DEF Planned
<1> QED BY <1>1, <1>2

-----------------------------------------------------------------------------
(* What a process records for its cell: nothing in a warm-up, then its row. *)
LEMMA ProcessRows ==
  ASSUME NEW of, NEW c \in Planned(of), NEW a \in Attempts(ProcessOptions(c))
  PROVE  /\ Jobs(ProcessOptions(c), WorkloadOf(c), c.variant) # {}
         /\ RowGroup(ProcessOptions(c), WorkloadOf(c), c.n, a, c.variant) =
              IF a >= Warmup THEN {RowOf(c)} ELSE {}
         /\ a >= Warmup <=> a = Warmup + c.trial
<1>1. PICK w : IsCellOf(c, w, of)
  BY PlannedMembers
<1>2. WorkloadOf(c) = w
  <2>1. c.workload = w.id
    BY <1>1 DEF IsCellOf
  <2> QED BY <1>1, <2>1, WorkloadNamed DEF IsCellOf
<1>3. Jobs(ProcessOptions(c), w, c.variant) = {c.structure}
  BY <1>1, ProcessFields DEF Jobs, IsCellOf, OwnPoint
<1>4. c.trial \in Nat /\ Warmup \in Nat /\ BaseSeed \in Nat
  BY <1>1, CountsAssumption DEF IsCellOf
<1>5. a \in Nat /\ (a >= Warmup <=> a = Warmup + c.trial)
  BY <1>4, ProcessAttempts
<1>6. ASSUME a >= Warmup PROVE ~Skipped(ProcessOptions(c), c.variant, c.structure, a)
  <2>1. Attempts(ProcessOptions(c)) \cap (Warmup .. a - 1) = {}
    BY <1>4, <1>5, <1>6, ProcessAttempts
  <2>2. Cardinality({}) = 0
    BY FS_EmptySet
  <2>3. Cardinality(Attempts(ProcessOptions(c)) \cap (ProcessOptions(c).warmup .. a - 1)) = 0
    BY <2>1, <2>2, ProcessFields
  <2> QED BY <2>3, ProcessFields DEF Skipped
<1>7. CASE ~(a >= Warmup)
  BY <1>2, <1>3, <1>5, <1>7, WarmupHasNoRows
<1>8. CASE a >= Warmup
  <2>1. {s \in Jobs(ProcessOptions(c), w, c.variant) :
           a >= Warmup /\ ~Skipped(ProcessOptions(c), c.variant, s, a)} = {c.structure}
    BY <1>3, <1>6, <1>8
  <2>2. RowGroup(ProcessOptions(c), w, c.n, a, c.variant) =
          {[workload |-> w.id, n |-> c.n, variant |-> c.variant, structure |-> s,
            k |-> JobInterval(w, c.n, c.variant, s),
            seed |-> Seed(ProcessOptions(c), a), trial |-> a - Warmup] : s \in {c.structure}}
    BY <2>1, ProcessFields DEF RowGroup
  <2>3. Seed(ProcessOptions(c), a) = BaseSeed + Warmup + c.trial /\ a - Warmup = c.trial
    BY <1>4, <1>5, <1>8, ProcessFields DEF Seed
  <2>4. RowGroup(ProcessOptions(c), w, c.n, a, c.variant) = {RowOf(c)}
    BY <1>2, <2>2, <2>3 DEF RowOf, RowAt
  <2> QED BY <1>2, <1>3, <1>5, <1>8, <2>4
<1> QED BY <1>7, <1>8

(* The attempts of an invocation for everything, and which of them it skips. *)
LEMMA AttemptsOfAll ==
  ASSUME NEW of
  PROVE  Attempts(Everything(of)) =
           0 .. Warmup + Max({Trials, PrimaryTrials, CappedTrials}) - 1
<1>1. /\ Everything(of).warmup = Warmup
      /\ Everything(of).trials = Max({Trials, PrimaryTrials, CappedTrials})
      /\ Everything(of).trialIndex = -1
  BY DEF Everything
<1> QED BY <1>1 DEF Attempts

LEMMA SkippedByAll ==
  ASSUME NEW of, NEW variant, NEW s, NEW t \in Nat,
         t < Max({Trials, PrimaryTrials, CappedTrials})
  PROVE  Skipped(Everything(of), variant, s, Warmup + t) <=>
           <<variant, s>> \in ReachesCap /\ t >= CappedTrials
<1>1. PICK m : m = Max({Trials, PrimaryTrials, CappedTrials})
  OBVIOUS
<1>2. m \in Nat /\ Warmup \in Nat /\ CappedTrials \in Nat
  BY <1>1, CountsAssumption, TrialsFacts DEF Max
<1>3. Attempts(Everything(of)) \cap (Warmup .. Warmup + t - 1) = Warmup .. Warmup + t - 1
  <2>1. Attempts(Everything(of)) = 0 .. Warmup + m - 1 /\ t < m
    BY <1>1, AttemptsOfAll
  <2>2. Warmup .. Warmup + t - 1 \subseteq 0 .. Warmup + m - 1
    BY <1>2, <2>1
  <2> QED BY <2>1, <2>2
<1>4. Cardinality(Warmup .. Warmup + t - 1) = t
  <2>1. Warmup \in Int /\ Warmup + t - 1 \in Int
    BY <1>2
  <2>2. Cardinality(Warmup .. Warmup + t - 1) =
          IF Warmup > Warmup + t - 1 THEN 0 ELSE (Warmup + t - 1) - Warmup + 1
    BY <2>1, FS_Interval
  <2> QED BY <1>2, <2>2
<1>5. /\ Everything(of).warmup = Warmup /\ Everything(of).reachesCap = ReachesCap
      /\ Everything(of).cappedTrials = CappedTrials
  BY DEF Everything
<1>6. Cardinality(Attempts(Everything(of)) \cap (Everything(of).warmup .. (Warmup + t) - 1)) = t
  <2>1. Warmup + t - 1 = (Warmup + t) - 1
    BY <1>2
  <2> QED BY <1>3, <1>4, <1>5, <2>1
<1> QED BY <1>5, <1>6 DEF Skipped

(***************************************************************************)
(* Every cell that meets the cap is registered as one that does.           *)
(***************************************************************************)
CapsRegistered == ReachesCap \subseteq CappedCells

\* What one invocation for a list of structures records, in the trials registered.
RecordedByAll(of) == {row \in Rows(Everything(of)) : row.trial < TrialsFor(row)}

(***************************************************************************)
(* An invocation for everything records the rows of the planned cells.     *)
(***************************************************************************)
LEMMA RowsOfAll ==
  ASSUME NEW of, CapsRegistered
  PROVE  RecordedByAll(of) = {RowOf(c) : c \in Planned(of)}
<1> DEFINE E == Everything(of)
           M == Max({Trials, PrimaryTrials, CappedTrials})
<1>1. /\ E.structures = of /\ E.ids = ScheduledWorkloads /\ E.warmup = Warmup
      /\ E.seed = BaseSeed
  BY DEF Everything
<1>2. Warmup \in Nat /\ BaseSeed \in Nat /\ CappedTrials \in Nat
  BY CountsAssumption
<1>3. M \in Nat
  BY TrialsFacts, CountsAssumption DEF Max
<1>4. Attempts(E) = 0 .. Warmup + M - 1
  BY AttemptsOfAll
<1>5. ASSUME NEW row \in RecordedByAll(of)
      PROVE  \E c \in Planned(of) : row = RowOf(c)
  <2>1. row \in Rows(E) /\ row.trial < TrialsFor(row)
    BY DEF RecordedByAll
  <2>2. PICK w \in Selected(E) :
          \E p \in Points(E, w), a \in Attempts(E) : row \in RowGroup(E, w, p[1], a, p[2])
    <3> HIDE DEF E
    <3> QED BY <2>1 DEF Rows
  <2>3. PICK p \in Points(E, w), a \in Attempts(E) : row \in RowGroup(E, w, p[1], a, p[2])
    BY <2>2
  <2>4. /\ w \in Range(workloads) /\ w.id \in ScheduledWorkloads
        /\ p[1] \in Range(w.sizes) /\ p[2] \in Range(w.variants)
    BY <1>1, <2>2, PointsOfAll DEF Selected
  <2>5. PICK s \in Jobs(E, w, p[2]) :
          /\ a >= Warmup
          /\ row = [workload |-> w.id, n |-> p[1], variant |-> p[2], structure |-> s,
                    k |-> JobInterval(w, p[1], p[2], s),
                    seed |-> Seed(E, a), trial |-> a - Warmup]
    <3> HIDE DEF E
    <3> QED BY <1>1, <2>3 DEF RowGroup
  <2>6. s \in of /\ OwnPoint(w, p[2], s)
    <3> HIDE DEF E
    <3> QED BY <1>1 DEF Jobs, OwnPoint
  <2>7. PICK c : c = [workload |-> w.id, n |-> p[1], variant |-> p[2], structure |-> s,
                      trial |-> a - Warmup]
    OBVIOUS
  <2>8. /\ c.workload = w.id /\ c.n = p[1] /\ c.variant = p[2] /\ c.structure = s
        /\ c.trial = a - Warmup
    BY <2>7
  <2>9. row.trial = c.trial /\ TrialsFor(row) = TrialsFor(c)
    BY <2>5, <2>8 DEF TrialsFor
  <2>10. a \in Nat /\ c.trial \in Nat /\ a = Warmup + c.trial
    BY <1>2, <1>3, <1>4, <2>5, <2>8
  <2>11. IsCellOf(c, w, of)
    BY <2>1, <2>4, <2>6, <2>7, <2>8, <2>9, <2>10 DEF IsCellOf
  <2>12. WorkloadOf(c) = w
    BY <2>4, <2>8, WorkloadNamed
  <2>13. Seed(E, a) = BaseSeed + Warmup + c.trial
    <3>1. Seed(E, a) = BaseSeed + a
      <4> HIDE DEF E
      <4> QED BY <1>1 DEF Seed
    <3> QED BY <1>2, <2>10, <3>1
  <2>14. row = RowOf(c)
    BY <2>5, <2>8, <2>12, <2>13 DEF RowOf, RowAt
  <2> QED BY <2>11, <2>14, PlannedMembers
<1>6. ASSUME NEW c \in Planned(of) PROVE RowOf(c) \in RecordedByAll(of)
  <2>1. PICK w : IsCellOf(c, w, of)
    BY PlannedMembers
  <2>2. WorkloadOf(c) = w /\ c.workload = w.id
    <3>1. c.workload = w.id
      BY <2>1 DEF IsCellOf
    <3> QED BY <2>1, <3>1, WorkloadNamed DEF IsCellOf
  <2>3. w \in Selected(E) /\ <<c.n, c.variant>> \in Points(E, w)
    BY <1>1, <2>1, PointsOfAll DEF IsCellOf, Selected
  <2>4. c.trial \in Nat /\ c.trial < TrialsFor(c) /\ TrialsFor(c) <= M /\ TrialsFor(c) \in Nat
    BY <2>1, TrialsFacts DEF IsCellOf
  <2>5. PICK a \in Attempts(E) : a = Warmup + c.trial /\ a >= Warmup /\ a - Warmup = c.trial
    BY <1>2, <1>3, <1>4, <2>4
  <2>6. c.structure \in Jobs(E, w, c.variant)
    <3> HIDE DEF E
    <3> QED BY <1>1, <2>1 DEF IsCellOf, OwnPoint, Jobs
  <2>7. ~Skipped(E, c.variant, c.structure, a)
    <3>1. <<c.variant, c.structure>> \in ReachesCap => TrialsFor(c) = CappedTrials
      BY DEF CapsRegistered, TrialsFor
    <3>2. c.trial < M
      BY <1>3, <2>4
    <3> QED BY <1>2, <2>4, <2>5, <3>1, <3>2, SkippedByAll
  <2>8. RowOf(c) = [workload |-> w.id, n |-> c.n, variant |-> c.variant,
                    structure |-> c.structure,
                    k |-> JobInterval(w, c.n, c.variant, c.structure),
                    seed |-> Seed(E, a), trial |-> a - Warmup]
    <3>1. Seed(E, a) = BaseSeed + Warmup + c.trial
      <4>1. Seed(E, a) = BaseSeed + a
        <5> HIDE DEF E
        <5> QED BY <1>1 DEF Seed
      <4> QED BY <1>2, <2>4, <2>5, <4>1
    <3> QED BY <2>2, <2>5, <3>1 DEF RowOf, RowAt
  <2>9. RowOf(c) \in RowGroup(E, w, c.n, a, c.variant)
    <3> HIDE DEF E
    <3> QED BY <1>1, <2>5, <2>6, <2>7, <2>8 DEF RowGroup
  <2>10. RowOf(c) \in Rows(E)
    <3>1. PICK p : p = <<c.n, c.variant>>
      OBVIOUS
    <3>2. p \in Points(E, w) /\ RowOf(c) \in RowGroup(E, w, p[1], a, p[2])
      BY <2>3, <2>9, <3>1
    <3> HIDE DEF E
    <3> QED BY <2>3, <3>2 DEF Rows
  <2>11. RowOf(c).trial = c.trial /\ TrialsFor(RowOf(c)) = TrialsFor(c)
    BY <2>4 DEF RowOf, RowAt, TrialsFor
  <2> QED BY <2>4, <2>10, <2>11 DEF RecordedByAll
<1> QED BY <1>5, <1>6

-----------------------------------------------------------------------------
(***************************************************************************)
(* What the files of a campaign hold.  No runs file holds a row but that   *)
(* of its cell; and as long as nothing disturbs the phase, every cell it   *)
(* has gone past has its row.                                              *)
(***************************************************************************)
Finished(c) == HasContent(c) /\ ~(pc \in {"run", "process"} /\ c = cell)

Undisturbed ==
  /\ schedule \in {NoSchedule, Whole(Schedule)} \/ pc = "schedule"
  /\ pc \in {"verify", "loop", "run", "process"} => schedule = Whole(Schedule)
  /\ digest \in {NoSchedule, Whole(Schedule)}
  /\ \A c \in DOMAIN runs : Finished(c) => Measured(c) = {RowOf(c)}
  /\ pc = "process" /\ Warmup + cell.trial \notin attempts => Measured(cell) = {RowOf(cell)}
  /\ pc \in {"loop", "run", "process"} =>
       /\ next \in Nat \ {0}
       /\ \A i \in DOMAIN Schedule : i < next => Finished(Schedule[i])
  /\ complete => \A c \in Cells(Schedule) : Finished(c)

OwnRowsOnly == \A c \in DOMAIN runs : Measured(c) \subseteq {RowOf(c)}

RowsInv ==
  /\ ProcessInv /\ crashes \in Nat
  /\ OwnRowsOnly
  /\ crashes = 0 /\ ~replaced => Undisturbed

(* A row is no header. *)
LEMMA RowIsNoHeader == \A c : RowOf(c) # Header
<1> SUFFICES ASSUME NEW c, RowOf(c) = Header PROVE FALSE
  OBVIOUS
<1>1. "workload" \in DOMAIN RowOf(c)
  BY DEF RowOf, RowAt
<1>2. "workload" \notin DOMAIN Header
  BY DEF Header
<1> QED BY <1>1, <1>2

LEMMA InitRows == Init => RowsInv
<1> SUFFICES ASSUME Init PROVE RowsInv
  OBVIOUS
<1>1. ProcessInv /\ crashes \in Nat /\ DOMAIN runs = {}
  BY InitProcess DEF Init
<1>2. Undisturbed
  BY <1>1 DEF Init, Undisturbed
<1> QED BY <1>1, <1>2 DEF RowsInv, OwnRowsOnly

(* The steps that leave the runs files alone, and the runner's cell if any. *)
LEMMA RunnerRows ==
  ASSUME RowsInv, ProcessInv', Start \/ WriteSchedule \/ VerifySchedule
  PROVE  RowsInv'
<1>1. /\ UNCHANGED <<runs, complete, crashes, replaced>>
      /\ pc' \in {"schedule", "verify", "loop", "down"}
      /\ pc \in {"down", "schedule", "verify"}
  BY DEF Start, WriteSchedule, VerifySchedule, HashOrVerifyArtifact, faults
<1>2. OwnRowsOnly'
  BY <1>1 DEF RowsInv, OwnRowsOnly, Measured
<1>3. ASSUME crashes = 0 /\ ~replaced PROVE Undisturbed'
  <2>1. Undisturbed
    BY <1>3 DEF RowsInv
  <2>2. \A c : Finished(c)' <=> Finished(c)
    BY <1>1 DEF Finished, HasContent
  <2>3. \A c \in DOMAIN runs' : Finished(c)' => Measured(c)' = {RowOf(c)}
    BY <1>1, <2>1, <2>2 DEF Undisturbed, Measured
  <2>4. complete' => \A c \in Cells(Schedule) : Finished(c)'
    BY <1>1, <2>1, <2>2 DEF Undisturbed
  <2>5. /\ schedule' \in {NoSchedule, Whole(Schedule)} \/ pc' = "schedule"
        /\ pc' \in {"verify", "loop", "run", "process"} => schedule' = Whole(Schedule)
        /\ digest' \in {NoSchedule, Whole(Schedule)}
    <3>1. CASE Start
      BY <2>1, <3>1 DEF Undisturbed, Start, NoSchedule
    <3>2. CASE WriteSchedule
      BY <2>1, <3>2 DEF Undisturbed, WriteSchedule
    <3>3. CASE VerifySchedule
      BY <2>1, <3>3 DEF Undisturbed, VerifySchedule, HashOrVerifyArtifact
    <3> QED BY <3>1, <3>2, <3>3
  <2>6. pc' = "loop" => next' = 1
    BY <1>1 DEF Start, WriteSchedule, VerifySchedule
  <2>7. DOMAIN Schedule = 1 .. Len(Schedule) /\ Len(Schedule) \in Nat
    BY ScheduleLines
  <2>8. pc' \in {"loop", "run", "process"} =>
          /\ next' \in Nat \ {0}
          /\ \A i \in DOMAIN Schedule : i < next' => Finished(Schedule[i])'
    BY <1>1, <2>6, <2>7
  <2> QED BY <1>1, <2>3, <2>4, <2>5, <2>8 DEF Undisturbed
<1> QED BY <1>1, <1>2, <1>3 DEF RowsInv

(* The cell the loop is at is that of the schedule's line. *)
LEMMA CellOfSchedule ==
  ASSUME Undisturbed, pc \in {"loop", "run", "process"}, next \in DOMAIN schedule.lines
  PROVE  /\ schedule = Whole(Schedule) /\ next \in DOMAIN Schedule /\ cell = Schedule[next]
         /\ cell \in Cells(Schedule)
<1>1. schedule = Whole(Schedule) /\ schedule.lines = Schedule
  BY DEF Undisturbed, Whole
<1> QED BY <1>1 DEF cell, Cells

LEMMA LoopRows ==
  ASSUME RowsInv, ProcessInv', ReuseCell \/ AuditAndMarkPhase
  PROVE  RowsInv'
<1>1. /\ UNCHANGED <<schedule, digest, runs, crashes, replaced>>
      /\ pc = "loop" /\ pc' \in {"loop", "down"}
  BY DEF ReuseCell, AuditAndMarkPhase, files, faults
<1>2. OwnRowsOnly'
  BY <1>1 DEF RowsInv, OwnRowsOnly, Measured
<1>3. ASSUME crashes = 0 /\ ~replaced PROVE Undisturbed'
  <2>1. Undisturbed
    BY <1>3 DEF RowsInv
  <2>2. \A c : Finished(c)' <=> Finished(c)
    BY <1>1 DEF Finished, HasContent
  <2>3. \A c \in DOMAIN runs' : Finished(c)' => Measured(c)' = {RowOf(c)}
    BY <1>1, <2>1, <2>2 DEF Undisturbed, Measured
  <2>4. schedule = Whole(Schedule) /\ next \in Nat \ {0}
        /\ \A i \in DOMAIN Schedule : i < next => Finished(Schedule[i])
    BY <1>1, <2>1 DEF Undisturbed
  <2>5. DOMAIN Schedule = 1 .. Len(Schedule) /\ Len(Schedule) \in Nat
    BY ScheduleLines
  <2>6. CASE ReuseCell
    <3>1. next \in DOMAIN Schedule /\ cell = Schedule[next] /\ Finished(cell)
      BY <1>1, <2>1, <2>6, CellOfSchedule DEF ReuseCell, Finished
    <3>2. next' = next + 1 /\ complete' = complete
      BY <2>6 DEF ReuseCell, files
    <3>3. \A i \in DOMAIN Schedule : i < next' => Finished(Schedule[i])'
      <4>1. \A i \in DOMAIN Schedule : i < next' => i < next \/ i = next
        BY <2>4, <2>5, <3>2
      <4> QED BY <2>2, <2>4, <3>1, <4>1
    <3>4. complete' => \A c \in Cells(Schedule) : Finished(c)'
      BY <2>1, <2>2, <3>2 DEF Undisturbed
    <3> QED BY <1>1, <2>1, <2>3, <2>4, <3>2, <3>3, <3>4 DEF Undisturbed
  <2>7. CASE AuditAndMarkPhase
    <3>1. next \notin DOMAIN Schedule /\ pc' = "down"
      BY <2>4, <2>7 DEF AuditAndMarkPhase, Whole
    <3>2. \A i \in DOMAIN Schedule : i < next
      BY <2>4, <2>5, <3>1
    <3>3. \A c \in Cells(Schedule) : Finished(c)'
      BY <2>2, <2>4, <3>2 DEF Cells
    <3> QED BY <1>1, <2>1, <2>3, <2>4, <3>1, <3>3 DEF Undisturbed
  <2> QED BY <2>6, <2>7
<1> QED BY <1>1, <1>2, <1>3 DEF RowsInv

LEMMA FaultRows ==
  ASSUME RowsInv, ProcessInv', Kill \/ PowerLoss \/ ReplaceSchedule
  PROVE  RowsInv'
<1>1. crashes \in Nat /\ OwnRowsOnly
  BY DEF RowsInv
<1>2. /\ crashes' \in Nat
      /\ ~(crashes' = 0 /\ ~replaced')
  BY <1>1 DEF Kill, PowerLoss, Crash, ReplaceSchedule
<1>3. /\ DOMAIN runs' = DOMAIN runs
      /\ \A c \in DOMAIN runs : runs'[c] \in {runs[c], {}}
  BY DEF Kill, PowerLoss, ReplaceSchedule
<1>4. OwnRowsOnly'
  BY <1>1, <1>3 DEF OwnRowsOnly, Measured
<1> QED BY <1>2, <1>4 DEF RowsInv

-----------------------------------------------------------------------------
(* The steps that change the files of the runner's cell, and of no other. *)
LEMMA ClearCellStep ==
  ASSUME RowsInv, ProcessInv', ClearCell
  PROVE  RowsInv'
<1>1. /\ UNCHANGED <<schedule, digest, complete, next, crashes, replaced>>
      /\ pc = "loop" /\ pc' = "run" /\ next \in DOMAIN schedule.lines
      /\ ~HasContent(cell) /\ cell' = cell
  BY DEF ClearCell, faults, cell
<1>2. /\ DOMAIN runs' = DOMAIN runs \ {cell}
      /\ \A c \in DOMAIN runs' : runs'[c] = runs[c]
  BY DEF ClearCell, RemoveFiles, Restrict
<1>3. OwnRowsOnly'
  BY <1>2 DEF RowsInv, OwnRowsOnly, Measured
<1>4. ASSUME crashes = 0 /\ ~replaced PROVE Undisturbed'
  <2>1. Undisturbed
    BY <1>4 DEF RowsInv
  <2>2. \A c : Finished(c)' <=> Finished(c)
    <3> SUFFICES ASSUME NEW c PROVE Finished(c)' <=> Finished(c)
      OBVIOUS
    <3>1. c # cell => (HasContent(c)' <=> HasContent(c))
      BY <1>2 DEF HasContent
    <3>2. c = cell => ~HasContent(c) /\ ~HasContent(c)'
      BY <1>1, <1>2 DEF HasContent
    <3> QED BY <1>1, <3>1, <3>2 DEF Finished
  <2>3. \A c \in DOMAIN runs' : Finished(c)' => Measured(c)' = {RowOf(c)}
    BY <1>2, <2>1, <2>2 DEF Undisturbed, Measured
  <2>4. /\ next' \in Nat \ {0}
        /\ \A i \in DOMAIN Schedule : i < next' => Finished(Schedule[i])'
    BY <1>1, <2>1, <2>2 DEF Undisturbed
  <2>5. complete' => \A c \in Cells(Schedule) : Finished(c)'
    BY <1>1, <2>1, <2>2 DEF Undisturbed
  <2> QED BY <1>1, <2>1, <2>3, <2>4, <2>5 DEF Undisturbed
<1> QED BY <1>1, <1>3, <1>4 DEF RowsInv

LEMMA StartProcessStep ==
  ASSUME RowsInv, ProcessInv', StartProcess
  PROVE  RowsInv'
<1>1. /\ UNCHANGED <<schedule, digest, complete, next, crashes, replaced>>
      /\ pc = "run" /\ cell' = cell /\ cell \notin DOMAIN runs
  BY DEF RowsInv, ProcessInv, StartProcess, faults, cell
<1>2. \/ pc' = "down" /\ runs' = runs
      \/ /\ pc' = "process" /\ attempts' = Attempts(ProcessOptions(cell))
         /\ DOMAIN runs' = DOMAIN runs \cup {cell} /\ runs'[cell] = {}
         /\ \A c \in DOMAIN runs : runs'[c] = runs[c]
  BY <1>1 DEF StartProcess, Created
<1>3. OwnRowsOnly'
  BY <1>2 DEF RowsInv, OwnRowsOnly, Measured
<1>4. ASSUME crashes = 0 /\ ~replaced PROVE Undisturbed'
  <2>1. Undisturbed
    BY <1>4 DEF RowsInv
  <2>2. \A c : Finished(c)' <=> Finished(c)
    <3> SUFFICES ASSUME NEW c PROVE Finished(c)' <=> Finished(c)
      OBVIOUS
    <3>1. HasContent(c)' <=> HasContent(c)
      BY <1>1, <1>2 DEF HasContent
    <3>2. c = cell => ~HasContent(c)
      BY <1>1 DEF HasContent
    <3> QED BY <1>1, <3>1, <3>2 DEF Finished
  <2>3. \A c \in DOMAIN runs' : Finished(c)' => Measured(c)' = {RowOf(c)}
    <3> SUFFICES ASSUME NEW c \in DOMAIN runs', Finished(c)' PROVE Measured(c)' = {RowOf(c)}
      OBVIOUS
    <3>1. Finished(c) /\ c \in DOMAIN runs
      BY <2>2 DEF Finished, HasContent
    <3> QED BY <1>2, <2>1, <3>1 DEF Undisturbed, Measured
  <2>4. pc' = "process" => Warmup + cell.trial \in attempts'
    <3>1. cell.trial \in Nat /\ cell.trial < TrialsFor(cell)
      BY <1>1, AtPlannedCell DEF RowsInv
    <3>2. Warmup + cell.trial \in Attempts(ProcessOptions(cell))
      BY <3>1, ProcessAttempts
    <3> QED BY <1>2, <3>2
  <2>5. /\ next' \in Nat \ {0}
        /\ \A i \in DOMAIN Schedule : i < next' => Finished(Schedule[i])'
    BY <1>1, <2>1, <2>2 DEF Undisturbed
  <2>6. complete' => \A c \in Cells(Schedule) : Finished(c)'
    BY <1>1, <2>1, <2>2 DEF Undisturbed
  <2>7. pc' \in {"down", "process"} /\ schedule' = Whole(Schedule)
        /\ digest' \in {NoSchedule, Whole(Schedule)}
    BY <1>1, <1>2, <2>1 DEF Undisturbed
  <2> QED BY <1>1, <2>3, <2>4, <2>5, <2>6, <2>7 DEF Undisturbed
<1> QED BY <1>1, <1>3, <1>4 DEF RowsInv

(* What an attempt leaves in the runs file of the cell. *)
LEMMA FlushedRows ==
  ASSUME ProcessInv, pc = "process", attempts # {}
  PROVE  /\ Min(attempts) \in attempts
         /\ Flushed(cell, Min(attempts)) = runs[cell] \cup {Header} \cup
              (IF Min(attempts) = Warmup + cell.trial THEN {RowOf(cell)} ELSE {})
<1>1. cell \in PlannedCell /\ cell.trial \in Nat
  BY AtPlannedCell
<1>2. attempts \subseteq Attempts(ProcessOptions(cell))
  BY DEF ProcessInv
<1>3. Min(attempts) \in attempts
  <2>1. attempts \in SUBSET Nat
    BY <1>1, <1>2, ProcessAttempts
  <2> QED BY <2>1, MinFacts
<1>4. PICK of : cell \in Planned(of)
  BY <1>1 DEF PlannedCell
<1>5. Min(attempts) \in Attempts(ProcessOptions(cell))
  BY <1>2, <1>3
<1> QED BY <1>3, <1>4, <1>5, ProcessRows DEF Flushed

LEMMA RunAttemptStep ==
  ASSUME RowsInv, ProcessInv', RunAttempt
  PROVE  RowsInv'
<1> DEFINE a == Min(attempts)
<1>1. /\ UNCHANGED <<schedule, digest, complete, next, crashes, replaced, pc>>
      /\ pc = "process" /\ cell' = cell /\ cell \in DOMAIN runs /\ attempts # {}
  BY DEF RowsInv, ProcessInv, RunAttempt, faults, cell
<1>2. /\ DOMAIN runs' = DOMAIN runs
      /\ runs'[cell] = runs[cell] \cup {Header} \cup
           (IF a = Warmup + cell.trial THEN {RowOf(cell)} ELSE {})
      /\ \A c \in DOMAIN runs : c # cell => runs'[c] = runs[c]
  BY <1>1, FlushedRows DEF RowsInv, RunAttempt
<1>3. attempts' = attempts \ {a}
  BY DEF RunAttempt
<1> HIDE DEF a
<1>4. OwnRowsOnly'
  <2> SUFFICES ASSUME NEW c \in DOMAIN runs' PROVE Measured(c)' \subseteq {RowOf(c)}
    BY DEF OwnRowsOnly
  <2>1. Measured(c) \subseteq {RowOf(c)}
    BY <1>2 DEF RowsInv, OwnRowsOnly
  <2>2. CASE c = cell
    BY <1>2, <2>1, <2>2 DEF Measured
  <2>3. CASE c # cell
    BY <1>2, <2>1, <2>3 DEF Measured
  <2> QED BY <2>2, <2>3
<1>5. ASSUME crashes = 0 /\ ~replaced PROVE Undisturbed'
  <2>1. Undisturbed
    BY <1>5 DEF RowsInv
  <2>2. \A c : Finished(c)' <=> Finished(c)
    <3> SUFFICES ASSUME NEW c PROVE Finished(c)' <=> Finished(c)
      OBVIOUS
    <3>1. c # cell => (HasContent(c)' <=> HasContent(c))
      BY <1>2 DEF HasContent
    <3> QED BY <1>1, <3>1 DEF Finished
  <2>3. \A c \in DOMAIN runs' : Finished(c)' => Measured(c)' = {RowOf(c)}
    <3> SUFFICES ASSUME NEW c \in DOMAIN runs', Finished(c)' PROVE Measured(c)' = {RowOf(c)}
      OBVIOUS
    <3>1. c # cell /\ c \in DOMAIN runs /\ Finished(c)
      BY <1>1, <1>2, <2>2 DEF Finished
    <3> QED BY <1>2, <2>1, <3>1 DEF Undisturbed, Measured
  <2>4. Warmup + cell.trial \notin attempts' => Measured(cell)' = {RowOf(cell)}
    <3> SUFFICES ASSUME Warmup + cell.trial \notin attempts'
                 PROVE  Measured(cell)' = {RowOf(cell)}
      OBVIOUS
    <3>1. Warmup + cell.trial \in attempts
      <4>1. Measured(cell) # {} => attempts = {}
        BY <1>1 DEF RowsInv, ProcessInv
      <4> QED BY <1>1, <2>1, <4>1 DEF Undisturbed
    <3>2. a = Warmup + cell.trial
      BY <1>3, <3>1
    <3>3. RowOf(cell) \in runs'[cell] \ {Header}
      BY <1>2, <3>2, RowIsNoHeader
    <3>4. Measured(cell)' = runs'[cell] \ {Header}
      BY <1>1 DEF Measured
    <3>5. runs'[cell] \ {Header} \subseteq {RowOf(cell)}
      BY <1>1, <1>2, <1>4 DEF OwnRowsOnly, Measured
    <3> QED BY <3>3, <3>4, <3>5
  <2>5. /\ next' \in Nat \ {0}
        /\ \A i \in DOMAIN Schedule : i < next' => Finished(Schedule[i])'
    BY <1>1, <2>1, <2>2 DEF Undisturbed
  <2>6. complete' => \A c \in Cells(Schedule) : Finished(c)'
    BY <1>1, <2>1, <2>2 DEF Undisturbed
  <2>7. schedule' = Whole(Schedule) /\ digest' \in {NoSchedule, Whole(Schedule)}
    BY <1>1, <2>1 DEF Undisturbed
  <2> QED BY <1>1, <2>3, <2>4, <2>5, <2>6, <2>7 DEF Undisturbed
<1> QED BY <1>1, <1>4, <1>5 DEF RowsInv

LEMMA ExitProcessStep ==
  ASSUME RowsInv, ProcessInv', ExitProcess
  PROVE  RowsInv'
<1>1. /\ UNCHANGED <<schedule, digest, complete, crashes, replaced>>
      /\ pc = "process" /\ pc' = "loop" /\ next' = next + 1 /\ attempts = {}
      /\ cell \in DOMAIN runs /\ next \in DOMAIN schedule.lines
  BY DEF RowsInv, ProcessInv, OneScheduleInv, ExitProcess, faults
<1>2. /\ DOMAIN runs' = DOMAIN runs
      /\ runs'[cell] = runs[cell] \cup {Header}
      /\ \A c \in DOMAIN runs : c # cell => runs'[c] = runs[c]
  BY <1>1 DEF ExitProcess
<1>3. \A c \in DOMAIN runs : runs'[c] \ {Header} = Measured(c)
  BY <1>2 DEF Measured
<1>4. OwnRowsOnly'
  BY <1>2, <1>3 DEF RowsInv, OwnRowsOnly, Measured
<1>5. ASSUME crashes = 0 /\ ~replaced PROVE Undisturbed'
  <2>1. Undisturbed
    BY <1>5 DEF RowsInv
  <2>2. Measured(cell) = {RowOf(cell)}
    BY <1>1, <2>1 DEF Undisturbed
  <2>3. \A c : Finished(c)' <=> Finished(c) \/ c = cell
    <3> SUFFICES ASSUME NEW c PROVE Finished(c)' <=> Finished(c) \/ c = cell
      OBVIOUS
    <3>1. c # cell => (HasContent(c)' <=> HasContent(c))
      BY <1>2 DEF HasContent
    <3>2. c = cell => HasContent(c)'
      BY <1>1, <1>2 DEF HasContent
    <3> QED BY <1>1, <3>1, <3>2 DEF Finished
  <2>4. \A c \in DOMAIN runs' : Finished(c)' => Measured(c)' = {RowOf(c)}
    <3> SUFFICES ASSUME NEW c \in DOMAIN runs', Finished(c)' PROVE Measured(c)' = {RowOf(c)}
      OBVIOUS
    <3>1. Measured(c) = {RowOf(c)}
      BY <1>2, <2>1, <2>2, <2>3 DEF Undisturbed
    <3> QED BY <1>2, <1>3, <3>1 DEF Measured
  <2>5. schedule = Whole(Schedule) /\ next \in DOMAIN Schedule /\ cell = Schedule[next]
        /\ next \in Nat \ {0} /\ \A i \in DOMAIN Schedule : i < next => Finished(Schedule[i])
    BY <1>1, <2>1, CellOfSchedule DEF Undisturbed
  <2>6. \A i \in DOMAIN Schedule : i < next' => Finished(Schedule[i])'
    <3>1. DOMAIN Schedule = 1 .. Len(Schedule) /\ Len(Schedule) \in Nat
      BY ScheduleLines
    <3>2. \A i \in DOMAIN Schedule : i < next' => i < next \/ i = next
      BY <1>1, <2>5, <3>1
    <3> QED BY <2>3, <2>5, <3>2
  <2>7. complete' => \A c \in Cells(Schedule) : Finished(c)'
    BY <1>1, <2>1, <2>3 DEF Undisturbed
  <2>8. next' \in Nat \ {0} /\ digest' \in {NoSchedule, Whole(Schedule)}
    BY <1>1, <2>1, <2>5 DEF Undisturbed
  <2> QED BY <1>1, <2>4, <2>5, <2>6, <2>7, <2>8 DEF Undisturbed
<1> QED BY <1>1, <1>4, <1>5 DEF RowsInv

LEMMA NextRows ==
  ASSUME RowsInv, [Next]_vars
  PROVE  RowsInv'
<1>1. ProcessInv'
  BY NextProcess DEF RowsInv
<1>2. CASE UNCHANGED vars
  BY <1>1, <1>2 DEF vars, RowsInv, OwnRowsOnly, Undisturbed, Measured, Finished, HasContent, cell
<1>3. CASE Next
  BY <1>1, <1>3, RunnerRows, LoopRows, ClearCellStep, StartProcessStep, RunAttemptStep,
     ExitProcessStep, FaultRows DEF Next, Run
<1> QED BY <1>2, <1>3

LEMMA RowsInvariant == Spec => []RowsInv
<1>1. Init => RowsInv
  BY InitRows
<1>2. RowsInv /\ [Next]_vars => RowsInv'
  BY NextRows
<1> QED BY <1>1, <1>2, PTL DEF Spec

-----------------------------------------------------------------------------
(* The cells planned for two lists of structures are those planned for both. *)
LEMMA PlannedTogether ==
  ASSUME NEW c
  PROVE  /\ c \in PlannedCell <=> c \in Planned(ScheduledStructures \cup OtherStructures)
         /\ c \in Planned(ScheduledStructures) <=>
              /\ c \in Planned(ScheduledStructures \cup OtherStructures)
              /\ c.structure \in ScheduledStructures
BY PlannedMembers DEF IsCellOf, PlannedCell

(* What an undisturbed phase that is complete has recorded. *)
LEMMA CompleteRows ==
  ASSUME RowsInv, complete, crashes = 0, ~replaced
  PROVE  Recorded = {RowOf(c) : c \in Planned(ScheduledStructures)}
<1>1. Cells(Schedule) = Planned(ScheduledStructures)
  BY StructuresAssumption, ScheduleCells DEF Schedule
<1>2. Undisturbed /\ DOMAIN runs \subseteq Cells(digest.lines)
  BY DEF RowsInv, ProcessInv, OneScheduleInv, OneScheduleOnly
<1>3. Cells(digest.lines) \subseteq Cells(Schedule)
  BY <1>2, ScheduleLines DEF Undisturbed, NoSchedule, Whole
<1>4. \A c \in Cells(Schedule) : c \in DOMAIN runs /\ Finished(c)
  BY <1>2 DEF Undisturbed, Finished, HasContent
<1>5. DOMAIN runs = Planned(ScheduledStructures)
  BY <1>1, <1>2, <1>3, <1>4
<1>6. \A c \in DOMAIN runs : Measured(c) = {RowOf(c)}
  BY <1>1, <1>2, <1>4, <1>5 DEF Undisturbed
<1> QED BY <1>5, <1>6 DEF Recorded

LEMMA RawRows ==
  ASSUME RowsInv, CapsRegistered
  PROVE  RawMatchesMonolithic
<1> DEFINE S == ScheduledStructures
           B == ScheduledStructures \cup OtherStructures
<1>1. Monolithic = {RowOf(c) : c \in Planned(B)}
  <2>1. Monolithic = RecordedByAll(B)
    BY DEF Monolithic, RecordedByAll
  <2> QED BY <2>1, RowsOfAll
<1>2. Recorded \subseteq Monolithic
  <2> SUFFICES ASSUME NEW row \in Recorded PROVE row \in Monolithic
    OBVIOUS
  <2>1. PICK c \in DOMAIN runs : row \in Measured(c)
    BY DEF Recorded
  <2>2. row = RowOf(c)
    BY <2>1 DEF RowsInv, OwnRowsOnly
  <2>3. c \in PlannedCell
    BY DEF RowsInv, ProcessInv, OneScheduleInv, OneScheduleOnly
  <2>4. c \in Planned(B)
    BY <2>3, PlannedTogether
  <2> QED BY <1>1, <2>2, <2>4
<1>3. {row \in Monolithic : row.structure \in S} = {RowOf(c) : c \in Planned(S)}
  <2>1. \A c : RowOf(c).structure = c.structure
    BY DEF RowOf, RowAt
  <2>2. \A c : c \in Planned(S) <=> c \in Planned(B) /\ c.structure \in S
    BY PlannedTogether
  <2> HIDE DEF S, B
  <2> QED BY <1>1, <2>1, <2>2
<1>4. complete /\ crashes = 0 /\ ~replaced => Recorded = {RowOf(c) : c \in Planned(S)}
  BY CompleteRows
<1> QED BY <1>2, <1>3, <1>4 DEF RawMatchesMonolithic

(***************************************************************************)
(* The processes of a campaign record together what one invocation would,  *)
(* and a phase that nothing disturbs records all of it (run of             *)
(* bench_main.cpp and run_schedule of run_confirmatory.sh), whenever each  *)
(* cell that meets the memory cap is registered as capped.                 *)
(***************************************************************************)
THEOREM RawRowsMatch ==
  ASSUME CapsRegistered
  PROVE  Spec => []RawMatchesMonolithic
<1>1. RowsInv => RawMatchesMonolithic
  BY RawRows
<1> QED BY <1>1, RowsInvariant, PTL

=============================================================================
