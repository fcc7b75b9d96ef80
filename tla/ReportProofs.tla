---------------------------- MODULE ReportProofs ----------------------------
(***************************************************************************)
(* Proofs about Report, for every set of accounts, keys and contents, any  *)
(* records of a simulation and any list of overrides: typing, that the     *)
(* report is a function of the records, and that the overrides are shown   *)
(* as they were given.                                                     *)
(***************************************************************************)
EXTENDS Report, FiniteSetTheorems, WellFoundedInduction, TLAPS

-----------------------------------------------------------------------------
\* Sets of numbers and their ascending enumerations.

\* Every set of numbers has a least one.
LEMMA LeastNumber ==
    ASSUME NEW S \in SUBSET Nat, S # {}
    PROVE  \E m \in S : \A n \in S : m <= n
<1> DEFINE R == {p \in Nat \X Nat : p[1] < p[2]}
<1>1. IsWellFoundedOn(R, Nat)
  BY NatLessThanWellFounded DEF OpToRel
<1>2. \E m \in S : \A n \in S : <<n, m>> \notin R
  <2> HIDE DEF R
  <2> QED
    BY <1>1, WFMin
<1>3. PICK m \in S : \A n \in S : <<n, m>> \notin R
  BY <1>2
<1>4. \A n \in S : n \in Nat /\ m \in Nat /\ ~(n < m)
  BY <1>3
<1>5. \A n \in S : m <= n
  BY <1>4
<1> QED
  BY <1>5

\* The sequence t goes through the set S upwards.
Ascends(t, S) ==
    /\ t \in Seq(Nat)
    /\ \A i, j \in 1..Len(t) : i < j => t[i] < t[j]
    /\ \A i \in 1..Len(t) : t[i] \in S
    /\ \A x \in S : \E i \in 1..Len(t) : t[i] = x

\* There is only one way to go through a set upwards.
LEMMA AscendsOnce ==
    ASSUME NEW S, NEW s, NEW t, Ascends(s, S), Ascends(t, S)
    PROVE  s = t
<1>1. /\ s \in Seq(Nat) /\ t \in Seq(Nat)
      /\ Len(s) \in Nat /\ Len(t) \in Nat
      /\ (\A i \in 1..Len(s) : s[i] \in Nat)
      /\ \A i \in 1..Len(t) : t[i] \in Nat
  BY DEF Ascends
<1> DEFINE D == {i \in 1..Len(s) : i > Len(t) \/ s[i] # t[i]}
<1>2. CASE D = {}
  <2>1. \A i \in 1..Len(s) : i <= Len(t) /\ s[i] = t[i]
    BY <1>1, <1>2
  <2>2. Len(s) <= Len(t)
    BY <1>1, <2>1
  <2>3. CASE Len(s) < Len(t)
    <3>1. PICK k \in 1..Len(t) : k = Len(s) + 1
      BY <1>1, <2>3
    <3>2. t[k] \in S
      BY DEF Ascends
    <3>3. PICK j \in 1..Len(s) : s[j] = t[k]
      BY <3>2 DEF Ascends
    <3>4. j \in 1..Len(t) /\ j < k /\ t[j] = t[k]
      BY <1>1, <2>1, <3>1, <3>3
    <3>5. t[j] < t[k]
      BY <3>4 DEF Ascends
    <3> QED
      BY <1>1, <3>4, <3>5
  <2>4. CASE Len(s) = Len(t)
    BY <1>1, <2>1, <2>4
  <2> QED
    BY <1>1, <2>2, <2>3, <2>4
<1>3. CASE D # {}
  <2>1. D \in SUBSET Nat
    OBVIOUS
  <2>2. PICK m \in D : \A n \in D : m <= n
    <3> HIDE DEF D
    <3> QED
      BY <1>3, <2>1, LeastNumber
  <2>3. m \in 1..Len(s) /\ (m > Len(t) \/ s[m] # t[m])
    OBVIOUS
  <2>4. ASSUME NEW i \in 1..Len(s), i < m PROVE i \in 1..Len(t) /\ s[i] = t[i]
    <3>1. i \notin D
      <4> HIDE DEF D
      <4>1. i \in D => m <= i
        BY <2>2
      <4> QED
        BY <1>1, <2>3, <2>4, <4>1
    <3> QED
      BY <1>1, <3>1
  <2>5. PICK j \in 1..Len(t) : t[j] = s[m]
    BY <2>3 DEF Ascends
  <2>6. j >= m
    <3>1. SUFFICES ASSUME j < m PROVE FALSE
      BY <1>1, <2>3
    <3>2. j \in 1..Len(s)
      BY <1>1, <2>3, <3>1
    <3>3. s[j] = t[j] /\ s[j] < s[m]
      BY <2>3, <2>4, <3>1, <3>2 DEF Ascends
    <3> QED
      BY <1>1, <2>3, <2>5, <3>2, <3>3
  <2>7. m \in 1..Len(t) /\ s[m] # t[m]
    BY <1>1, <2>3, <2>6
  <2>8. j # m
    BY <2>5, <2>7
  <2>9. t[m] < s[m]
    BY <1>1, <2>5, <2>6, <2>7, <2>8 DEF Ascends
  <2>10. PICK k \in 1..Len(s) : s[k] = t[m]
    BY <2>7 DEF Ascends
  <2>11. CASE k < m
    <3>1. k \in 1..Len(t) /\ s[k] = t[k]
      BY <2>4, <2>11
    <3>2. t[k] < t[m]
      BY <2>7, <2>11, <3>1 DEF Ascends
    <3> QED
      BY <1>1, <2>7, <2>10, <3>1, <3>2
  <2>12. CASE k = m
    BY <1>1, <2>3, <2>9, <2>10, <2>12
  <2>13. CASE k > m
    <3>1. s[m] < s[k]
      BY <2>3, <2>13 DEF Ascends
    <3> QED
      BY <1>1, <2>3, <2>9, <2>10, <3>1
  <2> QED
    BY <1>1, <2>3, <2>11, <2>12, <2>13
<1> QED
  BY <1>2, <1>3

\* A finite set, and only a finite set, is one that a sequence goes through.
LEMMA Counted ==
    ASSUME NEW S, NEW n \in Nat, NEW f \in [1..n -> S],
           \A i, j \in 1..n : i # j => f[i] # f[j],
           \A x \in S : \E i \in 1..n : f[i] = x
    PROVE  IsFiniteSet(S) /\ Cardinality(S) = n
<1>1. f \in Bijection(1..n, S)
  BY DEF Bijection, Injection, Surjection, IsInjective
<1>2. ExistsBijection(1..n, S)
  BY <1>1 DEF ExistsBijection
<1>3. IsFiniteSet(S)
  BY <1>2, FS_NatBijection
<1> QED
  BY <1>2, <1>3, FS_CountingElements

\* A sequence of the elements of a finite set leaves none out.
LEMMA SeqsFacts ==
    ASSUME NEW S, IsFiniteSet(S), NEW t \in SetToSeqs(S)
    PROVE  /\ t \in Seq(S) /\ Len(t) = Cardinality(S)
           /\ \A i, j \in 1..Len(t) : i # j => t[i] # t[j]
           /\ \A x \in S : \E i \in 1..Len(t) : t[i] = x
<1>1. PICK n \in Nat : n = Cardinality(S)
  BY FS_CardinalityType
<1>2. t \in [1..n -> S] /\ \A i, j \in 1..n : i # j => t[i] # t[j]
  BY <1>1 DEF SetToSeqs
<1>3. t \in Seq(S) /\ Len(t) = n
  BY <1>2
<1>4. t \in Injection(1..n, S)
  BY <1>2 DEF Injection, IsInjective
<1>5. Cardinality(1..n) = n
  BY FS_Interval
<1>6. t \in Surjection(1..n, S)
  BY <1>1, <1>4, <1>5, FS_Injection
<1> QED
  BY <1>1, <1>2, <1>3, <1>6 DEF Surjection

\* What goes through a set upwards is what Ascending returns.
LEMMA AscendingIs ==
    ASSUME NEW S, NEW t, Ascends(t, S)
    PROVE  Ascending(S) = t /\ IsFiniteSet(S)
<1>1. PICK n \in Nat : n = Len(t)
  BY DEF Ascends
<1>2. t \in [1..n -> S] /\ \A i \in 1..n : t[i] \in Nat
  BY <1>1 DEF Ascends
<1>3. \A i, j \in 1..n : i # j => t[i] # t[j]
  <2> SUFFICES ASSUME NEW i \in 1..n, NEW j \in 1..n, i < j PROVE t[i] # t[j]
    OBVIOUS
  <2>1. t[i] < t[j]
    BY <1>1 DEF Ascends
  <2> QED
    BY <1>2, <2>1
<1>4. \A x \in S : \E i \in 1..n : t[i] = x
  BY <1>1 DEF Ascends
<1>5. IsFiniteSet(S) /\ Cardinality(S) = n
  BY <1>2, <1>3, <1>4, Counted
<1>6. t \in SetToSeqs(S)
  BY <1>2, <1>3, <1>5 DEF SetToSeqs
<1>7. DOMAIN t = 1..Len(t)
  BY <1>1, <1>2
<1>8. \A i, j \in DOMAIN t : i < j => t[i] < t[j]
  BY <1>7 DEF Ascends
<1>9. \A x \in S : x \in Nat
  BY <1>2, <1>4
<1>10. PICK u \in SetToSeqs(S) :
          u = Ascending(S) /\ \A i, j \in DOMAIN u : i < j => u[i] < u[j]
  BY <1>6, <1>8 DEF Ascending
<1>11. /\ u \in Seq(S)
       /\ \A x \in S : \E i \in 1..Len(u) : u[i] = x
  BY <1>5, SeqsFacts
<1>12. u \in Seq(Nat) /\ \A i \in 1..Len(u) : u[i] \in S
  BY <1>9, <1>11
<1>13. \A i, j \in 1..Len(u) : i < j => u[i] < u[j]
  BY <1>10, <1>11
<1>14. Ascends(u, S)
  BY <1>11, <1>12, <1>13 DEF Ascends
<1> QED
  BY <1>5, <1>10, <1>14, AscendsOnce

\* Any set of positions can be gone through upwards.
LEMMA PositionsAscend ==
    ASSUME NEW n \in Nat, NEW S \in SUBSET (1..n)
    PROVE  Ascends(Ascending(S), S)
<1> DEFINE Bad == {k \in Nat : \E T \in SUBSET (1..k) : \A t : ~Ascends(t, T)}
<1>1. Bad = {}
  <2> SUFFICES ASSUME Bad # {} PROVE FALSE
    OBVIOUS
  <2>1. PICK m \in Bad : \A k \in Bad : m <= k
    <3>1. Bad \in SUBSET Nat
      OBVIOUS
    <3> HIDE DEF Bad
    <3> QED
      BY <3>1, LeastNumber
  <2>2. m \in Nat
    OBVIOUS
  <2>3. PICK T \in SUBSET (1..m) : \A t : ~Ascends(t, T)
    OBVIOUS
  <2>4. CASE m = 0
    <3>1. T = {}
      BY <2>4
    <3>2. Ascends(<<>>, T)
      BY <3>1 DEF Ascends
    <3> QED
      BY <2>3, <3>2
  <2>5. CASE m # 0
    <3>1. m - 1 \in Nat /\ m - 1 \notin Bad
      <4>1. m - 1 \in Nat /\ ~(m <= m - 1)
        BY <2>2, <2>5
      <4> HIDE DEF Bad
      <4> QED
        BY <2>1, <4>1
    <3>2. T \ {m} \in SUBSET (1..m - 1)
      BY <2>2, <2>5
    <3>3. PICK t : Ascends(t, T \ {m})
      BY <3>1, <3>2
    <3>4. CASE m \notin T
      <4>1. T \ {m} = T
        BY <3>4
      <4> QED
        BY <2>3, <3>3, <4>1
    <3>5. CASE m \in T
      <4>1. /\ t \in Seq(Nat) /\ Len(t) \in Nat
            /\ (\A i \in 1..Len(t) : t[i] \in T /\ t[i] < m /\ t[i] \in Nat)
            /\ (\A i, j \in 1..Len(t) : i < j => t[i] < t[j])
            /\ \A x \in T : x # m => \E i \in 1..Len(t) : t[i] = x
        BY <2>2, <3>2, <3>3 DEF Ascends
      <4>2. PICK u : u = Append(t, m)
        OBVIOUS
      <4>3. /\ u \in Seq(Nat) /\ Len(u) = Len(t) + 1 /\ u[Len(t) + 1] = m
            /\ \A i \in 1..Len(t) : u[i] = t[i]
        BY <2>2, <4>1, <4>2
      <4>4. \A i \in 1..Len(u) : i \in 1..Len(t) \/ i = Len(t) + 1
        BY <4>1, <4>3
      <4>5. \A i, j \in 1..Len(u) : i < j => u[i] < u[j]
        <5> SUFFICES ASSUME NEW i \in 1..Len(u), NEW j \in 1..Len(u), i < j
                     PROVE  u[i] < u[j]
          OBVIOUS
        <5>1. i \in 1..Len(t) /\ u[i] = t[i]
          BY <4>1, <4>3
        <5>2. CASE j \in 1..Len(t)
          BY <4>1, <4>3, <5>1, <5>2
        <5>3. CASE j = Len(t) + 1
          BY <4>1, <4>3, <5>1, <5>3
        <5> QED
          BY <4>4, <5>2, <5>3
      <4>6. \A i \in 1..Len(u) : u[i] \in T
        BY <3>5, <4>1, <4>3, <4>4
      <4>7. \A x \in T : \E i \in 1..Len(u) : u[i] = x
        <5> SUFFICES ASSUME NEW x \in T PROVE \E i \in 1..Len(u) : u[i] = x
          OBVIOUS
        <5>1. CASE x = m
          <6>1. Len(t) + 1 \in 1..Len(u) /\ u[Len(t) + 1] = x
            BY <4>1, <4>3, <5>1
          <6> QED
            BY <6>1
        <5>2. CASE x # m
          <6>1. PICK i \in 1..Len(t) : t[i] = x
            BY <4>1, <5>2
          <6>2. i \in 1..Len(u) /\ u[i] = x
            BY <4>1, <4>3, <6>1
          <6> QED
            BY <6>2
        <5> QED
          BY <5>1, <5>2
      <4>8. Ascends(u, T)
        BY <4>3, <4>5, <4>6, <4>7 DEF Ascends
      <4> QED
        BY <2>3, <4>8
    <3> QED
      BY <3>4, <3>5
  <2> QED
    BY <2>4, <2>5
<1>2. PICK t : Ascends(t, S)
  BY <1>1
<1> QED
  BY <1>2, AscendingIs

-----------------------------------------------------------------------------
\* Sorting.

\* A sequence of elements of a set is one of elements of any larger set.
LEMMA SeqWidens == ASSUME NEW R, NEW T, R \subseteq T, NEW s \in Seq(R) PROVE s \in Seq(T)
OBVIOUS

\* The elements of a sequence.
LEMMA SeqElements == ASSUME NEW S, NEW s \in Seq(S) PROVE \A i \in 1..Len(s) : s[i] \in S
OBVIOUS

\* An arrangement of a sequence has its elements, each as often as the sequence.
LEMMA OrdersFacts ==
    ASSUME NEW S, NEW s \in Seq(S), NEW t \in Orders(s)
    PROVE  /\ t \in Seq(S) /\ Len(t) = Len(s)
           /\ \A i \in 1..Len(t) : \E j \in 1..Len(s) : t[i] = s[j]
           /\ \A j \in 1..Len(s) : \E i \in 1..Len(t) : t[i] = s[j]
           /\ (\A i, j \in 1..Len(s) : i # j => s[i] # s[j]) =>
                  \A i, j \in 1..Len(t) : i # j => t[i] # t[j]
<1>1. PICK n \in Nat : n = Len(s) /\ DOMAIN s = 1..n
  OBVIOUS
<1>2. PICK p \in Bijection(1..n, 1..n) : t = [i \in 1..n |-> s[p[i]]]
  BY <1>1 DEF Orders
<1>3. /\ p \in [1..n -> 1..n]
      /\ (\A i, j \in 1..n : p[i] = p[j] => i = j)
      /\ \A j \in 1..n : \E i \in 1..n : p[i] = j
  BY <1>2 DEF Bijection, Injection, Surjection, IsInjective
<1>4. \A i \in 1..n : t[i] = s[p[i]] /\ p[i] \in 1..n
  BY <1>2, <1>3
<1>5. \A i \in 1..n : t[i] \in S
  BY <1>1, <1>4
<1>6. t \in Seq(S) /\ Len(t) = n
  BY <1>2, <1>5
<1>7. \A j \in 1..n : \E i \in 1..n : t[i] = s[j]
  BY <1>3, <1>4
<1>8. ASSUME \A i, j \in 1..n : i # j => s[i] # s[j], NEW i \in 1..n, NEW j \in 1..n, i # j
      PROVE  t[i] # t[j]
  <2>1. PICK k \in 1..n, l \in 1..n : k = p[i] /\ l = p[j]
    BY <1>3
  <2>2. k # l
    BY <1>3, <1>8, <2>1
  <2>3. s[k] # s[l]
    BY <1>8, <2>2
  <2> QED
    BY <1>4, <2>1, <2>3
<1> QED
  BY <1>1, <1>4, <1>6, <1>7, <1>8

\* What sorting by a field does.
LEMMA SortsFacts ==
    ASSUME NEW S, NEW s \in Seq(S), NEW field, NEW t \in Sorts(s, field)
    PROVE  /\ t \in Orders(s)
           /\ \A i, j \in 1..Len(t) : i < j => t[i][field] <= t[j][field]
BY DEF Sorts, IsSorted

-----------------------------------------------------------------------------
\* Records.

\* Records are of finitely many accounts and slots, which are numbered.
LEMMA DiffsFacts ==
    ASSUME TypeOK
    PROVE  /\ DOMAIN diffs \subseteq Address /\ DOMAIN diffs \subseteq Nat
           /\ IsFiniteSet(DOMAIN diffs)
           /\ \A a \in DOMAIN diffs :
                  /\ DOMAIN diffs[a] \subseteq Key /\ DOMAIN diffs[a] \subseteq Nat
                  /\ IsFiniteSet(DOMAIN diffs[a])
                  /\ \A k \in DOMAIN diffs[a] : diffs[a][k] \in StorageDiff
<1>1. diffs \in Diffs
  BY DEF TypeOK
<1>2. /\ DOMAIN diffs \subseteq Address /\ IsFiniteSet(DOMAIN diffs)
      /\ \A a \in DOMAIN diffs : diffs[a] \in StateDiff /\ IsFiniteSet(DOMAIN diffs[a])
  BY <1>1, ReportAssumption
<1>3. Address \subseteq Nat /\ Key \subseteq Nat
  BY ReportAssumption
<1>4. ASSUME NEW a \in DOMAIN diffs
      PROVE  /\ DOMAIN diffs[a] \subseteq Key
             /\ \A k \in DOMAIN diffs[a] : diffs[a][k] \in StorageDiff
  <2>1. diffs[a] \in StateDiff
    BY <1>2
  <2>2. PICK K \in SUBSET Key : diffs[a] \in [K -> StorageDiff]
    BY <2>1 DEF StateDiff
  <2> QED
    BY <2>2
<1> QED
  BY <1>2, <1>3, <1>4

\* The records of an account's slots, and what they are made of.
LEMMA RecordsFacts ==
    ASSUME TypeOK, NEW a \in DOMAIN diffs, NEW R,
           R = {Recorded(a, k) : k \in DOMAIN diffs[a]}
    PROVE  /\ IsFiniteSet(R) /\ R \subseteq Change
           /\ \A r \in R : r.key \in DOMAIN diffs[a] /\ r.key \in Nat /\ r = Recorded(a, r.key)
<1>1. /\ DOMAIN diffs[a] \subseteq Key /\ DOMAIN diffs[a] \subseteq Nat
      /\ IsFiniteSet(DOMAIN diffs[a])
      /\ \A k \in DOMAIN diffs[a] : diffs[a][k] \in StorageDiff
  BY DiffsFacts
<1>2. PICK f : f = [k \in DOMAIN diffs[a] |-> Recorded(a, k)]
  OBVIOUS
<1>3. f \in Surjection(DOMAIN diffs[a], R)
  BY <1>2 DEF Surjection
<1>4. IsFiniteSet(R)
  BY <1>1, <1>3, FS_Surjection
<1>5. ASSUME NEW r \in R
      PROVE  r \in Change /\ r.key \in DOMAIN diffs[a] /\ r.key \in Nat /\ r = Recorded(a, r.key)
  <2>1. PICK k \in DOMAIN diffs[a] : r = Recorded(a, k)
    OBVIOUS
  <2>2. r.key = k
    BY <2>1 DEF Recorded
  <2>3. r \in Change
    BY <1>1, <2>1 DEF Recorded, StorageDiff, Change
  <2> QED
    BY <1>1, <2>1, <2>2, <2>3
<1> QED
  BY <1>4, <1>5

\* Whatever the order in which the records are walked, what is left of them once they
\* are sorted and filtered are the changes, in the order of their keys.
LEMMA ActualChangesAre ==
    ASSUME TypeOK, NEW a \in DOMAIN diffs,
           NEW walked \in StorageDiffs(a), NEW sorted \in Sorts(walked, "key")
    PROVE  /\ Ascends(Ascending(Changed(a)), Changed(a))
           /\ ActualChanges(sorted) = ExpectedEntry(a).changes
           /\ ActualChanges(sorted) \in Seq(Change)
<1>1. PICK R : R = {Recorded(a, k) : k \in DOMAIN diffs[a]}
  OBVIOUS
<1>2. /\ IsFiniteSet(R) /\ R \subseteq Change
      /\ \A r \in R : r.key \in DOMAIN diffs[a] /\ r.key \in Nat /\ r = Recorded(a, r.key)
  BY <1>1, RecordsFacts
<1>3. walked \in SetToSeqs(R)
  BY <1>1 DEF StorageDiffs
<1>4. /\ walked \in Seq(R)
      /\ (\A i, j \in 1..Len(walked) : i # j => walked[i] # walked[j])
      /\ \A r \in R : \E i \in 1..Len(walked) : walked[i] = r
  BY <1>2, <1>3, SeqsFacts
<1>5. /\ sorted \in Orders(walked)
      /\ \A i, j \in 1..Len(sorted) : i < j => sorted[i]["key"] <= sorted[j]["key"]
  BY <1>4, SortsFacts
<1>6. /\ sorted \in Seq(R)
      /\ (\A i, j \in 1..Len(sorted) : i # j => sorted[i] # sorted[j])
      /\ \A r \in R : \E i \in 1..Len(sorted) : sorted[i] = r
  <2>1. /\ sorted \in Seq(R)
        /\ \A j \in 1..Len(walked) : \E i \in 1..Len(sorted) : sorted[i] = walked[j]
    BY <1>4, <1>5, OrdersFacts
  <2>2. \A i, j \in 1..Len(sorted) : i # j => sorted[i] # sorted[j]
    BY <1>4, <1>5, OrdersFacts
  <2>3. \A r \in R : \E i \in 1..Len(sorted) : sorted[i] = r
    BY <1>4, <2>1
  <2> QED
    BY <2>1, <2>2, <2>3
<1>7. PICK n \in Nat : n = Len(sorted) /\ DOMAIN sorted = 1..n
  BY <1>6
<1>8. \A i \in 1..n : sorted[i] \in R
  BY <1>6, <1>7
<1>9. ASSUME NEW i \in 1..n, NEW j \in 1..n, i < j PROVE sorted[i].key < sorted[j].key
  <2>1. sorted[i].key <= sorted[j].key
    BY <1>5, <1>7, <1>9
  <2>2. sorted[i].key # sorted[j].key
    BY <1>2, <1>6, <1>7, <1>8, <1>9
  <2>3. sorted[i].key \in Nat /\ sorted[j].key \in Nat
    BY <1>2, <1>8
  <2> QED
    BY <2>1, <2>2, <2>3
<1>10. PICK P \in SUBSET (1..n) : P = {i \in 1..n : sorted[i].before # sorted[i].after}
  OBVIOUS
<1>11. PICK q : q = Ascending(P) /\ Ascends(q, P)
  BY PositionsAscend
<1>12. /\ q \in Seq(Nat) /\ Len(q) \in Nat /\ DOMAIN q = 1..Len(q)
       /\ \A m \in 1..Len(q) : q[m] \in P /\ q[m] \in 1..n
  BY <1>11 DEF Ascends
<1>13. ActualChanges(sorted) = [m \in 1..Len(q) |-> sorted[q[m]]]
  BY <1>7, <1>10, <1>11, <1>12 DEF ActualChanges
<1>14. PICK u : u = [m \in 1..Len(q) |-> sorted[q[m]].key]
  OBVIOUS
<1>15. \A m \in 1..Len(q) : /\ u[m] = sorted[q[m]].key /\ u[m] \in DOMAIN diffs[a] /\ u[m] \in Nat
                            /\ sorted[q[m]] = Recorded(a, u[m])
                            /\ sorted[q[m]] \in Change
  BY <1>2, <1>8, <1>12, <1>14
<1>16. u \in Seq(Nat) /\ Len(u) = Len(q) /\ DOMAIN u = 1..Len(q)
  BY <1>12, <1>14, <1>15
<1>17. \A i \in 1..n : i \in P <=> sorted[i].key \in Changed(a)
  <2> SUFFICES ASSUME NEW i \in 1..n PROVE i \in P <=> sorted[i].key \in Changed(a)
    OBVIOUS
  <2>1. PICK k \in DOMAIN diffs[a] : k = sorted[i].key /\ sorted[i] = Recorded(a, k)
    BY <1>2, <1>8
  <2>2. sorted[i].before = diffs[a][k].before /\ sorted[i].after = diffs[a][k].after
    BY <2>1 DEF Recorded
  <2> QED
    BY <1>10, <2>1, <2>2 DEF Changed
<1>18. Ascends(u, Changed(a))
  <2>1. \A i, j \in 1..Len(u) : i < j => u[i] < u[j]
    <3> SUFFICES ASSUME NEW i \in 1..Len(u), NEW j \in 1..Len(u), i < j PROVE u[i] < u[j]
      OBVIOUS
    <3>1. q[i] < q[j] /\ q[i] \in 1..n /\ q[j] \in 1..n
      BY <1>11, <1>12, <1>16 DEF Ascends
    <3> QED
      BY <1>9, <1>15, <1>16, <3>1
  <2>2. \A i \in 1..Len(u) : u[i] \in Changed(a)
    BY <1>12, <1>15, <1>16, <1>17
  <2>3. ASSUME NEW k \in Changed(a) PROVE \E i \in 1..Len(u) : u[i] = k
    <3>1. Recorded(a, k) \in R
      BY <1>1 DEF Changed
    <3>2. PICK i \in 1..n : sorted[i] = Recorded(a, k)
      BY <1>6, <1>7, <3>1
    <3>3. sorted[i].key = k
      BY <3>2 DEF Recorded
    <3>4. i \in P
      BY <1>17, <3>3
    <3>5. PICK m \in 1..Len(q) : q[m] = i
      BY <1>11, <3>4 DEF Ascends
    <3>6. m \in 1..Len(u) /\ u[m] = k
      BY <1>15, <1>16, <3>3, <3>5
    <3> QED
      BY <3>6
  <2> QED
    BY <1>16, <2>1, <2>2, <2>3 DEF Ascends
<1>19. Ascending(Changed(a)) = u
  BY <1>18, AscendingIs
<1>20. ExpectedEntry(a).changes = [m \in 1..Len(q) |-> Recorded(a, u[m])]
  BY <1>16, <1>19 DEF ExpectedEntry
<1>21. ActualChanges(sorted) = [m \in 1..Len(q) |-> Recorded(a, u[m])]
  BY <1>13, <1>15
<1>22. ActualChanges(sorted) \in Seq(Change)
  BY <1>12, <1>13, <1>15
<1> QED
  BY <1>18, <1>19, <1>20, <1>21, <1>22

\* The accounts, once sorted, come one after the other, each once.
LEMMA AccountsSorted ==
    ASSUME TypeOK, NEW walked \in SetToSeqs({[address |-> a] : a \in DOMAIN diffs}),
           NEW sorted \in Sorts(walked, "address")
    PROVE  /\ sorted \in Seq([address : DOMAIN diffs])
           /\ \A i, j \in 1..Len(sorted) : i < j => sorted[i].address < sorted[j].address
           /\ \A a \in DOMAIN diffs : \E i \in 1..Len(sorted) : sorted[i].address = a
<1>1. PICK D : D = DOMAIN diffs /\ D \subseteq Nat /\ IsFiniteSet(D)
  BY DiffsFacts
<1>2. PICK R : R = {[address |-> a] : a \in D}
  OBVIOUS
<1>3. IsFiniteSet(R)
  <2>1. PICK f : f = [a \in D |-> [address |-> a]]
    OBVIOUS
  <2>2. f \in Surjection(D, R)
    BY <1>2, <2>1 DEF Surjection
  <2> QED
    BY <1>1, <2>2, FS_Surjection
<1>4. \A r \in R : r \in [address : D] /\ r.address \in D /\ r = [address |-> r.address]
  BY <1>2
<1>5. walked \in SetToSeqs(R)
  BY <1>1, <1>2
<1>6. /\ walked \in Seq(R)
      /\ (\A i, j \in 1..Len(walked) : i # j => walked[i] # walked[j])
      /\ \A r \in R : \E i \in 1..Len(walked) : walked[i] = r
  BY <1>3, <1>5, SeqsFacts
<1>7. /\ sorted \in Orders(walked)
      /\ \A i, j \in 1..Len(sorted) : i < j => sorted[i]["address"] <= sorted[j]["address"]
  BY <1>6, SortsFacts
<1>8. /\ sorted \in Seq(R)
      /\ \A j \in 1..Len(walked) : \E i \in 1..Len(sorted) : sorted[i] = walked[j]
  BY <1>6, <1>7, OrdersFacts
<1>9. \A i, j \in 1..Len(sorted) : i # j => sorted[i] # sorted[j]
  BY <1>6, <1>7, OrdersFacts
<1>10. \A i \in 1..Len(sorted) : sorted[i] \in R
  BY <1>8
<1>11. ASSUME NEW i \in 1..Len(sorted), NEW j \in 1..Len(sorted), i < j
       PROVE  sorted[i].address < sorted[j].address
  <2>1. sorted[i].address <= sorted[j].address
    BY <1>7, <1>11
  <2>2. sorted[i].address # sorted[j].address
    BY <1>4, <1>9, <1>10, <1>11
  <2>3. sorted[i].address \in Nat /\ sorted[j].address \in Nat
    BY <1>1, <1>4, <1>10
  <2> QED
    BY <2>1, <2>2, <2>3
<1>12. ASSUME NEW a \in D PROVE \E i \in 1..Len(sorted) : sorted[i].address = a
  <2>1. PICK i \in 1..Len(walked) : walked[i] = [address |-> a]
    BY <1>2, <1>6
  <2>2. PICK j \in 1..Len(sorted) : sorted[j] = walked[i]
    BY <1>8
  <2> QED
    BY <2>1, <2>2
<1>13. sorted \in Seq([address : D])
  <2>1. R \subseteq [address : D]
    BY <1>4
  <2> QED
    BY <1>8, <2>1, SeqWidens
<1> QED
  BY <1>1, <1>11, <1>12, <1>13

-----------------------------------------------------------------------------
\* The steps of the report.

\* A contract is given a name of the configuration or the default one.
LEMMA NameFacts == \A a : GetContractCfg(a) \in Named \cup {DefaultName}
BY DEF GetContractCfg

\* What does not change the records does not change what is expected of them.
LEMMA ExpectedKept ==
    ASSUME UNCHANGED diffs
    PROVE  \A a : Changed(a)' = Changed(a) /\ ExpectedEntry(a)' = ExpectedEntry(a)
<1>1. \A a : Changed(a)' = Changed(a)
  BY DEF Changed
<1> QED
  BY <1>1 DEF ExpectedEntry, Recorded

\* What is known before anything is converted.
LEMMA ReportInit == Init => ReportInv
<1> SUFFICES ASSUME Init PROVE ReportInv
  OBVIOUS
<1>1. OverrideLists \subseteq Seq(Override)
  BY ReportAssumption
<1>2. TypeOK
  BY <1>1 DEF Init, TypeOK
<1>3. ChangesSoFar /\ OverridesSoFar
  BY DEF Init, ChangesSoFar, OverridesSoFar
<1> QED
  BY <1>2, <1>3 DEF ReportInv

\* The accounts are collected and the overrides sorted.
LEMMA GetStateDiffsInv == ASSUME ReportInv, GetStateDiffs PROVE ReportInv'
<1> USE DEF GetStateDiffs, ReportInv
<1>1. given \in Seq(Override) /\ overrides = given /\ stateOverrides = <<>> /\ stateChanges = <<>>
  BY ReportAssumption DEF TypeOK, OverridesSoFar, ChangesSoFar
<1>2. overrides' \in Sorts(given, "address")
  BY <1>1
<1>3. overrides' \in Seq(Override) /\ Len(overrides') = Len(given)
  BY <1>1, <1>2, SortsFacts, OrdersFacts
<1>4. list' \in Seq([address : DOMAIN diffs])
  <2>1. PICK R : R = {[address |-> a] : a \in DOMAIN diffs}
    OBVIOUS
  <2>2. R \subseteq [address : DOMAIN diffs]
    BY <2>1
  <2>3. PICK f : f = [a \in DOMAIN diffs |-> [address |-> a]]
    OBVIOUS
  <2>4. f \in Surjection(DOMAIN diffs, R)
    BY <2>1, <2>3 DEF Surjection
  <2>5. IsFiniteSet(R)
    BY <2>4, DiffsFacts, FS_Surjection
  <2>6. list' \in Seq(R)
    BY <2>1, <2>5, SeqsFacts
  <2> QED
    BY <2>2, <2>6, SeqWidens
<1>5. TypeOK'
  BY <1>3, <1>4 DEF TypeOK
<1>6. ChangesSoFar'
  BY <1>1 DEF ChangesSoFar
<1>7. OverridesSoFar'
  <2>1. PICK order : order = overrides'
    OBVIOUS
  <2>2. order \in Sorts(given', "address")
    BY <1>2, <2>1
  <2>3. Len(order) = Len(stateOverrides') + Len(overrides')
    BY <1>1, <1>3, <2>1
  <2>4. DOMAIN stateOverrides' = {}
    BY <1>1
  <2>5. \A i \in DOMAIN overrides' : overrides'[i] = order[Len(stateOverrides') + i]
    BY <1>1, <1>3, <2>1
  <2>6. stage' = "overrides"
    OBVIOUS
  <2> QED
    BY <2>2, <2>3, <2>4, <2>5, <2>6 DEF OverridesSoFar
<1> QED
  BY <1>5, <1>6, <1>7

\* One override is converted.
LEMMA ConvertOverrideInv == ASSUME ReportInv, ConvertOverride PROVE ReportInv'
<1> USE DEF ReportInv
<1>1. /\ stage = "overrides" /\ overrides # <<>> /\ overrides' = Tail(overrides)
      /\ UNCHANGED <<diffs, given, stage, list, stateChanges>>
  BY DEF ConvertOverride
<1>2. PICK o \in Override : o = Head(overrides) /\ o = overrides[1]
  BY <1>1 DEF TypeOK
<1>3. PICK storage \in Sorts(o.storage, "key") :
          stateOverrides' = Append(stateOverrides,
              [name |-> GetContractCfg(o.address), address |-> o.address, overrides |-> storage])
  BY <1>2 DEF ConvertOverride
<1>4. PICK e : e = [name |-> GetContractCfg(o.address), address |-> o.address,
                    overrides |-> storage]
  OBVIOUS
<1>5. o.address \in Address /\ o.storage \in Seq([key : Key, value : Value])
  BY DEF Override
<1>6. storage \in Seq([key : Key, value : Value])
  BY <1>5, SortsFacts, OrdersFacts
<1>7. e \in StateOverride
  BY <1>4, <1>5, <1>6, NameFacts DEF StateOverride
<1>8. PICK m \in Nat, n \in Nat : m = Len(stateOverrides) /\ n = Len(overrides) /\ n > 0
  BY <1>1 DEF TypeOK
<1>9. /\ stateOverrides' \in Seq(StateOverride) /\ Len(stateOverrides') = m + 1
      /\ stateOverrides'[m + 1] = e
      /\ \A i \in 1..m : stateOverrides'[i] = stateOverrides[i]
  BY <1>3, <1>4, <1>7, <1>8 DEF TypeOK
<1>10. /\ overrides' \in Seq(Override) /\ Len(overrides') = n - 1
       /\ \A i \in 1..n - 1 : overrides'[i] = overrides[i + 1]
  BY <1>1, <1>8 DEF TypeOK
<1>11. TypeOK'
  BY <1>1, <1>9, <1>10 DEF TypeOK
<1>12. ChangesSoFar'
  BY <1>1 DEF ChangesSoFar
<1>13. PICK order \in Sorts(given, "address") :
           /\ Len(order) = m + n
           /\ \A i \in 1..m :
                  /\ stateOverrides[i].address = order[i].address
                  /\ stateOverrides[i].overrides \in Sorts(order[i].storage, "key")
           /\ \A i \in 1..n : overrides[i] = order[m + i]
  <2>1. DOMAIN stateOverrides = 1..m /\ DOMAIN overrides = 1..n
    BY <1>8 DEF TypeOK
  <2> QED
    BY <1>1, <1>8, <2>1 DEF OverridesSoFar
<1>14. OverridesSoFar'
  <2>1. DOMAIN stateOverrides' = 1..m + 1 /\ DOMAIN overrides' = 1..n - 1
    BY <1>8, <1>9, <1>10
  <2>2. Len(order) = Len(stateOverrides') + Len(overrides')
    BY <1>8, <1>9, <1>10, <1>13
  <2>3. order[m + 1] = o
    BY <1>2, <1>8, <1>13
  <2>4. ASSUME NEW i \in 1..m + 1
        PROVE  /\ stateOverrides'[i].address = order[i].address
               /\ stateOverrides'[i].overrides \in Sorts(order[i].storage, "key")
    <3>1. CASE i \in 1..m
      BY <1>9, <1>13, <3>1
    <3>2. CASE i = m + 1
      BY <1>4, <1>9, <2>3, <3>2
    <3> QED
      BY <1>8, <3>1, <3>2
  <2>5. ASSUME NEW i \in 1..n - 1
        PROVE  overrides'[i] = order[Len(stateOverrides') + i]
    <3>1. i + 1 \in 1..n /\ m + (i + 1) = Len(stateOverrides') + i
      BY <1>8, <1>9
    <3>2. overrides'[i] = overrides[i + 1]
      BY <1>10
    <3>3. overrides[i + 1] = order[m + (i + 1)]
      BY <1>13, <3>1
    <3> QED
      BY <3>1, <3>2, <3>3
  <2>6. order \in Sorts(given', "address") /\ stage' = "overrides"
    BY <1>1
  <2> QED
    BY <2>1, <2>2, <2>4, <2>5, <2>6 DEF OverridesSoFar
<1> QED
  BY <1>11, <1>12, <1>14

\* The accounts are sorted, and none is converted yet.
LEMMA SortDiffsInv == ASSUME ReportInv, SortDiffs PROVE ReportInv'
<1> USE DEF SortDiffs, ReportInv
<1>1. list \in SetToSeqs({[address |-> a] : a \in DOMAIN diffs}) /\ stateChanges = <<>>
  BY DEF ChangesSoFar
<1>2. /\ list' \in Seq([address : DOMAIN diffs])
      /\ (\A i, j \in 1..Len(list') : i < j => list'[i].address < list'[j].address)
      /\ \A a \in DOMAIN diffs : \E i \in 1..Len(list') : list'[i].address = a
  BY <1>1, AccountsSorted
<1>3. DOMAIN list' = 1..Len(list')
  BY <1>2
<1>4. TypeOK'
  BY <1>2 DEF TypeOK
<1>5. DOMAIN diffs' \ Pending' = {}
  BY <1>2, <1>3 DEF Pending
<1>6. Done' = {} /\ DOMAIN stateChanges' = {}
  BY <1>1, <1>5 DEF Done
<1>7. ChangesSoFar'
  BY <1>1, <1>2, <1>3, <1>5, <1>6 DEF ChangesSoFar
<1>8. OverridesSoFar'
  BY DEF OverridesSoFar
<1> QED
  BY <1>4, <1>7, <1>8

\* One account is converted: an entry if it has changes, none if it has not.
LEMMA ConvertDiffInv == ASSUME ReportInv, ConvertDiff PROVE ReportInv'
<1> USE DEF ReportInv
<1>1. /\ stage = "changes" /\ list # <<>> /\ list' = Tail(list)
      /\ UNCHANGED <<diffs, given, stage, overrides, stateOverrides>>
  BY DEF ConvertDiff
<1>2. PICK D : D = DOMAIN diffs /\ D \subseteq Nat /\ D \subseteq Address
  BY DiffsFacts
<1>3. PICK n \in Nat : n = Len(list) /\ n > 0 /\ DOMAIN list = 1..n
  BY <1>1 DEF TypeOK
<1>4. \A i \in 1..n : list[i] \in [address : D] /\ list[i].address \in D
  <2>1. list \in Seq([address : D])
    BY <1>2 DEF TypeOK
  <2>2. \A i \in 1..n : list[i] \in [address : D]
    BY <1>3, <2>1, SeqElements
  <2> QED
    BY <2>2
<1>5. PICK a \in D : a = Head(list).address /\ a = list[1].address
  BY <1>1, <1>3, <1>4 DEF TypeOK
<1>6. PICK walked \in StorageDiffs(a) : \E sorted \in Sorts(walked, "key") :
          LET changes == ActualChanges(sorted)
          IN  stateChanges' =
                  IF changes = <<>> THEN stateChanges
                  ELSE Append(stateChanges,
                           [name |-> GetContractCfg(a), address |-> a, changes |-> changes])
  BY <1>5 DEF ConvertDiff
<1> PICK sorted \in Sorts(walked, "key") :
        LET changes == ActualChanges(sorted)
        IN  stateChanges' =
                IF changes = <<>> THEN stateChanges
                ELSE Append(stateChanges,
                         [name |-> GetContractCfg(a), address |-> a, changes |-> changes])
  BY <1>6
<1>7. PICK changes : changes = ActualChanges(sorted)
  OBVIOUS
<1>8. /\ Ascends(Ascending(Changed(a)), Changed(a))
      /\ changes = ExpectedEntry(a).changes
      /\ changes \in Seq(Change)
  BY <1>2, <1>7, ActualChangesAre
<1>9. changes = <<>> <=> Changed(a) = {}
  <2>1. PICK keys : keys = Ascending(Changed(a))
    OBVIOUS
  <2>2. /\ keys \in Seq(Nat) /\ Len(keys) \in Nat
        /\ (\A i \in 1..Len(keys) : keys[i] \in Changed(a))
        /\ \A k \in Changed(a) : \E i \in 1..Len(keys) : keys[i] = k
    BY <1>8, <2>1 DEF Ascends
  <2>3. changes = [i \in 1..Len(keys) |-> Recorded(a, keys[i])]
    BY <1>8, <2>1, <2>2 DEF ExpectedEntry
  <2>4. Len(changes) = Len(keys)
    BY <1>8, <2>2, <2>3
  <2>5. changes = <<>> <=> Len(keys) = 0
    BY <1>8, <2>4
  <2>6. Len(keys) = 0 => Changed(a) = {}
    BY <2>2
  <2>7. Changed(a) = {} => Len(keys) = 0
    <3> SUFFICES ASSUME Changed(a) = {}, Len(keys) # 0 PROVE FALSE
      OBVIOUS
    <3>1. 1 \in 1..Len(keys)
      BY <2>2
    <3> QED
      BY <2>2, <3>1
  <2> QED
    BY <2>5, <2>6, <2>7
<1>10. PICK e : e = [name |-> GetContractCfg(a), address |-> a, changes |-> changes]
  OBVIOUS
<1>11. stateChanges' = IF changes = <<>> THEN stateChanges ELSE Append(stateChanges, e)
  BY <1>7, <1>10
<1>12. e = ExpectedEntry(a) /\ e.address = a
  BY <1>8, <1>10 DEF ExpectedEntry
<1>13. e \in StateChange
  BY <1>2, <1>8, <1>10, NameFacts DEF StateChange
<1>14. /\ list' \in Seq([address : D]) /\ Len(list') = n - 1 /\ DOMAIN list' = 1..n - 1
       /\ \A i \in 1..n - 1 : list'[i] = list[i + 1]
  BY <1>1, <1>2, <1>3 DEF TypeOK
<1>15. /\ (\A i, j \in 1..n : i < j => list[i].address < list[j].address)
       /\ (\A i, j \in DOMAIN stateChanges :
              i < j => stateChanges[i].address < stateChanges[j].address)
       /\ {stateChanges[i].address : i \in DOMAIN stateChanges} = Done
       /\ (\A i \in DOMAIN stateChanges :
              stateChanges[i] = ExpectedEntry(stateChanges[i].address))
       /\ \A x \in D \ Pending, y \in Pending : x < y
  BY <1>1, <1>2, <1>3 DEF ChangesSoFar
<1>16. a \in Pending /\ Pending' \subseteq Pending /\ \A y \in Pending' : a < y
  <2>1. 1 \in 1..n
    BY <1>3
  <2>2. a \in Pending
    BY <1>3, <1>5, <2>1 DEF Pending
  <2>3. ASSUME NEW y \in Pending' PROVE y \in Pending /\ a < y
    <3>1. PICK i \in 1..n - 1 : y = list'[i].address
      BY <1>14 DEF Pending
    <3>2. i + 1 \in 1..n /\ 1 < i + 1 /\ y = list[i + 1].address
      BY <1>3, <1>14, <3>1
    <3> QED
      BY <1>3, <1>5, <1>15, <2>1, <3>2 DEF Pending
  <2> QED
    BY <2>2, <2>3
<1>17. D \ Pending' = (D \ Pending) \cup {a}
  <2>1. a \notin Pending'
    BY <1>2, <1>16
  <2>2. ASSUME NEW x \in Pending, x # a PROVE x \in Pending'
    <3>1. PICK i \in 1..n : x = list[i].address
      BY <1>3, <2>2 DEF Pending
    <3>2. i # 1
      BY <1>5, <2>2, <3>1
    <3>3. i - 1 \in 1..n - 1 /\ (i - 1) + 1 = i
      BY <1>3, <3>2
    <3>4. list'[i - 1] = list[i]
      BY <1>14, <3>3
    <3> QED
      BY <1>14, <3>1, <3>3, <3>4 DEF Pending
  <2> QED
    BY <1>16, <2>1, <2>2
<1>18. \A x : Changed(x)' = Changed(x) /\ ExpectedEntry(x)' = ExpectedEntry(x)
  BY <1>1, ExpectedKept
<1>19. Done' = Done \cup {x \in {a} : Changed(x) # {}}
  BY <1>1, <1>2, <1>17, <1>18 DEF Done
<1>20. \A x \in D \ Pending', y \in Pending' : x < y
  BY <1>15, <1>16, <1>17
<1>21. \A i, j \in DOMAIN list' : i < j => list'[i].address < list'[j].address
  <2> SUFFICES ASSUME NEW i \in 1..n - 1, NEW j \in 1..n - 1, i < j
               PROVE  list'[i].address < list'[j].address
    BY <1>14
  <2>1. i + 1 \in 1..n /\ j + 1 \in 1..n /\ i + 1 < j + 1
    BY <1>3
  <2>2. list'[i] = list[i + 1] /\ list'[j] = list[j + 1]
    BY <1>14
  <2> QED
    BY <1>15, <2>1, <2>2
<1>22. stateChanges \in Seq(StateChange)
  BY DEF TypeOK
<1>23. CASE Changed(a) = {}
  <2>1. stateChanges' = stateChanges /\ Done' = Done
    BY <1>9, <1>11, <1>19, <1>23
  <2>2. TypeOK'
    BY <1>1, <1>2, <1>14, <1>22, <2>1 DEF TypeOK
  <2>3. \A i \in DOMAIN stateChanges' :
            (stateChanges[i] = ExpectedEntry(stateChanges[i].address))'
    BY <1>15, <1>18, <2>1
  <2>4. ChangesSoFar'
    BY <1>1, <1>2, <1>15, <1>20, <1>21, <2>1, <2>3 DEF ChangesSoFar
  <2>5. OverridesSoFar'
    BY <1>1 DEF OverridesSoFar
  <2> QED
    BY <2>2, <2>4, <2>5
<1>24. CASE Changed(a) # {}
  <2>1. stateChanges' = Append(stateChanges, e) /\ Done' = Done \cup {a}
    BY <1>9, <1>11, <1>19, <1>24
  <2>2. PICK m \in Nat : m = Len(stateChanges) /\ DOMAIN stateChanges = 1..m
    BY <1>22
  <2>3. /\ stateChanges' \in Seq(StateChange) /\ Len(stateChanges') = m + 1
        /\ DOMAIN stateChanges' = 1..m + 1
        /\ stateChanges'[m + 1] = e
        /\ \A i \in 1..m : stateChanges'[i] = stateChanges[i]
    BY <1>13, <1>22, <2>1, <2>2
  <2>4. \A i \in 1..m + 1 : i \in 1..m \/ i = m + 1
    BY <2>2
  <2>5. \A i \in 1..m : stateChanges[i].address \in Done /\ stateChanges[i].address < a
    <3>1. \A i \in 1..m : stateChanges[i].address \in Done
      BY <1>15, <2>2
    <3>2. \A x \in Done : x \in D \ Pending
      BY <1>2 DEF Done
    <3> QED
      BY <1>15, <1>16, <3>1, <3>2
  <2>6. TypeOK'
    BY <1>1, <1>2, <1>14, <2>3 DEF TypeOK
  <2>7. \A i, j \in DOMAIN stateChanges' :
            i < j => stateChanges'[i].address < stateChanges'[j].address
    <3> SUFFICES ASSUME NEW i \in 1..m + 1, NEW j \in 1..m + 1, i < j
                 PROVE  stateChanges'[i].address < stateChanges'[j].address
      BY <2>3
    <3>1. i \in 1..m
      BY <2>2
    <3>2. CASE j \in 1..m
      BY <1>15, <2>2, <2>3, <3>1, <3>2
    <3>3. CASE j = m + 1
      BY <1>12, <2>3, <2>5, <3>1, <3>3
    <3> QED
      BY <2>4, <3>2, <3>3
  <2>8. {stateChanges'[i].address : i \in DOMAIN stateChanges'} = Done'
    <3>1. \A i \in 1..m + 1 : stateChanges'[i].address \in Done \cup {a}
      BY <1>12, <2>3, <2>4, <2>5
    <3>2. ASSUME NEW x \in Done PROVE \E i \in 1..m + 1 : stateChanges'[i].address = x
      <4>1. PICK i \in 1..m : stateChanges[i].address = x
        BY <1>15, <2>2
      <4>2. i \in 1..m + 1 /\ stateChanges'[i].address = x
        BY <2>2, <2>3, <4>1
      <4> QED
        BY <4>2
    <3>3. m + 1 \in 1..m + 1 /\ stateChanges'[m + 1].address = a
      BY <1>12, <2>2, <2>3
    <3> QED
      BY <2>1, <2>3, <3>1, <3>2, <3>3
  <2>9. \A i \in DOMAIN stateChanges' :
            (stateChanges[i] = ExpectedEntry(stateChanges[i].address))'
    <3> SUFFICES ASSUME NEW i \in 1..m + 1
                 PROVE  (stateChanges[i] = ExpectedEntry(stateChanges[i].address))'
      BY <2>3
    <3>1. CASE i \in 1..m
      BY <1>15, <1>18, <2>2, <2>3, <3>1
    <3>2. CASE i = m + 1
      BY <1>12, <1>18, <2>3, <3>2
    <3> QED
      BY <2>4, <3>1, <3>2
  <2>10. ChangesSoFar'
    BY <1>1, <1>2, <1>20, <1>21, <2>7, <2>8, <2>9 DEF ChangesSoFar
  <2>11. OverridesSoFar'
    BY <1>1 DEF OverridesSoFar
  <2> QED
    BY <2>6, <2>10, <2>11
<1> QED
  BY <1>23, <1>24

\* Nothing is left to convert.
LEMMA BuildInv == ASSUME ReportInv, Build PROVE ReportInv'
<1> USE DEF Build, ReportInv
<1>1. TypeOK'
  BY DEF TypeOK
<1>2. Pending' = Pending /\ Done' = Done /\ \A a : ExpectedEntry(a)' = ExpectedEntry(a)
  <2>1. Pending' = Pending
    BY DEF Pending
  <2>2. \A a : Changed(a)' = Changed(a) /\ ExpectedEntry(a)' = ExpectedEntry(a)
    BY ExpectedKept
  <2> QED
    BY <2>1, <2>2 DEF Done
<1>3. ChangesSoFar'
  BY <1>2 DEF ChangesSoFar
<1>4. OverridesSoFar'
  BY DEF OverridesSoFar
<1> QED
  BY <1>1, <1>3, <1>4

\* A step that changes nothing.
LEMMA ReportStutter == ASSUME ReportInv, UNCHANGED reportVars PROVE ReportInv'
<1> USE DEF reportVars, ReportInv
<1>1. TypeOK'
  BY DEF TypeOK
<1>2. Pending' = Pending /\ Done' = Done /\ \A a : ExpectedEntry(a)' = ExpectedEntry(a)
  <2>1. Pending' = Pending
    BY DEF Pending
  <2>2. \A a : Changed(a)' = Changed(a) /\ ExpectedEntry(a)' = ExpectedEntry(a)
    BY ExpectedKept
  <2> QED
    BY <2>1, <2>2 DEF Done
<1>3. ChangesSoFar'
  BY <1>2 DEF ChangesSoFar
<1>4. OverridesSoFar'
  BY DEF OverridesSoFar
<1> QED
  BY <1>1, <1>3, <1>4

-----------------------------------------------------------------------------
\* The invariant of the conversions: of the sorted accounts and of the sorted overrides,
\* the first are shown as they should be and the others still to come.
THEOREM ReportInvariant == Spec => []ReportInv
<1>1. Init => ReportInv
  BY ReportInit
<1>2. ReportInv /\ [Next]_reportVars => ReportInv'
  <2> SUFFICES ASSUME ReportInv, [Next]_reportVars PROVE ReportInv'
    OBVIOUS
  <2>1. CASE GetStateDiffs
    BY <2>1, GetStateDiffsInv
  <2>2. CASE ConvertOverride
    BY <2>2, ConvertOverrideInv
  <2>3. CASE SortDiffs
    BY <2>3, SortDiffsInv
  <2>4. CASE ConvertDiff
    BY <2>4, ConvertDiffInv
  <2>5. CASE Build
    BY <2>5, BuildInv
  <2>6. CASE UNCHANGED reportVars
    BY <2>6, ReportStutter
  <2> QED
    BY <2>1, <2>2, <2>3, <2>4, <2>5, <2>6 DEF Next
<1> QED
  BY <1>1, <1>2, PTL DEF Spec

\* The lists stay lists of accounts, overrides, and entries with a name of the
\* configuration or the default one (template.go:245).
THEOREM ReportTyping == Spec => []TypeOK
<1>1. ReportInv => TypeOK
  BY DEF ReportInv
<1> QED
  BY <1>1, ReportInvariant, PTL

\* The report is a function of the records alone: Go's map orders leave no trace in it
\* (template.go:192).
THEOREM ReportIsDetermined == Spec => []ReportDetermined
<1>1. ReportInv => ReportDetermined
  <2> SUFFICES ASSUME ReportInv, stage = "end" PROVE stateChanges = Expected
    BY DEF ReportDetermined
  <2>1. PICK n \in Nat : n = Len(stateChanges) /\ DOMAIN stateChanges = 1..n
                         /\ stateChanges = [i \in 1..n |-> stateChanges[i]]
    BY DEF ReportInv, TypeOK
  <2>2. PICK accounts : accounts = {a \in DOMAIN diffs : Changed(a) # {}}
    OBVIOUS
  <2>3. Pending = {} /\ Done = accounts
    BY <2>2 DEF ReportInv, ChangesSoFar, Pending, Done
  <2>4. /\ (\A i, j \in 1..n : i < j => stateChanges[i].address < stateChanges[j].address)
        /\ {stateChanges[i].address : i \in 1..n} = accounts
        /\ \A i \in 1..n : stateChanges[i] = ExpectedEntry(stateChanges[i].address)
    BY <2>1, <2>3 DEF ReportInv, ChangesSoFar
  <2>5. PICK u : u = [i \in 1..n |-> stateChanges[i].address]
    OBVIOUS
  <2>6. \A a \in accounts : a \in Nat
    BY <2>2, DiffsFacts DEF ReportInv
  <2>7. \A i \in 1..n : u[i] = stateChanges[i].address /\ u[i] \in accounts
    BY <2>4, <2>5
  <2>8. u \in Seq(Nat) /\ Len(u) = n /\ DOMAIN u = 1..n
    BY <2>5, <2>6, <2>7
  <2>9. \A a \in accounts : \E i \in 1..n : u[i] = a
    BY <2>4, <2>7
  <2>10. Ascends(u, accounts)
    BY <2>4, <2>7, <2>8, <2>9 DEF Ascends
  <2>11. Ascending(accounts) = u
    BY <2>10, AscendingIs
  <2>12. Expected = [i \in 1..n |-> ExpectedEntry(u[i])]
    BY <2>2, <2>8, <2>11 DEF Expected
  <2> QED
    BY <2>1, <2>4, <2>7, <2>12
<1> QED
  BY <1>1, ReportInvariant, PTL

\* Every override that was given is shown, and nothing else, also when a contract or a
\* slot occurs more than once (template.go:155).
THEOREM OverridesAreShown == Spec => []OverridesShown
<1>1. ReportInv => OverridesShown
  <2> SUFFICES ASSUME ReportInv, stage = "end" PROVE OverridesShown
    BY DEF OverridesShown
  <2>1. PICK n \in Nat : n = Len(stateOverrides) /\ DOMAIN stateOverrides = 1..n
    BY DEF ReportInv, TypeOK
  <2>2. overrides = <<>> /\ given \in Seq(Override)
    BY ReportAssumption DEF ReportInv, OverridesSoFar, TypeOK
  <2>3. PICK order \in Sorts(given, "address") :
            /\ Len(order) = n
            /\ \A i \in 1..n :
                   /\ stateOverrides[i].address = order[i].address
                   /\ stateOverrides[i].overrides \in Sorts(order[i].storage, "key")
    BY <2>1, <2>2 DEF ReportInv, OverridesSoFar
  <2>4. /\ order \in Orders(given)
        /\ \A i, j \in 1..n : i < j => order[i]["address"] <= order[j]["address"]
    BY <2>2, <2>3, SortsFacts
  <2>5. DOMAIN order = 1..n
    BY <2>2, <2>3, <2>4, OrdersFacts
  <2>6. \A i, j \in 1..n : i < j => stateOverrides[i].address <= stateOverrides[j].address
    BY <2>3, <2>4
  <2>7. IsSorted(stateOverrides, LAMBDA x, y : x.address <= y.address)
    BY <2>1, <2>6 DEF IsSorted
  <2> QED
    BY <2>1, <2>3, <2>4, <2>5, <2>7 DEF OverridesShown
<1> QED
  BY <1>1, ReportInvariant, PTL
=============================================================================
