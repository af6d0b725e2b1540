---------------------------- MODULE SkillsProofs ----------------------------
(* The properties of the skills for any requests, catalogs, hits, questions   *)
(* and limits: what a conclusion, a citation and a draft rest on. First the   *)
(* algorithms, sorting, fusion and reranking; then the call that searches and *)
(* answers; then the facts and the steps of a skill.                          *)
EXTENDS Skills, SequenceTheorems, FiniteSetTheorems, WellFoundedInduction, TLAPS

-----------------------------------------------------------------------------
\* Least numbers and sorted sequences.

\* A set of numbers has a least one.
LEMMA NatMin ==
  ASSUME NEW S \in SUBSET Nat, S # {}
  PROVE  \E m \in S : \A k \in S : m <= k
<1>1. IsWellFoundedOn(OpToRel(<,Nat), Nat)
  BY NatLessThanWellFounded
<1>2. \E m \in S : \A k \in S : ~ (<<k, m>> \in OpToRel(<,Nat))
  BY <1>1, WFMin
<1>3. ASSUME NEW m \in S, NEW k \in S, ~ (<<k, m>> \in OpToRel(<,Nat))
      PROVE  m <= k
  BY <1>3 DEF OpToRel
<1> QED BY <1>2, <1>3

\* R orders the elements of S.
Orders(R, S) ==
    /\ \A x, y \in S : x # y => <<x, y>> \in R \/ <<y, x>> \in R
    /\ \A x, y, z \in S : <<x, y>> \in R /\ <<y, z>> \in R => <<x, z>> \in R

\* A finite set that is ordered has a last element.
LEMMA LastExists ==
  ASSUME NEW S, IsFiniteSet(S), S # {}, NEW R, Orders(R, S)
  PROVE  \E x \in S : \A y \in S : y = x \/ <<y, x>> \in R
<1> DEFINE Latest(T) == \E x \in T : \A y \in T : y = x \/ <<y, x>> \in R
           Bad == {n \in Nat : \E T \in SUBSET S : T # {} /\ Cardinality(T) = n /\ ~Latest(T)}
<1> SUFFICES ASSUME ~Latest(S) PROVE FALSE
  OBVIOUS
<1>1. Cardinality(S) \in Bad
  BY FS_CardinalityType
<1>2. PICK n \in Bad : \A k \in Bad : n <= k
  BY <1>1, NatMin
<1>3. PICK T \in SUBSET S : T # {} /\ Cardinality(T) = n /\ ~Latest(T)
  BY <1>2
<1>4. PICK x \in T : TRUE
  BY <1>3
<1> DEFINE U == T \ {x}
<1>5. IsFiniteSet(T) /\ n \in Nat /\ U \in SUBSET S
  BY <1>3, FS_Subset
<1>6. Cardinality(U) = n - 1 /\ n # 0
  BY <1>3, <1>4, <1>5, FS_RemoveElement, FS_EmptySet
<1>7. U # {}
  <2> SUFFICES ASSUME U = {} PROVE FALSE
    OBVIOUS
  <2>1. \A y \in T : y = x
    OBVIOUS
  <2> QED BY <1>3, <2>1
<1>8. n - 1 \in Nat /\ n - 1 \notin Bad
  <2> HIDE DEF Bad
  <2> QED BY <1>2, <1>5, <1>6
<1>9. Latest(U)
  BY <1>5, <1>6, <1>7, <1>8
<1>10. PICK m \in U : \A y \in U : y = m \/ <<y, m>> \in R
  BY <1>9
<1>11. x \in S /\ m \in S /\ x # m
  BY <1>3, <1>4
<1>12. CASE <<x, m>> \in R
  <2>1. \A y \in T : y = m \/ <<y, m>> \in R
    BY <1>10, <1>12
  <2> QED BY <1>3, <1>10, <2>1
<1>13. CASE <<m, x>> \in R
  <2>1. \A y \in T : y = x \/ <<y, x>> \in R
    BY <1>3, <1>10, <1>11, <1>13 DEF Orders
  <2> QED BY <1>3, <1>4, <2>1
<1> QED BY <1>11, <1>12, <1>13 DEF Orders

\* q holds the elements of S in the order of R.
Sorts(q, R, S) ==
    /\ q \in [1..Cardinality(S) -> S] /\ ToSet(q) = S
    /\ \A m, n \in DOMAIN q : m < n => <<q[m], q[n]>> \in R

\* A finite set can be sorted.
LEMMA SortExists ==
  ASSUME NEW S, IsFiniteSet(S), NEW R, Orders(R, S)
  PROVE  \E q : Sorts(q, R, S)
<1> DEFINE Can(T) == \E q : Sorts(q, R, T)
           Bad == {n \in Nat : \E T \in SUBSET S : Cardinality(T) = n /\ ~Can(T)}
<1> SUFFICES ASSUME ~Can(S) PROVE FALSE
  OBVIOUS
<1>1. Cardinality(S) \in Bad
  BY FS_CardinalityType
<1>2. PICK n \in Bad : \A k \in Bad : n <= k
  BY <1>1, NatMin
<1>3. PICK T \in SUBSET S : Cardinality(T) = n /\ ~Can(T)
  BY <1>2
<1>4. IsFiniteSet(T) /\ n \in Nat
  BY <1>3, FS_Subset
<1>5. T # {}
  <2> SUFFICES ASSUME T = {} PROVE FALSE
    OBVIOUS
  <2>1. Cardinality(T) = 0
    BY FS_EmptySet
  <2>2. Sorts(<<>>, R, T)
    BY <2>1 DEF Sorts, ToSet
  <2> QED BY <1>3, <2>2
<1>6. Orders(R, T)
  BY <1>3 DEF Orders
<1>7. PICK x \in T : \A y \in T : y = x \/ <<y, x>> \in R
  BY <1>4, <1>5, <1>6, LastExists
<1> DEFINE U == T \ {x}
<1>8. U \in SUBSET S /\ Cardinality(U) = n - 1 /\ n # 0
  BY <1>3, <1>4, <1>5, <1>7, FS_RemoveElement, FS_EmptySet
<1>9. n - 1 \in Nat /\ n - 1 \notin Bad
  BY <1>2, <1>4, <1>8
<1>10. PICK p : Sorts(p, R, U)
  BY <1>8, <1>9
<1> DEFINE q == [i \in 1..n |-> IF i = n THEN x ELSE p[i]]
<1>11. p \in [1..(n - 1) -> U] /\ ToSet(p) = U
  BY <1>8, <1>10 DEF Sorts
<1>12. q \in [1..Cardinality(T) -> T]
  BY <1>3, <1>4, <1>11
<1>13. ToSet(q) = T
  <2>1. ToSet(q) \subseteq T
    BY <1>12 DEF ToSet
  <2>2. ASSUME NEW y \in T PROVE y \in ToSet(q)
    <3>1. CASE y = x
      <4>1. n \in DOMAIN q /\ q[n] = x
        BY <1>4, <1>8
      <4> QED BY <3>1, <4>1 DEF ToSet
    <3>2. CASE y # x
      <4>1. PICK i \in 1..(n - 1) : p[i] = y
        BY <1>11, <3>2 DEF ToSet
      <4>2. i \in DOMAIN q /\ q[i] = y
        BY <1>4, <4>1
      <4> QED BY <4>2 DEF ToSet
    <3> QED BY <3>1, <3>2
  <2> QED BY <2>1, <2>2
<1>14. ASSUME NEW i \in DOMAIN q, NEW j \in DOMAIN q, i < j PROVE <<q[i], q[j]>> \in R
  <2>1. i \in 1..(n - 1) /\ q[i] = p[i] /\ p[i] \in U
    BY <1>4, <1>11, <1>14
  <2>2. CASE j = n
    BY <1>7, <2>1, <2>2
  <2>3. CASE j # n
    <3>1. j \in 1..(n - 1) /\ q[j] = p[j] /\ i < j
      BY <1>4, <1>14, <2>3
    <3>2. <<p[i], p[j]>> \in R
      BY <1>10, <1>11, <2>1, <3>1 DEF Sorts
    <3> QED BY <2>1, <3>1, <3>2
  <2> QED BY <2>2, <2>3
<1> HIDE DEF q
<1>15. Sorts(q, R, T)
  BY <1>12, <1>13, <1>14 DEF Sorts
<1> QED BY <1>3, <1>15
-----------------------------------------------------------------------------
\* Adjacent fragments.

\* A chunk is known by its id.
Distinct(hits) == \A c, d \in hits : c.id = d.id => c = d

\* The fragments of a section are its hits, sorted.
LEMMA FragmentsAre ==
  ASSUME NEW hits \in SUBSET Chunks, IsFiniteSet(hits), Distinct(hits), NEW c
  PROVE  LET S == InSection(hits, c)
             q == Fragments(hits, c)
         IN  /\ Cardinality(S) \in Nat /\ q \in [1..Cardinality(S) -> S] /\ ToSet(q) = S
             /\ \A m, n \in DOMAIN q : m < n => FragmentBefore(q[m], q[n])
<1> DEFINE S == InSection(hits, c)
           R == {p \in S \X S : FragmentBefore(p[1], p[2])}
<1>1. S \in SUBSET hits /\ IsFiniteSet(S)
  <2>1. S \in SUBSET hits
    BY DEF InSection
  <2> QED BY <2>1, FS_Subset
<1>2. \A x \in S : x.index \in Nat /\ x.id \in Nat
  BY <1>1, SpecificationAssumption
<1>3. \A x, y \in S : x # y => x.id # y.id
  BY <1>1 DEF Distinct
<1>4. \A x, y \in S : <<x, y>> \in R <=> FragmentBefore(x, y)
  OBVIOUS
<1> HIDE DEF S, R
<1>5. Orders(R, S)
  BY <1>2, <1>3, <1>4 DEF Orders, FragmentBefore
<1>6. PICK q : Sorts(q, R, S)
  BY <1>1, <1>5, SortExists
<1>7. /\ q \in [1..Cardinality(S) -> S] /\ ToSet(q) = S
      /\ \A m, n \in DOMAIN q : m < n => FragmentBefore(q[m], q[n])
  BY <1>4, <1>6 DEF Sorts
<1>8. Cardinality(S) \in Nat
  BY <1>1, FS_CardinalityType
<1>9. Fragments(hits, c) = CHOOSE o \in [1..Cardinality(S) -> S] :
        ToSet(o) = S /\ \A m, n \in DOMAIN o : m < n => FragmentBefore(o[m], o[n])
  BY DEF Fragments, Ordered, S
<1>10. /\ Fragments(hits, c) \in [1..Cardinality(S) -> S] /\ ToSet(Fragments(hits, c)) = S
       /\ \A m, n \in DOMAIN Fragments(hits, c) :
             m < n => FragmentBefore(Fragments(hits, c)[m], Fragments(hits, c)[n])
  BY <1>7, <1>9
<1> QED BY <1>8, <1>10 DEF S

\* A run ends before the next start, or with the sequence.
LEMMA RunEndIs ==
  ASSUME NEW n \in Nat, NEW S, NEW q \in [1..n -> S], NEW b \in Starts(q)
  PROVE  /\ b \in 1..n /\ RunEnd(q, b) \in b..n
         /\ \A k \in (b + 1)..RunEnd(q, b) : k \notin Starts(q)
         /\ RunEnd(q, b) = n \/ RunEnd(q, b) + 1 \in Starts(q)
<1>1. b \in 1..n /\ Len(q) = n
  BY DEF Starts
<1> DEFINE Stops == {e \in b..n : e = n \/ e + 1 \in Starts(q)}
<1>2. Stops \in SUBSET Nat /\ n \in Stops
  BY <1>1
<1>3. PICK e \in Stops : \A k \in Stops : e <= k
  BY <1>2, NatMin
<1>4. ASSUME NEW k \in (b + 1)..e PROVE k \notin Starts(q)
  <2> SUFFICES ASSUME k \in Starts(q) PROVE FALSE
    OBVIOUS
  <2>1. k - 1 \in b..n /\ (k - 1) + 1 \in Starts(q)
    BY <1>1, <1>3, <1>4
  <2>2. e <= k - 1
    BY <1>3, <2>1
  <2> QED BY <1>1, <1>3, <1>4, <2>2
<1>5. e \in b..n /\ (e = n \/ e + 1 \in Starts(q))
  BY <1>3
<1> HIDE DEF Stops
<1> QED BY <1>1, <1>4, <1>5 DEF RunEnd

\* The runs of a sequence: they are parts of it without a gap.
LEMMA RunsAre ==
  ASSUME NEW n \in Nat, NEW S, NEW q \in [1..n -> S], NEW g \in Runs(q)
  PROVE  \E b \in Starts(q) :
           /\ g = SubSeq(q, b, RunEnd(q, b))
           /\ g \in Seq(S) /\ Len(g) = RunEnd(q, b) - b + 1 /\ Len(g) >= 1
           /\ \A k \in 1..Len(g) : g[k] = q[b + k - 1] /\ b + k - 1 \in b..RunEnd(q, b)
           /\ \A k \in 1..(Len(g) - 1) : Adjacent(g[k], g[k + 1])
<1>1. PICK b \in Starts(q) : g = SubSeq(q, b, RunEnd(q, b))
  BY DEF Runs
<1> DEFINE e == RunEnd(q, b)
<1>2. /\ b \in 1..n /\ e \in b..n
      /\ \A k \in (b + 1)..e : k \notin Starts(q)
  BY RunEndIs
<1> HIDE DEF e
<1>3. q \in Seq(S) /\ Len(q) = n
  OBVIOUS
<1>4. g \in Seq(S) /\ Len(g) = e - b + 1 /\ \A k \in 1..Len(g) : g[k] = q[b + k - 1]
  BY <1>1, <1>2, <1>3 DEF e
<1>5. \A k \in 1..Len(g) : b + k - 1 \in b..e
  BY <1>2, <1>4
<1>6. ASSUME NEW k \in 1..(Len(g) - 1) PROVE Adjacent(g[k], g[k + 1])
  <2>1. b + k \in (b + 1)..e /\ b + k \in DOMAIN q /\ b + k # 1
    BY <1>2, <1>4, <1>6
  <2>2. Adjacent(q[b + k - 1], q[b + k])
    BY <1>2, <2>1 DEF Starts
  <2>3. g[k] = q[b + k - 1] /\ g[k + 1] = q[b + k]
    BY <1>2, <1>4, <1>6
  <2> QED BY <2>2, <2>3
<1> QED BY <1>1, <1>2, <1>4, <1>5, <1>6 DEF e

\* Every place of a sequence is in a run of it.
LEMMA RunsCover ==
  ASSUME NEW n \in Nat, NEW S, NEW q \in [1..n -> S], NEW k \in 1..n
  PROVE  \E g \in Runs(q) : q[k] \in ToSet(g)
<1> DEFINE Back == {m \in 0..k : k - m \in Starts(q)}
<1>1. 1 \in Starts(q)
  BY DEF Starts
<1>2. Back \in SUBSET Nat /\ k - 1 \in Back
  BY <1>1
<1>3. PICK m \in Back : \A j \in Back : m <= j
  BY <1>2, NatMin
<1> DEFINE b == k - m
           e == RunEnd(q, b)
<1>4. b \in Starts(q) /\ m \in 0..k
  BY <1>3
<1>5. /\ b \in 1..n /\ e \in b..n
      /\ e = n \/ e + 1 \in Starts(q)
  BY <1>4, RunEndIs
<1>6. e >= k
  <2> SUFFICES ASSUME e < k PROVE FALSE
    BY <1>5
  <2>1. e + 1 \in Starts(q)
    BY <1>5
  <2>2. k - (e + 1) \in 0..k /\ k - (k - (e + 1)) = e + 1
    BY <1>5
  <2>3. m <= k - (e + 1)
    BY <1>3, <2>1, <2>2
  <2> QED BY <1>4, <1>5, <2>3
<1> HIDE DEF e, Back
<1>7. SubSeq(q, b, e) \in Runs(q)
  BY <1>4 DEF Runs, e
<1>8. k - b + 1 \in 1..(e - b + 1) /\ b + (k - b + 1) - 1 = k
  BY <1>4, <1>5, <1>6
<1>9. q \in Seq(S) /\ Len(q) = n
  OBVIOUS
<1> HIDE DEF b
<1>10. /\ SubSeq(q, b, e) \in Seq(S) /\ Len(SubSeq(q, b, e)) = e - b + 1
       /\ SubSeq(q, b, e)[k - b + 1] = q[k]
  BY <1>5, <1>8, <1>9
<1>11. k - b + 1 \in DOMAIN SubSeq(q, b, e)
  BY <1>8, <1>10
<1>12. q[k] \in ToSet(SubSeq(q, b, e))
  BY <1>10, <1>11 DEF ToSet
<1> QED BY <1>7, <1>12

\* Different runs of a sequence without repetitions have nothing in common.
LEMMA RunsApart ==
  ASSUME NEW n \in Nat, NEW S, NEW q \in [1..n -> S],
         \A j, k \in 1..n : j < k => q[j] # q[k],
         NEW g \in Runs(q), NEW h \in Runs(q), NEW c, c \in ToSet(g), c \in ToSet(h)
  PROVE  g = h
<1>1. PICK b \in Starts(q) :
        /\ g = SubSeq(q, b, RunEnd(q, b)) /\ g \in Seq(S)
        /\ \A k \in 1..Len(g) : g[k] = q[b + k - 1] /\ b + k - 1 \in b..RunEnd(q, b)
  BY RunsAre
<1>2. PICK d \in Starts(q) :
        /\ h = SubSeq(q, d, RunEnd(q, d)) /\ h \in Seq(S)
        /\ \A k \in 1..Len(h) : h[k] = q[d + k - 1] /\ d + k - 1 \in d..RunEnd(q, d)
  BY RunsAre
<1>3. /\ b \in 1..n /\ RunEnd(q, b) \in b..n
      /\ \A k \in (b + 1)..RunEnd(q, b) : k \notin Starts(q)
  BY RunEndIs
<1>4. /\ d \in 1..n /\ RunEnd(q, d) \in d..n
      /\ \A k \in (d + 1)..RunEnd(q, d) : k \notin Starts(q)
  BY RunEndIs
<1>5. PICK j \in b..RunEnd(q, b) : q[j] = c
  <2>1. PICK i \in 1..Len(g) : g[i] = c
    BY <1>1 DEF ToSet
  <2> QED BY <1>1, <2>1
<1>6. PICK k \in d..RunEnd(q, d) : q[k] = c
  <2>1. PICK i \in 1..Len(h) : h[i] = c
    BY <1>2 DEF ToSet
  <2> QED BY <1>2, <2>1
<1>7. j = k
  BY <1>3, <1>4, <1>5, <1>6
<1>8. ~ (b < d)
  BY <1>3, <1>4, <1>5, <1>6, <1>7
<1>9. ~ (d < b)
  BY <1>3, <1>4, <1>5, <1>6, <1>7
<1>10. b = d
  BY <1>3, <1>4, <1>8, <1>9
<1> QED BY <1>1, <1>2, <1>10

\* A group of fragments as fusion builds it from the hits.
IsGroup(g, hits) ==
    /\ g \in Seq(hits) /\ Len(g) >= 1
    /\ \A k \in 1..(Len(g) - 1) : g[k + 1].index = g[k].index + 1 /\ g[k + 1].section = g[k].section

\* Merging neither loses nor doubles a hit, and mixes no sections.
LEMMA MergedAre ==
  ASSUME NEW hits \in SUBSET Chunks, IsFiniteSet(hits), Distinct(hits)
  PROVE  /\ \A g \in MergeAdjacentFragments(hits) : IsGroup(g, hits)
         /\ \A g, h \in MergeAdjacentFragments(hits) : ToSet(g) \cap ToSet(h) # {} => g = h
         /\ \A c \in hits : \E g \in MergeAdjacentFragments(hits) : c \in ToSet(g)
<1> DEFINE S(c) == InSection(hits, c)
           q(c) == Fragments(hits, c)
           N(c) == Cardinality(S(c))
<1>1. \A c : /\ N(c) \in Nat /\ q(c) \in [1..N(c) -> S(c)] /\ ToSet(q(c)) = S(c)
             /\ \A m, n \in DOMAIN q(c) : m < n => FragmentBefore(q(c)[m], q(c)[n])
  BY FragmentsAre
<1>2. \A c : S(c) \in SUBSET hits
  BY DEF InSection
<1>3. \A c : \A m, n \in 1..N(c) : m < n => q(c)[m] # q(c)[n]
  <2> SUFFICES ASSUME NEW c, NEW m \in 1..N(c), NEW n \in 1..N(c), m < n, q(c)[m] = q(c)[n]
               PROVE  FALSE
    OBVIOUS
  <2>1. FragmentBefore(q(c)[m], q(c)[m])
    <3>1. m \in DOMAIN q(c) /\ n \in DOMAIN q(c)
      BY <1>1
    <3>2. FragmentBefore(q(c)[m], q(c)[n])
      BY <1>1, <3>1
    <3> QED BY <3>2
  <2>2. q(c)[m] \in Chunks
    BY <1>1, <1>2
  <2>3. q(c)[m].index \in Nat /\ q(c)[m].id \in Nat
    BY <2>2, SpecificationAssumption
  <2> QED BY <2>1, <2>3 DEF FragmentBefore
<1>4. MergeAdjacentFragments(hits) = UNION {Runs(q(c)) : c \in hits}
  BY DEF MergeAdjacentFragments
<1>5. \A c, d : S(c) \cap S(d) # {} => q(c) = q(d)
  <2> SUFFICES ASSUME NEW c, NEW d, S(c) \cap S(d) # {} PROVE q(c) = q(d)
    OBVIOUS
  <2>1. S(c) = S(d)
    BY DEF InSection
  <2> QED BY <2>1 DEF Fragments
<1>6. \A c, g : g \in Runs(q(c)) => IsGroup(g, S(c))
  <2> SUFFICES ASSUME NEW c, NEW g \in Runs(q(c)) PROVE IsGroup(g, S(c))
    OBVIOUS
  <2>1. /\ g \in Seq(S(c)) /\ Len(g) >= 1
        /\ \A k \in 1..(Len(g) - 1) : Adjacent(g[k], g[k + 1])
    BY <1>1, RunsAre
  <2>2. \A x, y \in S(c) : x.section = y.section
    BY DEF InSection
  <2> HIDE DEF S, q
  <2>3. \A k \in 1..(Len(g) - 1) : g[k] \in S(c) /\ g[k + 1] \in S(c)
    BY <2>1
  <2> QED BY <2>1, <2>2, <2>3 DEF IsGroup, Adjacent
<1>7. ASSUME NEW g \in MergeAdjacentFragments(hits) PROVE IsGroup(g, hits)
  <2>1. PICK c \in hits : g \in Runs(q(c))
    BY <1>4, <1>7
  <2>2. IsGroup(g, S(c)) /\ S(c) \in SUBSET hits
    BY <1>2, <1>6, <2>1
  <2> HIDE DEF S
  <2> QED BY <2>2 DEF IsGroup
<1>8. ASSUME NEW g \in MergeAdjacentFragments(hits), NEW h \in MergeAdjacentFragments(hits),
             NEW x, x \in ToSet(g), x \in ToSet(h)
      PROVE  g = h
  <2>1. PICK c \in hits : g \in Runs(q(c))
    BY <1>4, <1>8
  <2>2. PICK d \in hits : h \in Runs(q(d))
    BY <1>4, <1>8
  <2>3. IsGroup(g, S(c)) /\ IsGroup(h, S(d))
    BY <1>6, <2>1, <2>2
  <2>4. x \in S(c) /\ x \in S(d)
    <3> HIDE DEF S
    <3> QED BY <1>8, <2>3 DEF IsGroup, ToSet
  <2>5. q(c) = q(d)
    BY <1>5, <2>4
  <2>6. /\ N(c) \in Nat /\ q(c) \in [1..N(c) -> S(c)]
        /\ \A j, k \in 1..N(c) : j < k => q(c)[j] # q(c)[k]
    BY <1>1, <1>3
  <2> HIDE DEF S, q, N
  <2> QED BY <1>8, <2>1, <2>2, <2>5, <2>6, RunsApart
<1>9. ASSUME NEW c \in hits PROVE \E g \in MergeAdjacentFragments(hits) : c \in ToSet(g)
  <2>1. c \in S(c)
    BY DEF InSection
  <2>2. PICK k \in 1..N(c) : q(c)[k] = c
    BY <1>1, <2>1 DEF ToSet
  <2>3. N(c) \in Nat /\ q(c) \in [1..N(c) -> S(c)]
    BY <1>1
  <2>4. PICK g \in Runs(q(c)) : q(c)[k] \in ToSet(g)
    <3> HIDE DEF S, q, N
    <3> QED BY <2>2, <2>3, RunsCover
  <2> QED BY <1>4, <2>2, <2>4
<1> QED BY <1>7, <1>8, <1>9
-----------------------------------------------------------------------------
\* The order of the fused results.

\* Comparing fractions by their products is transitive.
LEMMA Grows == ASSUME NEW x \in Nat, NEW y \in Nat, NEW k \in Nat \ {0}
               PROVE  x * k \in Nat /\ (x > y <=> x * k > y * k) /\ (x = y <=> x * k = y * k)
OBVIOUS

LEMMA Products == ASSUME NEW x \in Nat, NEW y \in Nat, NEW z \in Nat
                  PROVE  (x * y) * z = (x * z) * y /\ x * y \in Nat
OBVIOUS

LEMMA Fractions ==
  ASSUME NEW a \in Nat, NEW b \in Nat \ {0}, NEW c \in Nat, NEW d \in Nat \ {0},
         NEW e \in Nat, NEW f \in Nat \ {0}, a * d >= c * b, c * f >= e * d
  PROVE  /\ a * f >= e * b
         /\ a * d > c * b \/ c * f > e * d => a * f > e * b
         /\ a * d = c * b /\ c * f = e * d => a * f = e * b
<1>1. /\ (a * d) * f = (a * f) * d /\ (c * b) * f = (c * f) * b
      /\ (e * d) * b = (e * b) * d
  BY Products
<1>2. /\ a * d \in Nat /\ c * b \in Nat /\ c * f \in Nat /\ e * d \in Nat
      /\ a * f \in Nat /\ e * b \in Nat
  BY Products
<1> DEFINE p == (a * d) * f
           q == (c * b) * f
           r == (c * f) * b
           t == (e * d) * b
           u == (a * f) * d
           w == (e * b) * d
<1>3. /\ p \in Nat /\ q \in Nat /\ (a * d > c * b <=> p > q) /\ (a * d = c * b <=> p = q)
  BY <1>2, Grows
<1>4. /\ r \in Nat /\ t \in Nat /\ (c * f > e * d <=> r > t) /\ (c * f = e * d <=> r = t)
  BY <1>2, Grows
<1>5. /\ u \in Nat /\ w \in Nat /\ (a * f > e * b <=> u > w) /\ (a * f = e * b <=> u = w)
  BY <1>2, Grows
<1>6. p = u /\ q = r /\ t = w
  BY <1>1
<1> DEFINE A == a * d
           B == c * b
           C == c * f
           D == e * d
           E == a * f
           F == e * b
<1>7. A \in Nat /\ B \in Nat /\ C \in Nat /\ D \in Nat /\ E \in Nat /\ F \in Nat
  BY <1>2
<1>8. A >= B /\ C >= D
  OBVIOUS
<1> HIDE DEF p, q, r, t, u, w, A, B, C, D, E, F
<1>9. E >= F /\ (A > B \/ C > D => E > F) /\ (A = B /\ C = D => E = F)
  <2>1. (A > B <=> p > q) /\ (A = B <=> p = q)
    BY <1>3 DEF A, B
  <2>2. (C > D <=> r > t) /\ (C = D <=> r = t)
    BY <1>4 DEF C, D
  <2>3. (E > F <=> u > w) /\ (E = F <=> u = w)
    BY <1>5 DEF E, F
  <2> QED BY <1>3, <1>4, <1>5, <1>6, <1>7, <1>8, <2>1, <2>2, <2>3
<1> QED BY <1>9 DEF A, B, C, D, E, F

\* The place of a chunk in a channel is a number, and so is the best of some.
LEMMA RankIs == ASSUME NEW S, NEW q \in Seq(S), NEW c PROVE Rank(q, c) \in Nat
<1> DEFINE I == {i \in 1..Len(q) : q[i].id = c.id}
<1>1. Rank(q, c) = IF I # {} THEN CHOOSE x \in I : \A y \in I : x <= y ELSE 0
  BY DEF Rank, SelectInSeq, Min
<1>2. I \in SUBSET Nat
  OBVIOUS
<1> HIDE DEF I
<1>3. I # {} => \E x \in I : \A y \in I : x <= y
  BY <1>2, NatMin
<1> DEFINE m == CHOOSE x \in I : \A y \in I : x <= y
<1>4. I # {} => m \in I
  BY <1>3, Zenon
<1>5. Rank(q, c) = IF I # {} THEN m ELSE 0
  BY <1>1
<1>6. CASE I # {}
  <2>1. m \in Nat
    BY <1>2, <1>4, <1>6
  <2>2. Rank(q, c) = m
    BY <1>5, <1>6, Zenon
  <2> QED BY <2>1, <2>2
<1>7. CASE I = {}
  <2>1. Rank(q, c) = 0
    BY <1>5, <1>7, Zenon
  <2> QED BY <2>1
<1> QED BY <1>6, <1>7

LEMMA LowestIs == ASSUME NEW ranks \in SUBSET Nat PROVE MinimumOptional(ranks) \in Nat
<1> DEFINE I == ranks \ {0}
<1>1. I \in SUBSET Nat
  OBVIOUS
<1>2. I # {} => \E r \in I : \A k \in I : r <= k
  BY <1>1, NatMin
<1> HIDE DEF I
<1>3. MinimumOptional(ranks) = IF I = {} THEN 0 ELSE CHOOSE r \in I : \A k \in I : r <= k
  BY DEF MinimumOptional, I
<1> DEFINE m == CHOOSE r \in I : \A k \in I : r <= k
<1>4. I # {} => m \in I
  BY <1>2, Zenon
<1>5. MinimumOptional(ranks) = IF I = {} THEN 0 ELSE m
  BY <1>3
<1>6. CASE I # {}
  <2>1. m \in Nat
    BY <1>1, <1>4, <1>6
  <2>2. MinimumOptional(ranks) = m
    BY <1>5, <1>6, Zenon
  <2> QED BY <2>1, <2>2
<1>7. CASE I = {}
  <2>1. MinimumOptional(ranks) = 0
    BY <1>5, <1>7, Zenon
  <2> QED BY <2>1
<1> QED BY <1>6, <1>7

\* A fused result: a group with its two ranks.
IsResult(r, hits) ==
    /\ IsGroup(r.chunks, hits)
    /\ r.keyword_rank \in Nat /\ r.vector_rank \in Nat

LEMMA ResultIs ==
  ASSUME NEW hits, NEW S, NEW keyword \in Seq(S), NEW vector \in Seq(S),
         NEW g, IsGroup(g, hits)
  PROVE  LET r == MergeResultGroup(g, keyword, vector)
         IN  r.chunks = g /\ IsResult(r, hits)
<1>1. {Rank(keyword, c) : c \in ToSet(g)} \in SUBSET Nat
  BY RankIs
<1>2. {Rank(vector, c) : c \in ToSet(g)} \in SUBSET Nat
  BY RankIs
<1> QED BY <1>1, <1>2, LowestIs DEF MergeResultGroup, IsResult

\* The sort key after the score, and its order written out.
Key(r) == <<MinimumOptional({r.keyword_rank, r.vector_rank}), r.chunks[1].document,
            r.chunks[1].index, r.chunks[1].id>>
KeyLess(x, y) ==
    \/ x[1] < y[1]
    \/ x[1] = y[1] /\ x[2] < y[2]
    \/ x[1] = y[1] /\ x[2] = y[2] /\ x[3] < y[3]
    \/ x[1] = y[1] /\ x[2] = y[2] /\ x[3] = y[3] /\ x[4] < y[4]

LEMMA KeyLessIs ==
  ASSUME NEW x, NEW y, \A n \in 1..4 : x[n] \in Nat /\ y[n] \in Nat
  PROVE  LET differ == {n \in 1..4 : x[n] # y[n]}
         IN  /\ differ # {}
             /\ LET n == CHOOSE m \in differ : \A k \in differ : m <= k IN x[n] < y[n]
         <=> KeyLess(x, y)
<1> DEFINE differ == {n \in 1..4 : x[n] # y[n]}
           n == CHOOSE m \in differ : \A k \in differ : m <= k
<1>1. differ \in SUBSET Nat /\ (differ # {} => \E m \in differ : \A k \in differ : m <= k)
  <2>1. differ \in SUBSET Nat
    OBVIOUS
  <2> QED BY <2>1, NatMin
<1>2. differ # {} => n \in differ /\ \A k \in differ : n <= k
  <2> HIDE DEF differ
  <2> QED BY <1>1, Zenon
<1> HIDE DEF n
<1>3. CASE differ = {}
  <2>1. \A k \in {1, 2, 3, 4} : x[k] = y[k]
    BY <1>3
  <2>2. ~ KeyLess(x, y)
    BY <2>1 DEF KeyLess
  <2> QED BY <1>3, <2>2
<1>4. CASE differ # {}
  <2>1. n \in {1, 2, 3, 4} /\ x[n] # y[n]
    BY <1>2, <1>4
  <2>2. \A k \in {1, 2, 3, 4} : k < n => x[k] = y[k]
    <3> SUFFICES ASSUME NEW k \in {1, 2, 3, 4}, k < n, x[k] # y[k] PROVE FALSE
      OBVIOUS
    <3>1. k \in differ
      OBVIOUS
    <3> QED BY <1>2, <1>4, <2>1, <3>1
  <2>3. x[n] < y[n] <=> KeyLess(x, y)
    <3>1. /\ x[1] \in Nat /\ x[2] \in Nat /\ x[3] \in Nat /\ x[4] \in Nat
          /\ y[1] \in Nat /\ y[2] \in Nat /\ y[3] \in Nat /\ y[4] \in Nat
      OBVIOUS
    <3>2. CASE n = 1
      BY <2>1, <3>1, <3>2 DEF KeyLess
    <3>3. CASE n = 2
      <4>1. x[1] = y[1]
        BY <2>2, <3>3
      <4> QED BY <2>1, <3>1, <3>3, <4>1 DEF KeyLess
    <3>4. CASE n = 3
      <4>1. x[1] = y[1] /\ x[2] = y[2]
        BY <2>2, <3>4
      <4> QED BY <2>1, <3>1, <3>4, <4>1 DEF KeyLess
    <3>5. CASE n = 4
      <4>1. x[1] = y[1] /\ x[2] = y[2] /\ x[3] = y[3]
        BY <2>2, <3>5
      <4> QED BY <2>1, <3>1, <3>5, <4>1 DEF KeyLess
    <3> QED BY <2>1, <3>2, <3>3, <3>4, <3>5
  <2> QED BY <1>4, <2>3 DEF n
<1> QED BY <1>3, <1>4

\* The numbers a result is sorted by.
LEMMA KeyIs ==
  ASSUME NEW hits \in SUBSET Chunks, NEW r, IsResult(r, hits)
  PROVE  /\ r.chunks[1] \in hits
         /\ \A n \in 1..4 : Key(r)[n] \in Nat
         /\ Key(r)[4] = r.chunks[1].id
         /\ Numerator(r) \in Nat /\ Denominator(r) \in Nat \ {0}
<1>1. r.keyword_rank \in Nat /\ r.vector_rank \in Nat /\ r.chunks \in Seq(hits) /\ Len(r.chunks) >= 1
  BY DEF IsResult, IsGroup
<1>2. r.chunks[1] \in hits
  BY <1>1
<1>3. r.chunks[1].id \in Nat /\ r.chunks[1].document \in Nat /\ r.chunks[1].index \in Nat
  BY <1>2, SpecificationAssumption
<1>4. MinimumOptional({r.keyword_rank, r.vector_rank}) \in Nat
  BY <1>1, LowestIs
<1>5. \A n \in 1..4 : Key(r)[n] \in Nat
  BY <1>3, <1>4 DEF Key
<1>6. Numerator(r) \in Nat
  BY <1>1 DEF Numerator
<1>7. Denominator(r) \in Nat \ {0}
  <2> DEFINE x == 60 + r.keyword_rank
             y == 60 + r.vector_rank
  <2>1. x \in Nat \ {0} /\ y \in Nat \ {0}
    BY <1>1
  <2> HIDE DEF x, y
  <2>2. x * y \in Nat \ {0}
    BY <2>1
  <2> QED BY <2>2 DEF Denominator, x, y
<1> QED BY <1>2, <1>5, <1>6, <1>7 DEF Key

LEMMA BeforeIs ==
  ASSUME NEW hits \in SUBSET Chunks, NEW x, NEW y, IsResult(x, hits), IsResult(y, hits)
  PROVE  Before(x, y) <=>
           \/ Numerator(x) * Denominator(y) > Numerator(y) * Denominator(x)
           \/ /\ Numerator(x) * Denominator(y) = Numerator(y) * Denominator(x)
              /\ KeyLess(Key(x), Key(y))
<1>1. \A n \in 1..4 : Key(x)[n] \in Nat /\ Key(y)[n] \in Nat
  BY KeyIs
<1>2. LET differ == {n \in 1..4 : Key(x)[n] # Key(y)[n]}
      IN  /\ differ # {}
          /\ LET n == CHOOSE m \in differ : \A k \in differ : m <= k IN Key(x)[n] < Key(y)[n]
      <=> KeyLess(Key(x), Key(y))
  BY <1>1, KeyLessIs
<1> QED BY <1>2, Zenon DEF Before, Key

\* _result_sort_key: results that share no chunk are strictly and totally
\* ordered, so that sorted() and the cut at top_k leave nothing to chance.
THEOREM RankingIsTotal ==
  ASSUME NEW hits \in SUBSET Chunks, Distinct(hits), NEW T,
         \A r \in T : IsResult(r, hits),
         \A r, x \in T : ToSet(r.chunks) \cap ToSet(x.chunks) # {} => r = x
  PROVE  /\ Orders({p \in T \X T : Before(p[1], p[2])}, T)
         /\ \A r \in T : ~ Before(r, r)
<1> DEFINE R == {p \in T \X T : Before(p[1], p[2])}
           N(r) == Numerator(r)
           D(r) == Denominator(r)
<1>1. \A x, y \in T : <<x, y>> \in R <=>
           \/ N(x) * D(y) > N(y) * D(x)
           \/ N(x) * D(y) = N(y) * D(x) /\ KeyLess(Key(x), Key(y))
  BY BeforeIs
<1>2. \A x \in T : /\ x.chunks[1] \in hits /\ \A n \in 1..4 : Key(x)[n] \in Nat
                   /\ Key(x)[4] = x.chunks[1].id /\ N(x) \in Nat /\ D(x) \in Nat \ {0}
  BY KeyIs
<1>3. \A x, y \in T : N(x) * D(y) \in Nat
  BY <1>2, Products
<1>4. \A x \in T : /\ Key(x)[1] \in Nat /\ Key(x)[2] \in Nat /\ Key(x)[3] \in Nat /\ Key(x)[4] \in Nat
  BY <1>2
<1>5. \A x, y \in T : x # y => Key(x)[4] # Key(y)[4]
  <2> SUFFICES ASSUME NEW x \in T, NEW y \in T, Key(x)[4] = Key(y)[4] PROVE x = y
    OBVIOUS
  <2>1. x.chunks[1] = y.chunks[1]
    BY <1>2 DEF Distinct
  <2>2. x.chunks[1] \in ToSet(x.chunks) /\ y.chunks[1] \in ToSet(y.chunks)
    BY DEF IsResult, IsGroup, ToSet
  <2> QED BY <2>1, <2>2
<1>6. \A x, y \in T : x # y => KeyLess(Key(x), Key(y)) \/ KeyLess(Key(y), Key(x))
  BY <1>4, <1>5 DEF KeyLess
<1>7. \A x, y, z \in T : KeyLess(Key(x), Key(y)) /\ KeyLess(Key(y), Key(z)) => KeyLess(Key(x), Key(z))
  BY <1>4 DEF KeyLess
<1>8. \A x \in T : ~ KeyLess(Key(x), Key(x))
  BY <1>4 DEF KeyLess
<1>9. \A x, y, z \in T :
        N(x) * D(y) >= N(y) * D(x) /\ N(y) * D(z) >= N(z) * D(y) =>
            /\ N(x) * D(z) >= N(z) * D(x)
            /\ N(x) * D(y) > N(y) * D(x) \/ N(y) * D(z) > N(z) * D(y) => N(x) * D(z) > N(z) * D(x)
            /\ N(x) * D(y) = N(y) * D(x) /\ N(y) * D(z) = N(z) * D(y) => N(x) * D(z) = N(z) * D(x)
  BY <1>2, Fractions
<1> DEFINE P(x, y) == N(x) * D(y)
<1> HIDE DEF N, D, R
<1>10. \A x, y \in T : P(x, y) \in Nat
  BY <1>3
<1>11. \A x, y \in T : <<x, y>> \in R <=>
           \/ P(x, y) > P(y, x)
           \/ P(x, y) = P(y, x) /\ KeyLess(Key(x), Key(y))
  BY <1>1
<1>12. \A x, y, z \in T :
        P(x, y) >= P(y, x) /\ P(y, z) >= P(z, y) =>
            /\ P(x, z) >= P(z, x)
            /\ P(x, y) > P(y, x) \/ P(y, z) > P(z, y) => P(x, z) > P(z, x)
            /\ P(x, y) = P(y, x) /\ P(y, z) = P(z, y) => P(x, z) = P(z, x)
  BY <1>9
<1> HIDE DEF P
<1>13. \A x, y \in T : x # y => <<x, y>> \in R \/ <<y, x>> \in R
  BY <1>6, <1>10, <1>11
<1>14. ASSUME NEW x \in T, NEW y \in T, NEW z \in T, <<x, y>> \in R, <<y, z>> \in R
       PROVE  <<x, z>> \in R
  <2>1. P(x, y) >= P(y, x) /\ P(y, z) >= P(z, y)
    BY <1>10, <1>11, <1>14
  <2>2. CASE P(x, y) > P(y, x) \/ P(y, z) > P(z, y)
    BY <1>11, <1>12, <2>1, <2>2
  <2>3. CASE P(x, y) = P(y, x) /\ P(y, z) = P(z, y)
    <3>1. KeyLess(Key(x), Key(y)) /\ KeyLess(Key(y), Key(z))
      BY <1>10, <1>11, <1>14, <2>3
    <3>2. P(x, z) = P(z, x)
      BY <1>12, <2>1, <2>3
    <3> QED BY <1>7, <1>11, <3>1, <3>2
  <2> QED BY <1>10, <2>1, <2>2, <2>3
<1>15. \A x \in T : <<x, x>> \notin R
  BY <1>8, <1>10, <1>11
<1> QED BY <1>13, <1>14, <1>15 DEF Orders, R

\* The hits of a channel are finitely many.
LEMMA HitsFinite == ASSUME NEW S, NEW q \in Seq(S) PROVE IsFiniteSet(ToSet(q)) /\ ToSet(q) \in SUBSET S
<1>1. q \in [1..Len(q) -> S] /\ Len(q) \in Nat
  OBVIOUS
<1>2. ToSet(q) = {q[i] : i \in 1..Len(q)}
  BY DEF ToSet
<1>3. q \in Surjection(1..Len(q), ToSet(q))
  BY <1>1, <1>2 DEF Surjection
<1>4. IsFiniteSet(1..Len(q))
  BY <1>1, FS_Interval
<1> QED BY <1>1, <1>2, <1>3, <1>4, FS_Surjection

\* fuse_hybrid_results returns results over the hits that share nothing, each an
\* unbroken run of one section, and all of them unless the list is full.
THEOREM FusionPartitions ==
  ASSUME NEW keyword \in Seq(Chunks), NEW vector \in Seq(Chunks),
         Distinct(ToSet(keyword) \cup ToSet(vector))
  PROVE  LET found == FuseHybridResults(keyword, vector)
             hits == ToSet(keyword) \cup ToSet(vector)
         IN  /\ Len(found) \in Nat /\ DOMAIN found = 1..Len(found)
             /\ \A n \in DOMAIN found : IsResult(found[n], hits)
             /\ \A m, n \in DOMAIN found :
                   m # n => ToSet(found[m].chunks) \cap ToSet(found[n].chunks) = {}
             /\ Len(found) < TopK =>
                   \A c \in hits : \E r \in ToSet(found) : c \in ToSet(r.chunks)
<1> DEFINE hits == ToSet(keyword) \cup ToSet(vector)
           groups == MergeAdjacentFragments(hits)
           T == {MergeResultGroup(g, keyword, vector) : g \in groups}
<1>1. hits \in SUBSET Chunks /\ IsFiniteSet(hits) /\ Distinct(hits)
  BY HitsFinite, FS_Union
<1>2. /\ \A g \in groups : IsGroup(g, hits)
      /\ \A g, h \in groups : ToSet(g) \cap ToSet(h) # {} => g = h
      /\ \A c \in hits : \E g \in groups : c \in ToSet(g)
  BY <1>1, MergedAre
<1> HIDE DEF hits, groups
<1>3. \A g \in groups : LET r == MergeResultGroup(g, keyword, vector)
                        IN  r.chunks = g /\ IsResult(r, hits)
  BY <1>2, ResultIs
<1>4. \A r \in T : IsResult(r, hits) /\ r.chunks \in groups /\ r = MergeResultGroup(r.chunks, keyword, vector)
  BY <1>3
<1>5. \A r, x \in T : ToSet(r.chunks) \cap ToSet(x.chunks) # {} => r = x
  BY <1>2, <1>4
<1>6. \A c \in hits : \E r \in T : c \in ToSet(r.chunks)
  BY <1>2, <1>3
<1> HIDE DEF T
<1>7. IsFiniteSet(T)
  <2> DEFINE f == [c \in hits |-> CHOOSE r \in T : c \in ToSet(r.chunks)]
  <2>1. \A c \in hits : f[c] \in T /\ c \in ToSet(f[c].chunks)
    BY <1>6, Zenon
  <2>2. ASSUME NEW r \in T PROVE \E c \in hits : f[c] = r
    <3>1. r.chunks[1] \in hits /\ r.chunks[1] \in ToSet(r.chunks)
      BY <1>4 DEF IsResult, IsGroup, ToSet
    <3>2. f[r.chunks[1]] = r
      <4> HIDE DEF f
      <4> QED BY <1>5, <2>1, <3>1
    <3> QED BY <3>1, <3>2
  <2>3. f \in [hits -> T]
    <3>1. f = [c \in hits |-> f[c]]
      OBVIOUS
    <3> HIDE DEF f
    <3> QED BY <2>1, <3>1
  <2> HIDE DEF f
  <2>4. f \in Surjection(hits, T)
    BY <2>2, <2>3 DEF Surjection
  <2> QED BY <1>1, <2>4, FS_Surjection
<1> DEFINE R == {p \in T \X T : Before(p[1], p[2])}
<1>8. Orders(R, T) /\ \A r \in T : ~ Before(r, r)
  BY <1>1, <1>4, <1>5, RankingIsTotal
<1>9. \A x, y \in T : <<x, y>> \in R <=> Before(x, y)
  OBVIOUS
<1> HIDE DEF R
<1>10. PICK p : Sorts(p, R, T)
  BY <1>7, <1>8, SortExists
<1>11. /\ p \in [1..Cardinality(T) -> T] /\ ToSet(p) = T
       /\ \A m, n \in DOMAIN p : m < n => Before(p[m], p[n])
  BY <1>9, <1>10 DEF Sorts
<1> DEFINE sorted == Ordered(T, Before)
<1>12. sorted = CHOOSE o \in [1..Cardinality(T) -> T] :
          ToSet(o) = T /\ \A m, n \in DOMAIN o : m < n => Before(o[m], o[n])
  BY DEF Ordered
<1> HIDE DEF sorted
<1>13. /\ sorted \in [1..Cardinality(T) -> T] /\ ToSet(sorted) = T
       /\ \A m, n \in DOMAIN sorted : m < n => Before(sorted[m], sorted[n])
  BY <1>11, <1>12
<1>14. Cardinality(T) \in Nat
  BY <1>7, FS_CardinalityType
<1>15. sorted \in Seq(T) /\ Len(sorted) = Cardinality(T)
  BY <1>13, <1>14
<1> DEFINE found == FuseHybridResults(keyword, vector)
           k == IF Len(sorted) < TopK THEN Len(sorted) ELSE TopK
<1>16. found = SubSeq(sorted, 1, k)
  BY DEF FuseHybridResults, sorted, T, groups, hits
<1>17. k \in Nat /\ k <= Len(sorted) /\ (k < TopK => k = Len(sorted))
  BY <1>14, <1>15, SpecificationAssumption
<1> HIDE DEF found, k
<1>18. found \in Seq(T) /\ Len(found) = k /\ \A n \in 1..k : found[n] = sorted[n]
  BY <1>15, <1>16, <1>17
<1>19. Len(found) \in Nat /\ DOMAIN found = 1..Len(found) /\ \A n \in DOMAIN found : found[n] \in T
  BY <1>17, <1>18
<1>20. \A n \in DOMAIN found : IsResult(found[n], hits)
  BY <1>4, <1>19
<1>21. ASSUME NEW m \in DOMAIN found, NEW n \in DOMAIN found, m # n
       PROVE  ToSet(found[m].chunks) \cap ToSet(found[n].chunks) = {}
  <2>1. m \in DOMAIN sorted /\ n \in DOMAIN sorted /\ found[m] = sorted[m] /\ found[n] = sorted[n]
    BY <1>15, <1>17, <1>18
  <2>2. m < n \/ n < m
    BY <1>19, <1>21
  <2>3. found[m] # found[n]
    BY <1>8, <1>13, <1>19, <2>1, <2>2
  <2> QED BY <1>5, <1>19, <2>3
<1>22. ASSUME Len(found) < TopK, NEW c \in hits
       PROVE  \E r \in ToSet(found) : c \in ToSet(r.chunks)
  <2>1. PICK r \in T : c \in ToSet(r.chunks)
    BY <1>6
  <2>2. PICK n \in DOMAIN sorted : sorted[n] = r
    BY <1>13 DEF ToSet
  <2>3. n \in DOMAIN found /\ found[n] = r
    BY <1>15, <1>17, <1>18, <1>22, <2>2
  <2> QED BY <2>1, <2>3 DEF ToSet
<1> QED BY <1>19, <1>20, <1>21, <1>22 DEF found, hits
-----------------------------------------------------------------------------
\* The call: what a search found stays known, whatever is ingested meanwhile.

\* A catalog names a chunk by its id, and holds only chunks.
LEMMA StoredIs ==
  ASSUME kb \in 0..Len(Catalogs)
  PROVE  Stored \in SUBSET Chunks /\ Distinct(Stored)
<1>1. CASE kb = 0
  BY <1>1 DEF Stored, Distinct
<1>2. CASE kb # 0
  <2>1. Catalogs \in Seq(SUBSET Chunks) /\ kb \in DOMAIN Catalogs
    BY <1>2, SpecificationAssumption
  <2>2. Catalogs[kb] \in SUBSET Chunks /\ Distinct(Catalogs[kb])
    BY <2>1, SpecificationAssumption DEF Distinct
  <2> QED BY <1>2, <2>2 DEF Stored
<1> QED BY <1>1, <1>2

\* What a search returns now is current now.
LEMMA FoundIsCurrent ==
  ASSUME CallIInv, NEW hits, \A c \in ToSet(hits) : c \in Stored /\ MetadataClauses(c)
  PROVE  /\ \A c \in ToSet(hits) : c \in Chunks /\ Current(c)
         /\ Distinct(ToSet(hits))
<1>1. Stored \in SUBSET Chunks /\ Distinct(Stored) /\ kb \in Nat /\ rag.since \in 0..kb
  BY StoredIs DEF CallIInv
<1>2. ASSUME NEW c \in ToSet(hits) PROVE c \in Chunks /\ Current(c)
  <2>1. kb # 0 /\ c \in Catalogs[kb] /\ c.active /\ kb \in rag.since..kb
    BY <1>1 DEF Stored, MetadataClauses
  <2> QED BY <1>1, <2>1 DEF Current, Between
<1> QED BY <1>1, <1>2 DEF Distinct

\* What was current during the call stays so: ingestion only adds a catalog.
LEMMA BetweenGrows ==
  ASSUME NEW a \in Nat, NEW b \in Nat, NEW d \in Nat, d >= b, NEW c, Between(a, b, c)
  PROVE  Between(a, d, c)
BY DEF Between

\* A sorted set of numbers, as the reranking orders the candidates it keeps.
LEMMA RetainedAre ==
  ASSUME NEW n \in Nat, NEW scores \in [1..n -> Nat]
  PROVE  LET order == Ordered(Retained(scores),
                        LAMBDA i, j : scores[i] > scores[j] \/ (scores[i] = scores[j] /\ i < j))
         IN  \A i \in DOMAIN order : order[i] \in 1..n
<1> DEFINE S == Retained(scores)
           R == {p \in S \X S : scores[p[1]] > scores[p[2]] \/ (scores[p[1]] = scores[p[2]] /\ p[1] < p[2])}
<1>1. S \in SUBSET (1..n) /\ IsFiniteSet(1..n)
  BY FS_Interval DEF Retained
<1>2. IsFiniteSet(S)
  BY <1>1, FS_Subset
<1>3. \A i, j \in S : <<i, j>> \in R <=> scores[i] > scores[j] \/ (scores[i] = scores[j] /\ i < j)
  OBVIOUS
<1>4. \A i \in S : i \in Nat /\ scores[i] \in Nat
  BY <1>1
<1> HIDE DEF S, R
<1>5. Orders(R, S)
  <2>1. ASSUME NEW i \in S, NEW j \in S, i # j PROVE <<i, j>> \in R \/ <<j, i>> \in R
    <3>1. i \in Nat /\ j \in Nat /\ scores[i] \in Nat /\ scores[j] \in Nat
      BY <1>4
    <3> QED BY <1>3, <2>1, <3>1
  <2>2. ASSUME NEW i \in S, NEW j \in S, NEW k \in S, <<i, j>> \in R, <<j, k>> \in R
        PROVE  <<i, k>> \in R
    <3>1. /\ i \in Nat /\ j \in Nat /\ k \in Nat
          /\ scores[i] \in Nat /\ scores[j] \in Nat /\ scores[k] \in Nat
      BY <1>4
    <3>2. scores[i] > scores[j] \/ (scores[i] = scores[j] /\ i < j)
      BY <1>3, <2>2
    <3>3. scores[j] > scores[k] \/ (scores[j] = scores[k] /\ j < k)
      BY <1>3, <2>2
    <3>4. scores[i] > scores[k] \/ (scores[i] = scores[k] /\ i < k)
      BY <3>1, <3>2, <3>3
    <3> QED BY <1>3, <3>4
  <2> QED BY <2>1, <2>2 DEF Orders
<1>6. PICK q : Sorts(q, R, S)
  BY <1>2, <1>5, SortExists
<1>7. /\ q \in [1..Cardinality(S) -> S] /\ ToSet(q) = S
      /\ \A i, j \in DOMAIN q : i < j => scores[q[i]] > scores[q[j]] \/ (scores[q[i]] = scores[q[j]] /\ q[i] < q[j])
  BY <1>3, <1>6 DEF Sorts
<1> DEFINE order == Ordered(S, LAMBDA i, j : scores[i] > scores[j] \/ (scores[i] = scores[j] /\ i < j))
<1>8. order = CHOOSE o \in [1..Cardinality(S) -> S] : ToSet(o) = S /\
                 \A i, j \in DOMAIN o : i < j =>
                    scores[o[i]] > scores[o[j]] \/ (scores[o[i]] = scores[o[j]] /\ o[i] < o[j])
  BY DEF Ordered
<1> HIDE DEF order
<1>9. order \in [1..Cardinality(S) -> S]
  BY <1>7, <1>8
<1>10. \A i \in DOMAIN order : order[i] \in 1..n
  BY <1>1, <1>9
<1> QED BY <1>10 DEF order, S

----------------------------------------------------------------------------
\* A call and what the two searches and the reranking have made of the store.
CallInv == CallIInv /\ CitedWasCurrent /\ EachHitOnce

LEMMA NoCallIs ==
  ASSUME kb \in 0..Len(Catalogs), rag = NoCall
  PROVE  CallInv
BY DEF CallInv, CallIInv, CitedWasCurrent, EachHitOnce, NoCall, CallShape, KeywordsKnown, Grounded, ToSet,
       StepsOpen

\* The parts of the invariant that the steps of a call leave alone.
LEMMA CallFrame ==
  ASSUME CallInv, kb' \in kb..Len(Catalogs), rag'.since = rag.since, rag'.keyword = rag.keyword
  PROVE  /\ kb' \in 0..Len(Catalogs) /\ rag'.since \in 0..kb' /\ KeywordsKnown'
         /\ \A c : Between(rag.since, kb, c) => Between(rag'.since, kb', c)
<1>1. kb \in 0..Len(Catalogs) /\ rag.since \in 0..kb /\ KeywordsKnown
  BY DEF CallInv, CallIInv
<1>2. Len(Catalogs) \in Nat
  BY SpecificationAssumption
<1>3. \A c : Between(rag.since, kb, c) => Between(rag'.since, kb', c)
  BY <1>1, <1>2, BetweenGrows
<1> QED BY <1>1, <1>2, <1>3 DEF KeywordsKnown, Current

\* A step of the call that finds nothing new.
LEMMA CallGoesOn ==
  ASSUME CallInv, UNCHANGED kb, CallShape', rag'.since = rag.since, rag'.keyword = rag.keyword,
         rag'.candidates = rag.candidates, Grounded(rag.kept)',
         rag'.at = "rerank" => rag.at = "rerank",
         rag'.degraded => rag'.at \notin {"ready", "keyword", "vector", "rerank", "answer"},
         StepsOpen', CitedWasCurrent'
  PROVE  CallInv'
<1>1. kb' \in kb..Len(Catalogs)
  BY SpecificationAssumption DEF CallInv, CallIInv
<1>2. /\ kb' \in 0..Len(Catalogs) /\ rag'.since \in 0..kb' /\ KeywordsKnown'
      /\ \A c : Between(rag.since, kb, c) => Between(rag'.since, kb', c)
  BY <1>1, CallFrame
<1>3. Grounded(rag.candidates)'
  BY <1>2 DEF CallInv, CallIInv, Grounded, Current
<1>4. EachHitOnce'
  BY DEF CallInv, EachHitOnce
<1>5. Len(rag'.candidates) \in Nat /\ DOMAIN rag'.candidates = 1..Len(rag'.candidates)
  BY DEF CallInv, CallIInv
<1> QED BY <1>2, <1>3, <1>4, <1>5 DEF CallInv, CallIInv

\* A call that raises holds what it held; of its Steps none is RUNNING.
LEMMA CallRaises ==
  ASSUME CallInv, UNCHANGED kb, NEW llm, llm # "RUNNING", NEW code, FailsWith(llm, code)
  PROVE  CallInv'
<1>1. PICK step \in Ends("FAILED") :
        rag' = [rag EXCEPT !.at = "failed", !.step = step, !.llm = llm, !.result = code]
  BY DEF FailsWith
<1>2. CallShape /\ Grounded(rag.kept) /\ step # "RUNNING"
  BY DEF CallInv, CallIInv, Ends
<1>3. /\ rag'.since = rag.since /\ rag'.keyword = rag.keyword /\ rag'.candidates = rag.candidates
      /\ rag'.kept = rag.kept /\ rag'.at = "failed" /\ rag'.llm = llm /\ rag'.step = step
      /\ rag'.degraded = rag.degraded /\ CallShape'
  BY <1>1, <1>2 DEF CallShape
<1>4. Grounded(rag.kept)' /\ CitedWasCurrent' /\ StepsOpen'
  BY <1>2, <1>3 DEF Grounded, Current, CitedWasCurrent, StepsOpen
<1> QED BY <1>3, <1>4, CallGoesOn

\* So does one that answers, with an answer that cites only what was current.
LEMMA CallEnds ==
  ASSUME CallInv, UNCHANGED kb, NEW llm, NEW answer, Answers(llm, answer), llm # "RUNNING",
         llm = "LEFT" => answer = SafeResult("GENERATION_FAILED"),
         answer.status = "ANSWERED" =>
            /\ ~ rag.degraded
            /\ \A c \in ToSet(answer.citations) : \A n \in DOMAIN c.chunks : Current(c.chunks[n])
  PROVE  CallInv'
<1>1. CallShape /\ Grounded(rag.kept)
  BY DEF CallInv, CallIInv
<1>2. /\ rag'.since = rag.since /\ rag'.keyword = rag.keyword /\ rag'.candidates = rag.candidates
      /\ rag'.kept = rag.kept /\ rag'.llm = llm /\ rag'.degraded = rag.degraded
      /\ rag'.question = rag.question /\ CallShape'
      /\ \/ rag'.at = "done" /\ rag'.step = "SUCCEEDED" /\ rag'.result = answer
         \/ rag'.at = "failed" /\ rag'.step = "LEFT"
  BY <1>1 DEF Answers, CallShape
<1>3. Grounded(rag.kept)' /\ StepsOpen'
  BY <1>1, <1>2 DEF Grounded, Current, StepsOpen, SafeResult
<1>4. CitedWasCurrent'
  BY <1>2 DEF CitedWasCurrent, Current
<1> QED BY <1>2, <1>3, <1>4, CallGoesOn

\* The steps that only move the call on, also into a failure.
LEMMA CallRests ==
  ASSUME CallInv, UNCHANGED kb,
         \/ EnsureReady \/ SearchFails \/ StartModel \/ RerankSaved \/ RerankFails
         \/ RerankTimeout \/ CheckRelevance \/ GenerateFails
  PROVE  CallInv'
<1>1. CallShape /\ Grounded(rag.kept) /\ Grounded(rag.candidates) /\ StepsOpen
      /\ (rag.degraded => rag.at \notin {"ready", "keyword", "vector", "rerank", "answer"})
  BY DEF CallInv, CallIInv
<1>2. ASSUME NEW code, rag.at \notin {"rerank", "answer"} \/ rag.llm # "RUNNING", Fails(code)
      PROVE  CallInv'
  BY <1>1, <1>2, CallRaises DEF Fails, StepsOpen
<1>3. ASSUME NEW status, status # "ANSWERED", NEW llm, llm # "RUNNING",
             llm = "LEFT" => status = "GENERATION_FAILED", Answers(llm, SafeResult(status))
      PROVE  CallInv'
  <2>1. SafeResult(status).status # "ANSWERED"
    BY <1>3 DEF SafeResult
  <2> QED BY <1>3, <2>1, CallEnds
<1> DEFINE Moves ==
             /\ CallShape' /\ StepsOpen'
             /\ rag'.since = rag.since /\ rag'.keyword = rag.keyword /\ rag'.candidates = rag.candidates
             /\ rag'.kept \in {rag.kept, rag.candidates}
             /\ rag'.at = "rerank" => rag.at = "rerank"
             /\ rag'.degraded => rag'.at \notin {"ready", "keyword", "vector", "rerank", "answer"}
             /\ rag'.at # "done"
<1>4. ASSUME Moves PROVE CallInv'
  <2>1. Grounded(rag.kept)'
    BY <1>1, <1>4 DEF Grounded, Current
  <2>2. CitedWasCurrent'
    BY <1>4 DEF CitedWasCurrent
  <2> QED BY <1>4, <2>1, <2>2, CallGoesOn
<1> HIDE DEF Moves
<1>5. CASE EnsureReady
  <2>1. rag.at = "ready"
    BY <1>5 DEF EnsureReady
  <2>2. CASE rag' = [rag EXCEPT !.at = "keyword"]
    BY <1>1, <1>4, <2>1, <2>2 DEF Moves, CallShape, StepsOpen
  <2> QED BY <1>2, <1>5, <2>1, <2>2 DEF EnsureReady
<1>6. CASE SearchFails
  <2>1. rag.at \in {"keyword", "vector"}
    BY <1>6 DEF SearchFails
  <2> QED BY <1>2, <1>6, <2>1 DEF SearchFails
<1>7. CASE StartModel
  BY <1>1, <1>4, <1>7 DEF Moves, CallShape, StepsOpen, StartModel
<1>8. CASE RerankSaved
  BY <1>1, <1>4, <1>8 DEF Moves, CallShape, StepsOpen, RerankSaved
<1>9. CASE RerankFails
  <2>1. CASE rag.llm = "RUNNING" /\ \E llm \in Ends("FAILED") : FailsWith(llm, "RERANK_EXECUTION_ERROR")
    BY <2>1, CallRaises DEF Ends
  <2>2. CASE rag.llm = "SUCCEEDED" /\ Fails("RERANK_RESPONSE_VALIDATION_ERROR")
    BY <1>2, <2>2
  <2>3. CASE rag.llm = "NONE" /\ Fails("RERANK_EXECUTION_ERROR")
    BY <1>2, <2>3
  <2> QED BY <1>9, <2>1, <2>2, <2>3 DEF RerankFails
<1>10. CASE RerankTimeout
  <2>1. CASE /\ rag.llm = "RUNNING"
             /\ rag' = [rag EXCEPT !.at = "relevance", !.llm = "NONE", !.degraded = TRUE,
                                   !.kept = rag.candidates]
    <3>1. rag.at = "rerank"
      BY <1>10 DEF RerankTimeout
    <3> QED BY <1>1, <1>4, <2>1, <3>1 DEF Moves, CallShape, StepsOpen
  <2>2. CASE rag.llm = "RUNNING" /\ FailsWith("LEFT", "RERANK_EXECUTION_ERROR")
    BY <2>2, CallRaises
  <2>3. CASE rag.llm \in {"NONE", "SUCCEEDED"} /\ Fails("RERANK_EXECUTION_ERROR")
    BY <1>2, <2>3
  <2> QED BY <1>10, <2>1, <2>2, <2>3 DEF RerankTimeout
<1>11. CASE CheckRelevance
  <2>1. rag.at = "relevance" /\ rag.llm \notin {"RUNNING", "LEFT"}
    BY <1>1, <1>11 DEF CheckRelevance, StepsOpen
  <2>2. CASE Fails("SPECIFICATION_EXECUTION_ERROR")
    BY <1>2, <2>1, <2>2
  <2>3. CASE rag.kept # <<>> /\ ~ rag.degraded /\ rag' = [rag EXCEPT !.at = "answer"]
    BY <1>1, <1>4, <2>1, <2>3 DEF Moves, CallShape, StepsOpen
  <2>4. CASE Answers(rag.llm, SafeResult(IF rag.degraded THEN "RERANK_UNAVAILABLE"
                                         ELSE "INSUFFICIENT_CONTEXT"))
    BY <1>3, <2>1, <2>4
  <2> QED BY <1>11, <2>2, <2>3, <2>4 DEF CheckRelevance
<1>12. CASE GenerateFails
  <2>1. PICK llm \in IF rag.llm = "NONE" THEN {"NONE"} ELSE Ends("FAILED") :
           Answers(llm, SafeResult("GENERATION_FAILED"))
    BY <1>12 DEF GenerateFails
  <2>2. llm # "RUNNING"
    BY <2>1 DEF Ends
  <2> QED BY <1>3, <2>1, <2>2
<1> QED BY <1>5, <1>6, <1>7, <1>8, <1>9, <1>10, <1>11, <1>12

LEMMA CallBegins ==
  ASSUME CallInv, NEW question, Ask(question) PROVE CallInv'
<1>1. kb \in Nat /\ kb' = kb /\ kb \in 0..Len(Catalogs)
  BY SpecificationAssumption DEF CallInv, CallIInv, Ask
<1>2. rag' = [NoCall EXCEPT !.at = "ready", !.since = kb, !.question = question, !.step = "RUNNING"]
  BY DEF Ask
<1>3. /\ rag'.at = "ready" /\ rag'.since = kb /\ rag'.keyword = <<>> /\ rag'.candidates = <<>>
      /\ rag'.kept = <<>> /\ rag'.degraded = FALSE /\ rag'.llm = "NONE" /\ rag'.step = "RUNNING"
      /\ CallShape'
  BY <1>2 DEF NoCall, CallShape
<1> QED BY <1>1, <1>3 DEF StepsOpen, CallInv, CallIInv, CitedWasCurrent, EachHitOnce, KeywordsKnown, Grounded, ToSet

LEMMA CallReturns == ASSUME CallInv, Return PROVE CallInv'
<1>1. kb' \in 0..Len(Catalogs) /\ rag' = NoCall
  BY DEF CallInv, CallIInv, Return
<1> QED BY <1>1 DEF NoCall, StepsOpen, CallInv, CallIInv, CitedWasCurrent, EachHitOnce, CallShape,
                    KeywordsKnown, Grounded, ToSet

LEMMA CallWaits == ASSUME CallInv, UNCHANGED ragVars PROVE CallInv'
BY DEF CallInv, CallIInv, CitedWasCurrent, EachHitOnce, CallShape, KeywordsKnown, Grounded, Current, ragVars,
       StepsOpen, SafeResult

\* The catalog is ingested anew while a call runs.
LEMMA CallIngests == ASSUME CallInv, IngestCatalog PROVE CallInv'
<1>1. kb' \in kb..Len(Catalogs) /\ UNCHANGED rag
  BY SpecificationAssumption DEF CallInv, CallIInv, IngestCatalog
<1>2. /\ kb' \in 0..Len(Catalogs) /\ rag'.since \in 0..kb' /\ KeywordsKnown'
      /\ \A c : Between(rag.since, kb, c) => Between(rag'.since, kb', c)
  BY <1>1, CallFrame
<1> QED BY <1>1, <1>2 DEF CallInv, CallIInv, CitedWasCurrent, EachHitOnce, CallShape, Grounded, Current,
                                 StepsOpen, SafeResult

LEMMA CallSearches ==
  ASSUME CallInv, NEW hits \in Seq(Chunks), SearchKeywords(hits) PROVE CallInv'
<1>1. /\ \A c \in ToSet(hits) : c \in Chunks /\ Current(c)
      /\ Distinct(ToSet(hits))
  BY FoundIsCurrent DEF CallInv, SearchKeywords, KeywordHits
<1>2. /\ kb' = kb /\ rag'.since = rag.since /\ rag'.keyword = hits /\ rag'.candidates = rag.candidates
      /\ rag'.kept = rag.kept /\ rag'.at = "vector" /\ rag'.degraded = rag.degraded
      /\ rag'.llm = rag.llm /\ rag'.step = rag.step /\ CallShape' /\ rag.at = "keyword"
  BY DEF SearchKeywords, CallInv, CallIInv, CallShape
<1>3. KeywordsKnown'
  BY <1>1, <1>2 DEF KeywordsKnown, Current, Distinct
<1> QED BY <1>2, <1>3 DEF CallInv, CallIInv, CitedWasCurrent, EachHitOnce, Grounded, Current, StepsOpen

\* Both searches found what was current; fusion neither loses nor doubles a hit.
LEMMA CallFuses ==
  ASSUME CallInv, NEW hits \in Seq(Chunks), SearchVectors(hits) PROVE CallInv'
<1> DEFINE both == ToSet(rag.keyword) \cup ToSet(hits)
           found == FuseHybridResults(rag.keyword, hits)
<1>1. /\ CallIInv /\ CallShape /\ KeywordsKnown /\ rag.at = "vector" /\ kb' = kb
      /\ rag.llm \notin {"RUNNING", "LEFT"} /\ ~ rag.degraded /\ Grounded(rag.kept)
  BY DEF CallInv, CallIInv, SearchVectors, StepsOpen
<1>2. /\ \A c \in ToSet(hits) : c \in Chunks /\ Current(c)
      /\ Distinct(ToSet(hits))
  BY <1>1, FoundIsCurrent DEF SearchVectors, VectorHits
<1>3. CASE Conflict(rag.keyword, hits)
  <2>1. Fails("SPECIFICATION_EXECUTION_ERROR")
    BY <1>3 DEF SearchVectors
  <2> QED BY <1>1, <2>1, CallRaises DEF Fails
<1>4. CASE ~ Conflict(rag.keyword, hits)
  <2>1. rag' = [rag EXCEPT !.at = IF found = <<>> THEN "relevance" ELSE "rerank", !.candidates = found]
    BY <1>4 DEF SearchVectors
  <2> HIDE DEF found
  <2>2. /\ rag'.since = rag.since /\ rag'.keyword = rag.keyword /\ rag'.candidates = found
        /\ rag'.kept = rag.kept /\ rag'.at \in {"relevance", "rerank"} /\ rag'.llm = rag.llm
        /\ rag'.step = rag.step /\ rag'.degraded = rag.degraded /\ CallShape'
    BY <1>1, <2>1 DEF CallShape
  <2>3. Distinct(both) /\ \A c \in both : Current(c)
    BY <1>1, <1>2, <1>4 DEF Distinct, Conflict, KeywordsKnown
  <2>4. /\ Len(found) \in Nat /\ DOMAIN found = 1..Len(found)
        /\ \A n \in DOMAIN found : IsResult(found[n], both)
        /\ \A m, n \in DOMAIN found :
              m # n => ToSet(found[m].chunks) \cap ToSet(found[n].chunks) = {}
        /\ Len(found) < TopK => \A c \in both : \E r \in ToSet(found) : c \in ToSet(r.chunks)
    BY <1>1, <2>3, FusionPartitions DEF KeywordsKnown, found
  <2> HIDE DEF both
  <2>5. \A n \in DOMAIN found : \A k \in DOMAIN found[n].chunks : found[n].chunks[k] \in both
    BY <2>4 DEF IsResult, IsGroup
  <2>6. Grounded(rag.candidates)' /\ Grounded(rag.kept)' /\ KeywordsKnown'
    BY <1>1, <2>2, <2>3, <2>5 DEF Grounded, Current, KeywordsKnown
  <2>7. \A r \in ToSet(found) : \A n \in 1..(Len(r.chunks) - 1) :
              /\ r.chunks[n + 1].index = r.chunks[n].index + 1
              /\ r.chunks[n + 1].section = r.chunks[n].section
    BY <2>4 DEF IsResult, IsGroup, ToSet, Adjacent
  <2>8. ToSet(rag.keyword) \subseteq both
    BY DEF both
  <2>9. EachHitOnce'
    BY <2>2, <2>4, <2>7, <2>8 DEF EachHitOnce
  <2>10. CitedWasCurrent'
    BY <2>2 DEF CitedWasCurrent
  <2>11. StepsOpen'
    BY <1>1, <2>2 DEF StepsOpen
  <2> QED BY <1>1, <2>2, <2>4, <2>6, <2>9, <2>10, <2>11 DEF CallInv, CallIInv
<1> QED BY <1>3, <1>4

\* Reranking keeps some of the candidates.
LEMMA CallReranks ==
  ASSUME CallInv, NEW scores \in [DOMAIN rag.candidates -> Scores], Rerank(scores) PROVE CallInv'
<1> DEFINE order == Ordered(Retained(scores),
                        LAMBDA m, n : scores[m] > scores[n] \/ (scores[m] = scores[n] /\ m < n))
           kept == [n \in DOMAIN order |-> rag.candidates[order[n]]]
<1>1. /\ CallShape /\ rag.at = "rerank" /\ kb' = kb /\ Grounded(rag.candidates) /\ ~ rag.degraded
      /\ Len(rag.candidates) \in Nat /\ DOMAIN rag.candidates = 1..Len(rag.candidates)
  BY DEF CallInv, CallIInv, Rerank
<1>2. rag' = [rag EXCEPT !.at = "relevance", !.llm = "NONE", !.kept = kept]
  BY DEF Rerank
<1>3. scores \in [1..Len(rag.candidates) -> Nat]
  BY <1>1, SpecificationAssumption
<1>4. \A n \in DOMAIN order : order[n] \in 1..Len(rag.candidates)
  BY <1>1, <1>3, RetainedAre
<1> HIDE DEF order
<1>5. DOMAIN kept = DOMAIN order /\ \A n \in DOMAIN order : kept[n] = rag.candidates[order[n]]
  OBVIOUS
<1> HIDE DEF kept
<1>6. /\ rag'.since = rag.since /\ rag'.keyword = rag.keyword /\ rag'.candidates = rag.candidates
      /\ rag'.kept = kept /\ rag'.at = "relevance" /\ rag'.llm = "NONE"
      /\ rag'.step = rag.step /\ rag'.degraded = rag.degraded /\ CallShape'
  BY <1>1, <1>2 DEF CallShape
<1>7. Grounded(rag.kept)'
  BY <1>1, <1>4, <1>5, <1>6 DEF Grounded, Current
<1>8. CitedWasCurrent' /\ StepsOpen'
  BY <1>6 DEF CitedWasCurrent, StepsOpen
<1> QED BY <1>1, <1>6, <1>7, <1>8, CallGoesOn

\* An answer cites what the reranking kept.
LEMMA CallAnswers ==
  ASSUME CallInv, NEW ids, GenerateAnswer(ids) PROVE CallInv'
<1> DEFINE cited == [n \in DOMAIN ids |-> CHOOSE c \in ToSet(BuildCitations) : c.chunk_id = ids[n]]
           answer == IF SelectCitations(ids)
                     THEN [question |-> rag.question, status |-> "ANSWERED", citations |-> cited]
                     ELSE SafeResult("GENERATION_FAILED")
<1>1. /\ CallShape /\ rag.at = "answer" /\ kb' = kb /\ Grounded(rag.kept) /\ ~ rag.degraded
  BY DEF CallInv, CallIInv, GenerateAnswer
<1>2. Answers("SUCCEEDED", answer)
  BY DEF GenerateAnswer
<1>3. answer.status = "ANSWERED" => SelectCitations(ids) /\ answer.citations = cited
  BY DEF SafeResult
<1> HIDE DEF answer
<1>6. \A c \in ToSet(BuildCitations) : \A n \in DOMAIN c.chunks : Current(c.chunks[n])
  <2>1. ASSUME NEW c \in ToSet(BuildCitations)
        PROVE  \E m \in DOMAIN rag.kept : c.chunks = rag.kept[m].chunks
    <3>1. PICK m \in DOMAIN BuildCitations : c = BuildCitations[m]
      BY <2>1 DEF ToSet
    <3>2. m \in DOMAIN rag.kept /\ c = BuildCitation(rag.kept[m])
      BY <3>1 DEF BuildCitations
    <3> QED BY <3>2 DEF BuildCitation
  <2>2. ASSUME NEW c \in ToSet(BuildCitations), NEW n \in DOMAIN c.chunks
        PROVE  Current(c.chunks[n])
    BY <1>1, <2>1, <2>2 DEF Grounded
  <2> QED BY <2>2
<1>7. ASSUME SelectCitations(ids), NEW c \in ToSet(cited) PROVE c \in ToSet(BuildCitations)
  <2>1. PICK n \in DOMAIN ids : c = cited[n]
    BY <1>7 DEF ToSet
  <2>2. \E d \in ToSet(BuildCitations) : d.chunk_id = ids[n]
    BY <1>7, <2>1 DEF SelectCitations, ToSet
  <2> QED BY <2>1, <2>2
<1> HIDE DEF cited
<1>8. ASSUME answer.status = "ANSWERED", NEW c \in ToSet(answer.citations), NEW n \in DOMAIN c.chunks
      PROVE  Current(c.chunks[n])
  BY <1>3, <1>6, <1>7, <1>8
<1> QED BY <1>1, <1>2, <1>8, CallEnds

LEMMA CallSteps ==
  ASSUME CallInv, Hits[flow] \subseteq Seq(Chunks), SpecificationStep PROVE CallInv'
<1>1. ASSUME NEW h \in Hits[flow], SearchKeywords(h) PROVE CallInv'
  BY <1>1, CallSearches
<1>2. ASSUME NEW h \in Hits[flow], SearchVectors(h) PROVE CallInv'
  BY <1>2, CallFuses
<1>3. ASSUME NEW scores \in [DOMAIN rag.candidates -> Scores], Rerank(scores) PROVE CallInv'
  BY <1>3, CallReranks
<1>4. ASSUME NEW ids, GenerateAnswer(ids) PROVE CallInv'
  BY <1>4, CallAnswers
<1>5. ASSUME \/ EnsureReady \/ SearchFails \/ StartModel \/ RerankSaved \/ RerankFails
             \/ RerankTimeout \/ CheckRelevance \/ GenerateFails
      PROVE CallInv'
  <2>1. UNCHANGED kb
    BY <1>5 DEF EnsureReady, SearchFails, StartModel, RerankSaved, RerankFails, RerankTimeout,
                CheckRelevance, GenerateFails
  <2> QED BY <1>5, <2>1, CallRests
<1> QED BY <1>1, <1>2, <1>3, <1>4, <1>5 DEF SpecificationStep
----------------------------------------------------------------------------
\* The facts a skill loads.

LEMMA RequestIs ==
  ASSUME Requested
  PROVE  /\ flow \in {"status", "dynamic", "specification", "review", "fixed"}
         /\ None \notin DOMAIN store.tasks
         /\ \A t, u \in DOMAIN store.tasks : \A i \in ToSet(store.tasks[t].issues) :
               \A j \in ToSet(store.tasks[u].issues) : i.id = j.id => t = u
         /\ Hits[flow] \subseteq Seq(Chunks)
BY SkillsAssumption DEF Requested

LEMMA LoaderNodesAre ==
  /\ ToSet(LoaderNodes) = {"load_context", "load_order", "load_tasks", "load_progress", "load_quality",
                           "load_review", "load_delivery", "validate_page_context"}
  /\ \A node \in ToSet(Front(LoaderNodes)) : node \in ToSet(LoaderNodes) /\ After(node) \in ToSet(LoaderNodes)
<1> DEFINE q == LoaderNodes
<1>1. Len(q) = 8 /\ DOMAIN q = 1..8
  BY DEF LoaderNodes
<1>2. ToSet(LoaderNodes) = {"load_context", "load_order", "load_tasks", "load_progress", "load_quality",
                            "load_review", "load_delivery", "validate_page_context"}
  <2>1. 1..8 = {1, 2, 3, 4, 5, 6, 7, 8}
    OBVIOUS
  <2> QED BY <1>1, <2>1 DEF ToSet, LoaderNodes
<1>3. ASSUME NEW node \in ToSet(Front(LoaderNodes))
      PROVE  node \in ToSet(LoaderNodes) /\ After(node) \in ToSet(LoaderNodes)
  <2> DEFINE I == {i \in 1..8 : q[i] = node}
  <2>1. PICK n \in 1..7 : node = q[n]
    BY <1>1 DEF ToSet, Front
  <2>2. n \in I /\ I \in SUBSET Nat
    BY <2>1
  <2>3. PICK m \in I : \A k \in I : m <= k
    BY <2>2, NatMin
  <2>4. SelectInSeq(LoaderNodes, LAMBDA x : x = node) = CHOOSE k \in I : \A l \in I : k <= l
    BY <1>1, <2>2 DEF SelectInSeq, Min
  <2> DEFINE p == SelectInSeq(LoaderNodes, LAMBDA x : x = node)
  <2> HIDE DEF p
  <2>5. p \in I /\ \A l \in I : p <= l
    BY <2>3, <2>4, Zenon DEF p
  <2>6. p \in 1..7
    BY <2>2, <2>5
  <2>7. q[p + 1] \in ToSet(q)
    BY <1>1, <2>6 DEF ToSet
  <2>8. After(node) = q[p + 1]
    BY DEF After, p
  <2> HIDE DEF q
  <2> QED BY <1>1, <2>1, <2>7, <2>8 DEF ToSet, q
<1> QED BY <1>2, <1>3

LEMMA MergedAgree ==
  ASSUME FactsAgree, None \notin DOMAIN store.tasks, UNCHANGED store,
         NEW c \in Decisions, c.action \in OrderActions \cup TaskActions, s' = MergeBusinessFact(c)
  PROVE  FactsAgree'
<1>1. \/ c.action \in OrderActions /\ c.arg = None
      \/ c.action \in TaskActions /\ c.arg \in DOMAIN s.tasks
  BY DEF Decisions, Finish, OrderActions, TaskActions
<1>2. DOMAIN s.tasks \subseteq DOMAIN store.tasks
  BY DEF FactsAgree, GetOrderTasks
<1> DEFINE More(known) == [t \in DOMAIN known \cup {c.arg} |-> IF t = c.arg THEN ToolAnswer(c) ELSE known[t]]
<1>3. CASE c.action = "QUERY_ORDER"
  <2>1. c.arg = None /\ ToolAnswer(c) = GetOrder /\ FieldOf[c.action] = "order"
    BY <1>1, <1>3 DEF ToolAnswer, FieldOf, OrderActions, TaskActions
  <2>2. s' = [s EXCEPT !.order = GetOrder]
    BY <2>1 DEF MergeBusinessFact
  <2> QED BY <2>2 DEF FactsAgree, TaskFactsAgree, GetOrder, GetOrderTasks, GetDeliveryStatus,
                      GetProductionProgress, GetQualityIssues, GetReviewResult
<1>4. CASE c.action = "QUERY_TASKS"
  <2>1. c.arg = None /\ ToolAnswer(c) = GetOrderTasks /\ FieldOf[c.action] = "tasks"
    BY <1>1, <1>4 DEF ToolAnswer, FieldOf, OrderActions, TaskActions
  <2>2. s' = [s EXCEPT !.tasks = GetOrderTasks]
    BY <2>1 DEF MergeBusinessFact
  <2> QED BY <2>2 DEF FactsAgree, TaskFactsAgree, GetOrder, GetOrderTasks, GetDeliveryStatus,
                      GetProductionProgress, GetQualityIssues, GetReviewResult
<1>5. CASE c.action = "QUERY_DELIVERY"
  <2>1. c.arg = None /\ ToolAnswer(c) = GetDeliveryStatus /\ FieldOf[c.action] = "delivery"
    BY <1>1, <1>5 DEF ToolAnswer, FieldOf, OrderActions, TaskActions
  <2>2. s' = [s EXCEPT !.delivery = GetDeliveryStatus]
    BY <2>1 DEF MergeBusinessFact
  <2> QED BY <2>2 DEF FactsAgree, TaskFactsAgree, GetOrder, GetOrderTasks, GetDeliveryStatus,
                      GetProductionProgress, GetQualityIssues, GetReviewResult
<1>6. CASE c.action = "QUERY_PROGRESS"
  <2>1. /\ c.arg # None /\ c.arg \in DOMAIN store.tasks /\ ToolAnswer(c) = GetProductionProgress(c.arg)
        /\ FieldOf[c.action] = "progress"
    BY <1>1, <1>2, <1>6 DEF ToolAnswer, FieldOf, OrderActions, TaskActions
  <2>2. s' = [s EXCEPT !.progress = More(s.progress)]
    BY <2>1 DEF MergeBusinessFact
  <2>3. /\ DOMAIN More(s.progress) \subseteq DOMAIN store.tasks
        /\ \A t \in DOMAIN More(s.progress) : More(s.progress)[t] = GetProductionProgress(t)
    BY <2>1 DEF FactsAgree, TaskFactsAgree
  <2> HIDE DEF More
  <2> QED BY <2>2, <2>3 DEF FactsAgree, TaskFactsAgree, GetOrder, GetOrderTasks, GetDeliveryStatus,
                            GetProductionProgress, GetQualityIssues, GetReviewResult
<1>7. CASE c.action = "QUERY_QUALITY"
  <2>1. /\ c.arg # None /\ c.arg \in DOMAIN store.tasks /\ ToolAnswer(c) = GetQualityIssues(c.arg)
        /\ FieldOf[c.action] = "quality_issues"
    BY <1>1, <1>2, <1>7 DEF ToolAnswer, FieldOf, OrderActions, TaskActions
  <2>2. s' = [s EXCEPT !.quality_issues = More(s.quality_issues)]
    BY <2>1 DEF MergeBusinessFact
  <2>3. /\ DOMAIN More(s.quality_issues) \subseteq DOMAIN store.tasks
        /\ \A t \in DOMAIN More(s.quality_issues) : More(s.quality_issues)[t] = GetQualityIssues(t)
    BY <2>1 DEF FactsAgree, TaskFactsAgree
  <2> HIDE DEF More
  <2> QED BY <2>2, <2>3 DEF FactsAgree, TaskFactsAgree, GetOrder, GetOrderTasks, GetDeliveryStatus,
                            GetProductionProgress, GetQualityIssues, GetReviewResult
<1>8. CASE c.action = "QUERY_REVIEW"
  <2>1. /\ c.arg # None /\ c.arg \in DOMAIN store.tasks /\ ToolAnswer(c) = GetReviewResult(c.arg)
        /\ FieldOf[c.action] = "reviews"
    BY <1>1, <1>2, <1>8 DEF ToolAnswer, FieldOf, OrderActions, TaskActions
  <2>2. s' = [s EXCEPT !.reviews = More(s.reviews)]
    BY <2>1 DEF MergeBusinessFact
  <2>3. /\ DOMAIN More(s.reviews) \subseteq DOMAIN store.tasks
        /\ \A t \in DOMAIN More(s.reviews) : More(s.reviews)[t] = GetReviewResult(t)
    BY <2>1 DEF FactsAgree, TaskFactsAgree
  <2> HIDE DEF More
  <2> QED BY <2>2, <2>3 DEF FactsAgree, TaskFactsAgree, GetOrder, GetOrderTasks, GetDeliveryStatus,
                            GetProductionProgress, GetQualityIssues, GetReviewResult
<1> QED BY <1>3, <1>4, <1>5, <1>6, <1>7, <1>8 DEF OrderActions, TaskActions

LEMMA ErrorsAgree ==
  ASSUME FactsAgree, UNCHANGED store, NEW x,
         s' \in {s, [s EXCEPT !.errors = x], [s EXCEPT !.specification = x]}
  PROVE  FactsAgree'
BY DEF FactsAgree, TaskFactsAgree, GetOrder, GetOrderTasks, GetDeliveryStatus,
       GetProductionProgress, GetQualityIssues, GetReviewResult

LEMMA LoadedAgree ==
  ASSUME FactsAgree, UNCHANGED store, NEW node, s' = Loaded(node)
  PROVE  FactsAgree'
<1> DEFINE all(get(_)) == [t \in DOMAIN store.tasks |-> get(t)]
<1>1. /\ Everything.order = GetOrder /\ Everything.tasks = GetOrderTasks
      /\ Everything.delivery = GetDeliveryStatus
      /\ Everything.progress = all(GetProductionProgress)
      /\ Everything.quality_issues = all(GetQualityIssues)
      /\ Everything.reviews = all(GetReviewResult)
  BY DEF Everything, NothingLoaded
<1>2. \/ s' = s
      \/ s' = [s EXCEPT !.order = GetOrder]
      \/ s' = [s EXCEPT !.tasks = GetOrderTasks]
      \/ s' = [s EXCEPT !.delivery = GetDeliveryStatus]
      \/ s' = [s EXCEPT !.progress = all(GetProductionProgress)]
      \/ s' = [s EXCEPT !.quality_issues = all(GetQualityIssues)]
      \/ s' = [s EXCEPT !.reviews = all(GetReviewResult)]
  BY <1>1 DEF Loaded
<1> QED BY <1>2 DEF FactsAgree, TaskFactsAgree, GetOrder, GetOrderTasks, GetDeliveryStatus,
                    GetProductionProgress, GetQualityIssues, GetReviewResult
----------------------------------------------------------------------------
\* What a diagnosis concludes from the facts that were loaded.

\* Without an information gap every task with issues has its reviews loaded.
LEMMA NoGapIs ==
  ASSUME FactsAgree, Detect(s) = {}
  PROVE  /\ s.tasks # <<>>
         /\ \A t \in DOMAIN s.quality_issues : s.quality_issues[t] # <<>> => t \in DOMAIN s.reviews
<1>1. /\ "ORDER_REQUIRED" \in Detect(s) <=> s.order = None
      /\ "RELATED_TASKS_REQUIRED" \in Detect(s) <=> s.tasks = <<>>
      /\ "REVIEW_RESULT_REQUIRED" \in Detect(s) <=>
            (s.order # None /\ s.tasks # <<>>) /\ \E t \in ReviewTasks(s) : ~ HasValidReview(s, t)
  BY Zenon DEF Detect
<1>2. s.tasks # <<>> /\ \A t \in ReviewTasks(s) : HasValidReview(s, t)
  BY <1>1
<1>3. DOMAIN s.quality_issues \subseteq DOMAIN s.tasks
  BY <1>2 DEF FactsAgree, TaskFactsAgree, GetOrderTasks
<1> QED BY <1>2, <1>3 DEF ReviewTasks, IssueTasks, HasValidReview

\* The statuses, issues and reviews that were loaded are Java's.
LEMMA LoadedIs ==
  ASSUME FactsAgree
  PROVE  LET tasks == ToSet(store.tasks)
         IN  /\ ToSet(s.tasks) \cup Steps(s)
                  \subseteq {t.status : t \in tasks} \cup UNION {ToSet(t.steps) : t \in tasks}
             /\ \A i \in AllIssues(s) : \E t \in DOMAIN s.quality_issues :
                   t \in DOMAIN store.tasks /\ i \in ToSet(store.tasks[t].issues)
             /\ \A r \in AllReviews(s) : \E t \in DOMAIN s.reviews :
                   t \in DOMAIN store.tasks /\ r \in ToSet(store.tasks[t].reviews)
<1> DEFINE tasks == ToSet(store.tasks)
<1>1. \A t \in DOMAIN store.tasks : store.tasks[t] \in tasks
  BY DEF ToSet
<1>2. ASSUME NEW x \in ToSet(s.tasks) PROVE x \in {t.status : t \in tasks}
  <2>1. PICK t \in DOMAIN s.tasks : x = s.tasks[t]
    BY DEF ToSet
  <2>2. t \in DOMAIN store.tasks /\ x = store.tasks[t].status
    BY <2>1 DEF FactsAgree, GetOrderTasks
  <2> QED BY <1>1, <2>2
<1>3. ASSUME NEW x \in Steps(s) PROVE x \in UNION {ToSet(t.steps) : t \in tasks}
  <2>1. PICK t \in DOMAIN s.progress : x \in ToSet(s.progress[t])
    BY DEF Steps
  <2>2. t \in DOMAIN store.tasks /\ s.progress[t] = store.tasks[t].steps
    BY DEF FactsAgree, TaskFactsAgree, GetProductionProgress
  <2> QED BY <1>1, <2>1, <2>2
<1>4. ASSUME NEW i \in AllIssues(s)
      PROVE  \E t \in DOMAIN s.quality_issues : t \in DOMAIN store.tasks /\ i \in ToSet(store.tasks[t].issues)
  BY DEF AllIssues, FactsAgree, TaskFactsAgree, GetQualityIssues
<1>5. ASSUME NEW r \in AllReviews(s)
      PROVE  \E t \in DOMAIN s.reviews : t \in DOMAIN store.tasks /\ r \in ToSet(store.tasks[t].reviews)
  BY DEF AllReviews, FactsAgree, TaskFactsAgree, GetReviewResult
<1> QED BY <1>2, <1>3, <1>4, <1>5

\* Without an open review, a required one is one that Java lacks.
LEMMA ReviewIsMissing ==
  ASSUME FactsAgree, RequiresReview(s), \A r \in AllReviews(s) : r.status = "APPROVED",
         \A t \in DOMAIN s.quality_issues : s.quality_issues[t] # <<>> => t \in DOMAIN s.reviews
  PROVE  MissingReview(store)
<1>1. PICK i \in AllIssues(s) :
            i.status = "RESOLVED" /\ ~ \E r \in AllReviews(s) : r.issue = i.id /\ r.status = "APPROVED"
  BY DEF RequiresReview
<1>2. PICK t \in DOMAIN s.quality_issues : i \in ToSet(s.quality_issues[t])
  BY DEF AllIssues
<1>3. t \in DOMAIN store.tasks /\ i \in ToSet(store.tasks[t].issues)
  BY <1>2 DEF FactsAgree, TaskFactsAgree, GetQualityIssues
<1>4. s.quality_issues[t] # <<>>
  BY <1>2 DEF ToSet
<1>5. t \in DOMAIN s.reviews /\ ToSet(s.reviews[t]) = ToSet(store.tasks[t].reviews)
  BY <1>4 DEF FactsAgree, TaskFactsAgree, GetReviewResult
<1>6. \A r \in ToSet(store.tasks[t].reviews) : r \in AllReviews(s)
  BY <1>5 DEF AllReviews
<1>7. store.tasks[t] \in ToSet(store.tasks)
  BY <1>3 DEF ToSet
<1> QED BY <1>1, <1>3, <1>6, <1>7 DEF MissingReview

\* A required review is one that Java has open, or one that Java lacks.
LEMMA ReviewIsRequired ==
  ASSUME FactsAgree, RequiresReview(s),
         \A t \in DOMAIN s.quality_issues : s.quality_issues[t] # <<>> => t \in DOMAIN s.reviews
  PROVE  Blocks(store, "REVIEW")
<1>1. Blocks(store, "REVIEW") <=>
        MissingReview(store) \/ \E t \in ToSet(store.tasks) : \E r \in ToSet(t.reviews) : r.status # "APPROVED"
  BY DEF Blocks
<1>2. \A t \in DOMAIN store.tasks : store.tasks[t] \in ToSet(store.tasks)
  BY DEF ToSet
<1>3. CASE \E r \in AllReviews(s) : r.status # "APPROVED"
  BY <1>1, <1>2, <1>3, LoadedIs
<1>4. CASE \A r \in AllReviews(s) : r.status = "APPROVED"
  BY <1>1, <1>4, ReviewIsMissing
<1> QED BY <1>3, <1>4

\* A conclusion accuses a stage that Java blocks, and never clears a delivery
\* that Java blocks.
LEMMA ConclusionIs ==
  ASSUME FactsAgree,
         \A t \in DOMAIN s.quality_issues : s.quality_issues[t] # <<>> => t \in DOMAIN s.reviews,
         NEW stage, stage = EvaluateLoadedFacts(s), stage # "INSUFFICIENT_INFORMATION"
  PROVE  (stage # "NONE" => Blocks(store, stage)) /\ (stage = "NONE" => ~ Blocks(store, "DELIVERY"))
<1> DEFINE production == ToSet(s.tasks) \cup Steps(s)
<1>1. \/ stage = "PRODUCTION_BLOCKED" /\ production \cap ProductionFailed # {}
      \/ stage = "PRODUCTION" /\ production \cap ProductionActive # {}
      \/ stage = "QUALITY_REVIEW" /\ \E i \in AllIssues(s) : i.status \in QualityUnresolved
      \/ stage = "REVIEW" /\ RequiresReview(s)
      \/ stage = "DELIVERY" /\ s.delivery # None /\ ToSet(s.delivery) \cap DeliveryBlocked # {}
      \/ stage = "NONE" /\ s.delivery # None /\ ToSet(s.delivery) \cap DeliveryBlocked = {}
  BY DEF EvaluateLoadedFacts
<1>2. CASE stage = "PRODUCTION_BLOCKED" /\ production \cap ProductionFailed # {}
  BY <1>2, LoadedIs DEF Blocks, ProductionFailed
<1>3. CASE stage = "PRODUCTION" /\ production \cap ProductionActive # {}
  BY <1>3, LoadedIs DEF Blocks, ProductionActive
<1>4. CASE stage = "QUALITY_REVIEW" /\ \E i \in AllIssues(s) : i.status \in QualityUnresolved
  <2>1. \A t \in DOMAIN store.tasks : store.tasks[t] \in ToSet(store.tasks)
    BY DEF ToSet
  <2> QED BY <1>4, <2>1, LoadedIs DEF Blocks, QualityUnresolved
<1>5. CASE stage = "REVIEW" /\ RequiresReview(s)
  BY <1>5, ReviewIsRequired
<1>6. CASE stage = "DELIVERY" /\ s.delivery # None /\ ToSet(s.delivery) \cap DeliveryBlocked # {}
  BY <1>6 DEF Blocks, DeliveryBlocked, FactsAgree, GetDeliveryStatus
<1>7. CASE stage = "NONE" /\ s.delivery # None /\ ToSet(s.delivery) \cap DeliveryBlocked = {}
  BY <1>7 DEF Blocks, DeliveryBlocked, FactsAgree, GetDeliveryStatus
<1> QED BY <1>1, <1>2, <1>3, <1>4, <1>5, <1>6, <1>7

\* With all facts loaded, what is not found blocked is not blocked in Java.
LEMMA CompleteIs ==
  ASSUME FactsAgree, HasCompleteFacts(s)
  PROVE  LET tasks == ToSet(store.tasks)
         IN  /\ {t.status : t \in tasks} \cup UNION {ToSet(t.steps) : t \in tasks}
                  \subseteq ToSet(s.tasks) \cup Steps(s)
             /\ \A t \in tasks : ToSet(t.issues) \subseteq AllIssues(s) /\ ToSet(t.reviews) \subseteq AllReviews(s)
             /\ DOMAIN s.reviews = DOMAIN store.tasks
             /\ \A t \in DOMAIN store.tasks : HasValidReview(s, t)
<1>1. /\ DOMAIN s.tasks = DOMAIN store.tasks
      /\ \A t \in DOMAIN store.tasks : s.tasks[t] = store.tasks[t].status
  BY DEF FactsAgree, HasCompleteFacts, GetOrderTasks
<1>2. /\ DOMAIN s.progress = DOMAIN store.tasks /\ DOMAIN s.quality_issues = DOMAIN store.tasks
      /\ DOMAIN s.reviews = DOMAIN store.tasks
      /\ \A t \in DOMAIN store.tasks : HasValidReview(s, t)
  BY <1>1 DEF HasCompleteFacts
<1>3. \A t \in DOMAIN store.tasks : /\ s.progress[t] = store.tasks[t].steps
                                    /\ s.quality_issues[t] = store.tasks[t].issues
                                    /\ s.reviews[t] = store.tasks[t].reviews
  BY <1>2 DEF FactsAgree, TaskFactsAgree, GetProductionProgress, GetQualityIssues, GetReviewResult
<1>4. ASSUME NEW u \in ToSet(store.tasks)
      PROVE  /\ u.status \in ToSet(s.tasks) /\ ToSet(u.steps) \subseteq Steps(s)
             /\ ToSet(u.issues) \subseteq AllIssues(s) /\ ToSet(u.reviews) \subseteq AllReviews(s)
  <2>1. PICK t \in DOMAIN store.tasks : u = store.tasks[t]
    BY DEF ToSet
  <2>2. u.status \in ToSet(s.tasks)
    BY <1>1, <2>1 DEF ToSet
  <2>3. ToSet(s.progress[t]) \subseteq Steps(s)
    BY <1>2, <2>1 DEF Steps
  <2>4. ToSet(s.quality_issues[t]) \subseteq AllIssues(s)
    BY <1>2, <2>1 DEF AllIssues
  <2>5. ToSet(s.reviews[t]) \subseteq AllReviews(s)
    BY <1>2, <2>1 DEF AllReviews
  <2> QED BY <1>3, <2>1, <2>2, <2>3, <2>4, <2>5
<1> QED BY <1>2, <1>4

\* An approval is found at the task of its issue, where Java has it too.
LEMMA NoReviewIsRequired ==
  ASSUME FactsAgree, Requested, HasCompleteFacts(s), ~ RequiresReview(s)
  PROVE  ~ Blocks(store, "REVIEW")
<1> SUFFICES ASSUME Blocks(store, "REVIEW") PROVE FALSE
  OBVIOUS
<1>1. PICK u \in ToSet(store.tasks) :
           \/ \E r \in ToSet(u.reviews) : r.status # "APPROVED"
           \/ \E i \in ToSet(u.issues) : i.status = "RESOLVED" /\ \A r \in ToSet(u.reviews) : r.issue # i.id
  BY DEF Blocks, MissingReview
<1>2. PICK i \in ToSet(u.issues) : i.status = "RESOLVED" /\ \A r \in ToSet(u.reviews) : r.issue # i.id
  BY <1>1, CompleteIs DEF RequiresReview
<1>3. PICK r \in AllReviews(s) : r.issue = i.id /\ r.status = "APPROVED"
  BY <1>2, CompleteIs DEF RequiresReview
<1>4. PICK t \in DOMAIN store.tasks : u = store.tasks[t]
  BY DEF ToSet
<1>5. PICK v \in DOMAIN s.reviews : r \in ToSet(s.reviews[v])
  BY DEF AllReviews
<1>6. v \in DOMAIN store.tasks /\ HasValidReview(s, v) /\ v \in DOMAIN s.quality_issues
  BY <1>5, CompleteIs DEF HasCompleteFacts
<1>7. PICK j \in ToSet(s.quality_issues[v]) : j.id = r.issue
  BY <1>5, <1>6 DEF HasValidReview
<1>8. j \in ToSet(store.tasks[v].issues) /\ r \in ToSet(store.tasks[v].reviews)
  BY <1>5, <1>6, <1>7 DEF FactsAgree, TaskFactsAgree, GetQualityIssues, GetReviewResult
<1>9. t = v
  BY <1>2, <1>3, <1>4, <1>6, <1>7, <1>8, RequestIs
<1> QED BY <1>2, <1>3, <1>4, <1>8, <1>9

\* The place of a stage in business order, 0 for NONE.
LEMMA StageIs ==
  /\ DOMAIN Stages = 1..5 /\ StageOf("NONE") = 0
  /\ \A n \in 1..5 : StageOf(Stages[n]) = n
<1>1. Len(Stages) = 5 /\ DOMAIN Stages = 1..5 /\ 1..5 = {1, 2, 3, 4, 5}
  BY DEF Stages
<1>2. StageOf("NONE") = 0
  <2>1. {i \in 1..Len(Stages) : Stages[i] = "NONE"} = {}
    BY <1>1 DEF Stages
  <2> QED BY <2>1 DEF StageOf, SelectInSeq
<1>3. ASSUME NEW n \in 1..5 PROVE StageOf(Stages[n]) = n
  <2> DEFINE I == {i \in 1..Len(Stages) : Stages[i] = Stages[n]}
  <2>1. I = {n}
    BY <1>1 DEF Stages
  <2>2. StageOf(Stages[n]) = CHOOSE k \in I : \A l \in I : k <= l
    BY <2>1 DEF StageOf, SelectInSeq, Min
  <2> HIDE DEF I
  <2> QED BY <2>1, <2>2
<1> QED BY <1>1, <1>2, <1>3

\* With all facts, the stage that is named is the first one Java blocks.
LEMMA FirstStageIs ==
  ASSUME FactsAgree, Requested, NEW stage, stage = EvaluateDiagnosisRules(s),
         stage # "INSUFFICIENT_INFORMATION"
  PROVE  /\ stage # "NONE" => Blocks(store, stage)
         /\ stage = "NONE" => ~ Blocks(store, "DELIVERY")
         /\ \A m \in DOMAIN Stages : m < StageOf(stage) \/ StageOf(stage) = 0 => ~ Blocks(store, Stages[m])
<1> DEFINE production == ToSet(s.tasks) \cup Steps(s)
           failed == production \cap ProductionFailed # {}
           active == production \cap ProductionActive # {}
           unresolved == \E i \in AllIssues(s) : i.status \in QualityUnresolved
<1>1. HasCompleteFacts(s) /\ stage = EvaluateLoadedFacts(s)
  BY DEF EvaluateDiagnosisRules
<1>2. \A t \in DOMAIN s.quality_issues : s.quality_issues[t] # <<>> => t \in DOMAIN s.reviews
  BY <1>1 DEF HasCompleteFacts
<1>3. (stage # "NONE" => Blocks(store, stage)) /\ (stage = "NONE" => ~ Blocks(store, "DELIVERY"))
  BY <1>1, <1>2, ConclusionIs
<1>4. ~ failed => ~ Blocks(store, "PRODUCTION_BLOCKED")
  BY <1>1, CompleteIs DEF Blocks, ProductionFailed
<1>5. ~ active => ~ Blocks(store, "PRODUCTION")
  BY <1>1, CompleteIs DEF Blocks, ProductionActive
<1>6. ~ unresolved => ~ Blocks(store, "QUALITY_REVIEW")
  BY <1>1, CompleteIs DEF Blocks, QualityUnresolved
<1>7. ~ RequiresReview(s) => ~ Blocks(store, "REVIEW")
  BY <1>1, NoReviewIsRequired
<1>8. \/ stage = "PRODUCTION_BLOCKED"
      \/ stage = "PRODUCTION" /\ ~ failed
      \/ stage = "QUALITY_REVIEW" /\ ~ failed /\ ~ active
      \/ stage = "REVIEW" /\ ~ failed /\ ~ active /\ ~ unresolved
      \/ stage = "DELIVERY" /\ ~ failed /\ ~ active /\ ~ unresolved /\ ~ RequiresReview(s)
      \/ stage = "NONE" /\ ~ failed /\ ~ active /\ ~ unresolved /\ ~ RequiresReview(s)
  BY <1>1 DEF EvaluateLoadedFacts
<1> HIDE DEF failed, active, unresolved
<1>9. /\ Stages[1] = "PRODUCTION_BLOCKED" /\ Stages[2] = "PRODUCTION" /\ Stages[3] = "QUALITY_REVIEW"
      /\ Stages[4] = "REVIEW" /\ Stages[5] = "DELIVERY" /\ DOMAIN Stages = {1, 2, 3, 4, 5}
  BY DEF Stages
<1>10. ASSUME NEW m \in DOMAIN Stages, m < StageOf(stage) \/ StageOf(stage) = 0
       PROVE  ~ Blocks(store, Stages[m])
  <2>1. CASE stage = "PRODUCTION_BLOCKED"
    BY <1>9, <1>10, <2>1, StageIs
  <2>2. CASE stage = "PRODUCTION" /\ ~ failed
    BY <1>4, <1>9, <1>10, <2>2, StageIs
  <2>3. CASE stage = "QUALITY_REVIEW" /\ ~ failed /\ ~ active
    BY <1>4, <1>5, <1>9, <1>10, <2>3, StageIs
  <2>4. CASE stage = "REVIEW" /\ ~ failed /\ ~ active /\ ~ unresolved
    BY <1>4, <1>5, <1>6, <1>9, <1>10, <2>4, StageIs
  <2>5. CASE stage = "DELIVERY" /\ ~ failed /\ ~ active /\ ~ unresolved /\ ~ RequiresReview(s)
    BY <1>4, <1>5, <1>6, <1>7, <1>9, <1>10, <2>5, StageIs
  <2>6. CASE stage = "NONE" /\ ~ failed /\ ~ active /\ ~ unresolved /\ ~ RequiresReview(s)
    BY <1>3, <1>4, <1>5, <1>6, <1>7, <1>9, <2>6
  <2> QED BY <1>8, <2>1, <2>2, <2>3, <2>4, <2>5, <2>6
<1> QED BY <1>3, <1>10

\* What the property says of a skill that concludes a stage.
Concluded(stage) ==
    /\ stage # "NONE" => Blocks(store, stage)
    /\ stage = "NONE" => ~ Blocks(store, "DELIVERY")
    /\ flow = "fixed" \/ HasCompleteFacts(s) =>
          \A m \in DOMAIN Stages : m < StageOf(stage) \/ StageOf(stage) = 0 => ~ Blocks(store, Stages[m])

LEMMA ConclusionNext ==
  ASSUME UNCHANGED <<store, flow, s>>,
         outcome'.status = "SUCCEEDED" /\ outcome'.stage \notin {None, "INSUFFICIENT_INFORMATION"} =>
            Concluded(outcome'.stage)
  PROVE  StageHolds'
BY DEF StageHolds, Conclusive, Concluded, Blocks, MissingReview, HasCompleteFacts, HasValidDelivery, HasValidReview

----------------------------------------------------------------------------
\* The evidence of an answer.

LEMMA MinIs == ASSUME NEW S \in SUBSET Nat, S # {} PROVE Min(S) \in S
<1>1. \E m \in S : \A k \in S : m <= k
  BY NatMin
<1> QED BY <1>1 DEF Min

\* A search ends at an element of the wanted kind, or finds that there is none.
LEMMA FirstIs ==
  ASSUME NEW q, DOMAIN q \in SUBSET (Nat \ {0}), NEW S
  PROVE  /\ First(q, S) # 0 => First(q, S) \in DOMAIN q /\ q[First(q, S)] \in S
         /\ First(q, S) = 0 => \A n \in DOMAIN q : q[n] \notin S
<1> DEFINE hits == {n \in DOMAIN q : q[n] \in S}
<1>1. First(q, S) = IF hits = {} THEN 0 ELSE Min(hits)
  BY DEF First
<1>2. hits # {} => Min(hits) \in hits
  BY MinIs
<1> QED BY <1>1, <1>2

LEMMA EarliestIs ==
  ASSUME NEW P, P # {}, \A p \in P : \E t, n \in Nat : p = <<t, n>>
  PROVE  Earliest(P) \in P
<1> DEFINE T == {p[1] : p \in P}
           t == Min(T)
           N == {p[2] : p \in {q \in P : q[1] = t}}
<1>1. T \in SUBSET Nat /\ T # {}
  OBVIOUS
<1>2. t \in T
  BY <1>1, MinIs
<1>3. N \in SUBSET Nat /\ N # {}
  <2>1. \A p \in P : p[2] \in Nat
    OBVIOUS
  <2>2. PICK q \in P : q[1] = t
    BY <1>2
  <2> HIDE DEF t
  <2> QED BY <2>1, <2>2
<1>4. Min(N) \in N
  BY <1>3, MinIs
<1>5. PICK p \in P : p[1] = t /\ p[2] = Min(N)
  BY <1>4
<1>6. p = <<t, Min(N)>>
  BY <1>5
<1> QED BY <1>5, <1>6 DEF Earliest

\* Lists are numbered from 1, and what was loaded is Java's.
LEMMA StoreIs ==
  ASSUME Requested
  PROVE  /\ DOMAIN store.tasks \in SUBSET (Nat \ {0}) /\ DOMAIN store.delivery \in SUBSET (Nat \ {0})
         /\ store.delivery # <<>> => 1 \in DOMAIN store.delivery
         /\ \A t \in DOMAIN store.tasks :
               /\ DOMAIN store.tasks[t].steps \in SUBSET (Nat \ {0})
               /\ DOMAIN store.tasks[t].issues \in SUBSET (Nat \ {0})
               /\ DOMAIN store.tasks[t].reviews \in SUBSET (Nat \ {0})
<1>1. /\ Sequence(store.tasks) /\ Sequence(store.delivery)
      /\ \A t \in ToSet(store.tasks) : Sequence(t.steps) /\ Sequence(t.issues) /\ Sequence(t.reviews)
  BY SkillsAssumption DEF Requested
<1>2. ASSUME NEW x, Sequence(x) PROVE DOMAIN x = 1..Len(x) /\ DOMAIN x \in SUBSET (Nat \ {0})
  BY <1>2 DEF Sequence
<1>3. store.delivery # <<>> => 1 \in DOMAIN store.delivery
  BY <1>1 DEF Sequence
<1> QED BY <1>1, <1>2, <1>3 DEF ToSet

LEMMA KnownAre ==
  ASSUME FactsAgree, Requested
  PROVE  /\ \A t \in DOMAIN s.tasks : t \in DOMAIN store.tasks /\ s.tasks[t] = store.tasks[t].status
         /\ \A t \in DOMAIN s.progress : t \in DOMAIN store.tasks /\ s.progress[t] = store.tasks[t].steps
         /\ \A t \in DOMAIN s.quality_issues :
               t \in DOMAIN store.tasks /\ s.quality_issues[t] = store.tasks[t].issues
         /\ \A t \in DOMAIN s.reviews : t \in DOMAIN store.tasks /\ s.reviews[t] = store.tasks[t].reviews
         /\ s.delivery # None => s.delivery = store.delivery
         /\ s.tasks # <<>> => DOMAIN s.tasks = DOMAIN store.tasks
<1>1. \A t \in DOMAIN s.tasks : t \in DOMAIN store.tasks /\ s.tasks[t] = store.tasks[t].status
  BY DEF FactsAgree, GetOrderTasks
<1> QED BY <1>1 DEF FactsAgree, TaskFactsAgree, GetOrderTasks, GetProductionProgress, GetQualityIssues,
                    GetReviewResult, GetDeliveryStatus

\* A citation of what is known is reported by Java.
LEMMA CitedAre ==
  ASSUME FactsAgree, Requested
  PROVE  /\ \A t \in DOMAIN s.tasks : Reported(store, CiteTask(s, t))
         /\ \A t \in DOMAIN s.progress, n \in Nat : n \in DOMAIN s.progress[t] =>
               Reported(store, Cite("get_production_progress", t, n, s.progress[t][n]))
         /\ \A t \in DOMAIN s.quality_issues, n \in Nat : n \in DOMAIN s.quality_issues[t] =>
               Reported(store, CiteIssue(s, <<t, n>>))
         /\ \A t \in DOMAIN s.reviews, n \in Nat : n \in DOMAIN s.reviews[t] =>
               Reported(store, CiteReview(s, <<t, n>>))
         /\ s.delivery # None => \A n \in DOMAIN s.delivery :
               Reported(store, Cite("get_delivery_status", None, n, s.delivery[n]))
<1>1. \A t \in DOMAIN s.tasks : Reported(store, CiteTask(s, t))
  BY KnownAre DEF Reported, CiteTask, Cite
<1>2. \A t \in DOMAIN s.progress, n \in Nat : n \in DOMAIN s.progress[t] =>
         Reported(store, Cite("get_production_progress", t, n, s.progress[t][n]))
  BY KnownAre DEF Reported, Cite
<1>3. \A t \in DOMAIN s.quality_issues, n \in Nat : n \in DOMAIN s.quality_issues[t] =>
         Reported(store, CiteIssue(s, <<t, n>>))
  BY KnownAre DEF Reported, CiteIssue, Cite, IssueAt
<1>4. \A t \in DOMAIN s.reviews, n \in Nat : n \in DOMAIN s.reviews[t] =>
         Reported(store, CiteReview(s, <<t, n>>))
  BY KnownAre DEF Reported, CiteReview, Cite, ReviewAt
<1>5. s.delivery # None => \A n \in DOMAIN s.delivery :
         Reported(store, Cite("get_delivery_status", None, n, s.delivery[n]))
  BY KnownAre DEF Reported, Cite
<1> QED BY <1>1, <1>2, <1>3, <1>4, <1>5

\* What the property says of an answer for a stage.
Evidenced(stage, answer) ==
    /\ \A e \in answer.evidence : Reported(store, e)
    /\ \E e \in answer.evidence : Shows(stage, e)

LEMMA AnswerIs ==
  ASSUME NEW causes, NEW evidence, NEW suggestions
  PROVE  /\ Answer(causes, evidence, suggestions).evidence = evidence
         /\ Answer(causes, evidence, suggestions) = Raised => suggestions = {}
BY DEF Answer, Raised

\* A builder that cites one fact.
LEMMA CitesOne ==
  ASSUME NEW stage, NEW answer, NEW causes, NEW e, NEW suggestions,
         answer = Answer(causes, {e}, suggestions), suggestions # {}, Reported(store, e), Shows(stage, e)
  PROVE  Evidenced(stage, answer) /\ answer # Raised
<1>1. answer.evidence = {e} /\ (answer = Raised => suggestions = {})
  BY AnswerIs
<1> QED BY <1>1 DEF Evidenced

LEMMA ProductionIs ==
  ASSUME FactsAgree, Requested
  PROVE  /\ ProductionDiagnosis(s) # Raised => Evidenced("PRODUCTION", ProductionDiagnosis(s))
         /\ /\ DOMAIN s.progress = DOMAIN s.tasks
            /\ (ToSet(s.tasks) \cup Steps(s)) \cap ProductionActive # {}
            => ProductionDiagnosis(s) # Raised
<1> DEFINE S == ProductionActive
           task == First(s.tasks, S)
           hits == {t \in DOMAIN s.tasks : t \in DOMAIN s.progress => First(s.progress[t], S) # 0}
           t == Min(hits)
           cited == IF task # 0 THEN CiteTask(s, task) ELSE CiteStep(s, t, S)
<1>1. /\ DOMAIN s.tasks \in SUBSET (Nat \ {0})
      /\ \A u \in DOMAIN s.progress : DOMAIN s.progress[u] \in SUBSET (Nat \ {0})
  BY KnownAre, StoreIs
<1>2. ProductionDiagnosis(s) =
        IF task = 0 /\ (hits = {} \/ t \notin DOMAIN s.progress) THEN Raised
        ELSE Answer({"PRODUCTION_IN_PROGRESS"}, {cited}, {"WAIT_FOR_PRODUCTION"})
  BY DEF ProductionDiagnosis
<1>3. /\ task # 0 => task \in DOMAIN s.tasks /\ s.tasks[task] \in S
      /\ task = 0 => \A u \in DOMAIN s.tasks : s.tasks[u] \notin S
  BY <1>1, FirstIs
<1>4. hits # {} => t \in hits
  BY <1>1, MinIs
<1>5. \A u \in DOMAIN s.progress :
         /\ First(s.progress[u], S) # 0 => /\ First(s.progress[u], S) \in DOMAIN s.progress[u]
                                           /\ s.progress[u][First(s.progress[u], S)] \in S
         /\ First(s.progress[u], S) = 0 => \A n \in DOMAIN s.progress[u] : s.progress[u][n] \notin S
  BY <1>1, FirstIs
<1> HIDE DEF S, task, t
<1>6. CASE task # 0
  <2>1. cited = CiteTask(s, task)
    BY <1>6
  <2>2. Reported(store, cited)
    BY <1>3, <1>6, <2>1, CitedAre
  <2>3. Shows("PRODUCTION", cited)
    BY <1>3, <1>6, <2>1 DEF Shows, CiteTask, Cite, S, ProductionActive
  <2>4. ProductionDiagnosis(s) = Answer({"PRODUCTION_IN_PROGRESS"}, {cited}, {"WAIT_FOR_PRODUCTION"})
    BY <1>2, <1>6
  <2> HIDE DEF cited
  <2>5. Evidenced("PRODUCTION", ProductionDiagnosis(s)) /\ ProductionDiagnosis(s) # Raised
    BY <2>2, <2>3, <2>4, CitesOne
  <2> QED BY <2>5
<1>7. CASE task = 0 /\ hits # {} /\ t \in DOMAIN s.progress
  <2> DEFINE n == First(s.progress[t], S)
  <2>1. n # 0 /\ n \in DOMAIN s.progress[t] /\ s.progress[t][n] \in S /\ n \in Nat
    BY <1>1, <1>4, <1>5, <1>7
  <2>2. cited = Cite("get_production_progress", t, n, s.progress[t][n])
    BY <1>7 DEF CiteStep
  <2> HIDE DEF n
  <2>3. Reported(store, cited)
    BY <1>7, <2>1, <2>2, CitedAre
  <2>4. Shows("PRODUCTION", cited)
    BY <2>1, <2>2 DEF Shows, Cite, S, ProductionActive
  <2>5. ProductionDiagnosis(s) = Answer({"PRODUCTION_IN_PROGRESS"}, {cited}, {"WAIT_FOR_PRODUCTION"})
    BY <1>2, <1>7
  <2> HIDE DEF cited
  <2>6. Evidenced("PRODUCTION", ProductionDiagnosis(s)) /\ ProductionDiagnosis(s) # Raised
    BY <2>3, <2>4, <2>5, CitesOne
  <2> QED BY <2>6
<1>8. CASE task = 0 /\ (hits = {} \/ t \notin DOMAIN s.progress)
  <2>1. ASSUME DOMAIN s.progress = DOMAIN s.tasks, NEW x \in ToSet(s.tasks) \cup Steps(s), x \in S PROVE FALSE
    <3>1. x \in Steps(s)
      BY <1>3, <1>8, <2>1 DEF ToSet
    <3>2. PICK u \in DOMAIN s.progress : x \in ToSet(s.progress[u])
      BY <3>1 DEF Steps
    <3>3. First(s.progress[u], S) # 0
      BY <1>5, <2>1, <3>2 DEF ToSet
    <3>4. u \in hits
      BY <2>1, <3>2, <3>3
    <3> QED BY <1>4, <1>8, <2>1, <3>4
  <2> QED BY <1>2, <1>8, <2>1 DEF S
<1> QED BY <1>6, <1>7, <1>8

LEMMA ProductionBlockedIs ==
  ASSUME FactsAgree, Requested
  PROVE  /\ ProductionBlockedDiagnosis(s) # Raised =>
              Evidenced("PRODUCTION_BLOCKED", ProductionBlockedDiagnosis(s))
         /\ /\ DOMAIN s.progress = DOMAIN s.tasks
            /\ (ToSet(s.tasks) \cup Steps(s)) \cap ProductionFailed # {}
            => ProductionBlockedDiagnosis(s) # Raised
<1> DEFINE S == ProductionFailed
           hits == {t \in DOMAIN s.tasks :
                      \/ s.tasks[t] \in S
                      \/ t \in DOMAIN s.progress => First(s.progress[t], S) # 0}
           t == Min(hits)
           ofTask == s.tasks[t] \in S
           cited == IF ofTask THEN CiteTask(s, t) ELSE CiteStep(s, t, S)
<1>1. /\ DOMAIN s.tasks \in SUBSET (Nat \ {0})
      /\ \A u \in DOMAIN s.progress : DOMAIN s.progress[u] \in SUBSET (Nat \ {0})
  BY KnownAre, StoreIs
<1>2. ProductionBlockedDiagnosis(s) =
        IF hits = {} \/ (~ ofTask /\ t \notin DOMAIN s.progress) THEN Raised
        ELSE Answer({"PRODUCTION_EXECUTION_BLOCKED"}, {cited}, {"RETRY_PRODUCTION"})
  BY DEF ProductionBlockedDiagnosis
<1>3. hits # {} => t \in hits
  BY <1>1, MinIs
<1>4. \A u \in DOMAIN s.progress :
         /\ First(s.progress[u], S) # 0 => /\ First(s.progress[u], S) \in DOMAIN s.progress[u]
                                           /\ s.progress[u][First(s.progress[u], S)] \in S
         /\ First(s.progress[u], S) = 0 => \A n \in DOMAIN s.progress[u] : s.progress[u][n] \notin S
  BY <1>1, FirstIs
<1> HIDE DEF S, t
<1>5. CASE hits # {} /\ ofTask
  <2>1. cited = CiteTask(s, t) /\ t \in DOMAIN s.tasks
    BY <1>3, <1>5
  <2>2. Reported(store, cited)
    BY <2>1, CitedAre
  <2>3. Shows("PRODUCTION_BLOCKED", cited)
    BY <1>5, <2>1 DEF Shows, CiteTask, Cite, S, ProductionFailed
  <2>4. ProductionBlockedDiagnosis(s) = Answer({"PRODUCTION_EXECUTION_BLOCKED"}, {cited}, {"RETRY_PRODUCTION"})
    BY <1>2, <1>5
  <2> HIDE DEF cited
  <2>5. Evidenced("PRODUCTION_BLOCKED", ProductionBlockedDiagnosis(s)) /\ ProductionBlockedDiagnosis(s) # Raised
    BY <2>2, <2>3, <2>4, CitesOne
  <2> QED BY <2>5
<1>6. CASE hits # {} /\ ~ ofTask /\ t \in DOMAIN s.progress
  <2> DEFINE n == First(s.progress[t], S)
  <2>1. n # 0 /\ n \in DOMAIN s.progress[t] /\ s.progress[t][n] \in S /\ n \in Nat
    BY <1>1, <1>3, <1>4, <1>6
  <2>2. cited = Cite("get_production_progress", t, n, s.progress[t][n])
    BY <1>6 DEF CiteStep
  <2> HIDE DEF n
  <2>3. Reported(store, cited)
    BY <1>6, <2>1, <2>2, CitedAre
  <2>4. Shows("PRODUCTION_BLOCKED", cited)
    BY <2>1, <2>2 DEF Shows, Cite, S, ProductionFailed
  <2>5. ProductionBlockedDiagnosis(s) = Answer({"PRODUCTION_EXECUTION_BLOCKED"}, {cited}, {"RETRY_PRODUCTION"})
    BY <1>2, <1>6
  <2> HIDE DEF cited
  <2>6. Evidenced("PRODUCTION_BLOCKED", ProductionBlockedDiagnosis(s)) /\ ProductionBlockedDiagnosis(s) # Raised
    BY <2>3, <2>4, <2>5, CitesOne
  <2> QED BY <2>6
<1>7. CASE hits = {} \/ (~ ofTask /\ t \notin DOMAIN s.progress)
  <2>1. ASSUME DOMAIN s.progress = DOMAIN s.tasks, NEW x \in ToSet(s.tasks) \cup Steps(s), x \in S PROVE FALSE
    <3>1. hits = {}
      BY <1>3, <1>7, <2>1
    <3>2. x \in Steps(s)
      BY <2>1, <3>1 DEF ToSet
    <3>3. PICK u \in DOMAIN s.progress : x \in ToSet(s.progress[u])
      BY <3>2 DEF Steps
    <3>4. First(s.progress[u], S) # 0
      BY <1>4, <2>1, <3>3 DEF ToSet
    <3> QED BY <2>1, <3>1, <3>3, <3>4
  <2> QED BY <1>2, <1>7, <2>1 DEF S
<1> QED BY <1>5, <1>6, <1>7

\* The listed issues and reviews are pairs of numbers, and what is there is Java's.
LEMMA PositionsAre ==
  ASSUME FactsAgree, Requested
  PROVE  /\ DOMAIN s.tasks \subseteq DOMAIN s.quality_issues =>
              \A p \in Positions(s, s.quality_issues) :
                 /\ \E t, n \in Nat : p = <<t, n>>
                 /\ p[1] \in DOMAIN s.tasks /\ Reported(store, CiteIssue(s, p))
         /\ DOMAIN s.tasks \subseteq DOMAIN s.reviews =>
              \A p \in IndexedReviews(s) :
                 (\E t, n \in Nat : p = <<t, n>>) /\ Reported(store, CiteReview(s, p))
<1>1. DOMAIN s.tasks \in SUBSET Nat
  BY KnownAre, StoreIs
<1>2. ASSUME DOMAIN s.tasks \subseteq DOMAIN s.quality_issues, NEW p \in Positions(s, s.quality_issues)
      PROVE  /\ \E t, n \in Nat : p = <<t, n>>
             /\ p[1] \in DOMAIN s.tasks /\ Reported(store, CiteIssue(s, p))
  <2>1. PICK t \in DOMAIN s.tasks : \E n \in DOMAIN s.quality_issues[t] : p = <<t, n>>
    BY DEF Positions
  <2>2. PICK n \in DOMAIN s.quality_issues[t] : p = <<t, n>>
    BY <2>1
  <2>3. t \in Nat /\ n \in Nat /\ t \in DOMAIN s.quality_issues
    BY <1>1, <1>2, KnownAre, StoreIs
  <2>4. Reported(store, CiteIssue(s, <<t, n>>))
    BY <2>3, CitedAre
  <2> QED BY <2>2, <2>3, <2>4
<1>3. ASSUME DOMAIN s.tasks \subseteq DOMAIN s.reviews, NEW p \in IndexedReviews(s)
      PROVE  (\E t, n \in Nat : p = <<t, n>>) /\ Reported(store, CiteReview(s, p))
  <2>1. PICK t \in DOMAIN s.tasks : \E n \in DOMAIN s.reviews[t] : p = <<t, n>>
    BY DEF IndexedReviews, Positions
  <2>2. PICK n \in DOMAIN s.reviews[t] : p = <<t, n>>
    BY <2>1
  <2>3. t \in Nat /\ n \in Nat /\ t \in DOMAIN s.reviews
    BY <1>1, <1>3, KnownAre, StoreIs
  <2>4. Reported(store, CiteReview(s, <<t, n>>))
    BY <2>3, CitedAre
  <2> QED BY <2>2, <2>3, <2>4
<1> QED BY <1>2, <1>3

\* Every issue and every review of the order's tasks has its place.
LEMMA PlaceOf ==
  ASSUME DOMAIN s.quality_issues \subseteq DOMAIN s.tasks, DOMAIN s.reviews \subseteq DOMAIN s.tasks
  PROVE  /\ \A i \in AllIssues(s) : \E p \in Positions(s, s.quality_issues) : i = IssueAt(s, p)
         /\ \A r \in AllReviews(s) : \E p \in IndexedReviews(s) : r = ReviewAt(s, p)
<1>1. ASSUME NEW i \in AllIssues(s) PROVE \E p \in Positions(s, s.quality_issues) : i = IssueAt(s, p)
  <2>1. PICK t \in DOMAIN s.quality_issues : i \in ToSet(s.quality_issues[t])
    BY DEF AllIssues
  <2>2. PICK n \in DOMAIN s.quality_issues[t] : i = s.quality_issues[t][n]
    BY <2>1 DEF ToSet
  <2>3. <<t, n>> \in Positions(s, s.quality_issues) /\ IssueAt(s, <<t, n>>) = i
    BY <2>2 DEF Positions, IssueAt
  <2> QED BY <2>3
<1>2. ASSUME NEW r \in AllReviews(s) PROVE \E p \in IndexedReviews(s) : r = ReviewAt(s, p)
  <2>1. PICK t \in DOMAIN s.reviews : r \in ToSet(s.reviews[t])
    BY DEF AllReviews
  <2>2. PICK n \in DOMAIN s.reviews[t] : r = s.reviews[t][n]
    BY <2>1 DEF ToSet
  <2>3. <<t, n>> \in IndexedReviews(s) /\ ReviewAt(s, <<t, n>>) = r
    BY <2>2 DEF IndexedReviews, Positions, ReviewAt
  <2> QED BY <2>3
<1> QED BY <1>1, <1>2

LEMMA QualityReviewIs ==
  ASSUME FactsAgree, Requested, s.tasks # <<>>, \E i \in AllIssues(s) : i.status \in QualityUnresolved
  PROVE  /\ QualityReviewDiagnosis(s) # Raised => Evidenced("QUALITY_REVIEW", QualityReviewDiagnosis(s))
         /\ DOMAIN s.quality_issues = DOMAIN s.tasks /\ DOMAIN s.reviews = DOMAIN s.tasks
            => QualityReviewDiagnosis(s) # Raised
<1> DEFINE issues == IndexedIssues(s, QualityUnresolved)
           pending == PendingReview(s, issues)
           coordinate == {p \in issues : IssueAt(s, p).type = "COORDINATE_SYSTEM"}
           causes == {"OPEN_COORDINATE_SYSTEM_ISSUE" : p \in coordinate}
                       \cup {"UNRESOLVED_QUALITY_ISSUE" : p \in issues \ coordinate}
                       \cup {"REVIEW_PENDING" : p \in pending}
           delivery == IF s.delivery = None THEN {} ELSE
                       {Cite("get_delivery_status", None, n, s.delivery[n]) :
                           n \in {m \in DOMAIN s.delivery : s.delivery[m] \in DeliveryBlocked}}
           evidence == {CiteTask(s, p[1]) : p \in issues} \cup {CiteIssue(s, p) : p \in issues}
                         \cup {CiteReview(s, p) : p \in pending} \cup delivery
           suggestions == {IF coordinate # {} THEN "CREATE_COORDINATE_SYSTEM_REWORK"
                           ELSE "CREATE_QUALITY_REWORK", "RESUBMIT_REVIEW"}
           missing == \E t \in DOMAIN s.tasks : t \notin DOMAIN s.quality_issues \/ t \notin DOMAIN s.reviews
<1>1. QualityReviewDiagnosis(s) = IF missing THEN Raised ELSE Answer(causes, evidence, suggestions)
  BY DEF QualityReviewDiagnosis
<1>2. suggestions # {}
  OBVIOUS
<1>3. ASSUME ~ missing
      PROVE  Evidenced("QUALITY_REVIEW", Answer(causes, evidence, suggestions))
  <2>1. /\ DOMAIN s.tasks \subseteq DOMAIN s.quality_issues /\ DOMAIN s.tasks \subseteq DOMAIN s.reviews
        /\ DOMAIN s.quality_issues \subseteq DOMAIN s.tasks /\ DOMAIN s.reviews \subseteq DOMAIN s.tasks
    BY <1>3, KnownAre
  <2>2. \A p \in issues : p[1] \in DOMAIN s.tasks /\ Reported(store, CiteIssue(s, p))
    BY <2>1, PositionsAre DEF IndexedIssues
  <2>3. pending \subseteq IndexedReviews(s)
    <3> DEFINE ids == {IssueAt(s, p).id : p \in issues}
               found == {p \in IndexedReviews(s) : ReviewAt(s, p).issue \in ids}
    <3>1. pending = IF found = {} THEN {} ELSE {p \in {Earliest(found)} : ReviewAt(s, p).status # "APPROVED"}
      BY DEF PendingReview
    <3>2. found # {} => Earliest(found) \in found
      <4>1. \A p \in found : \E t, n \in Nat : p = <<t, n>>
        BY <2>1, PositionsAre
      <4> HIDE DEF found
      <4> QED BY <4>1, EarliestIs
    <3> HIDE DEF pending
    <3> QED BY <3>1, <3>2
  <2>4. PICK i \in AllIssues(s) : i.status \in QualityUnresolved
    OBVIOUS
  <2>5. PICK p \in Positions(s, s.quality_issues) : i = IssueAt(s, p)
    BY <2>1, PlaceOf
  <2>6. p \in issues
    BY <2>4, <2>5 DEF IndexedIssues
  <2> HIDE DEF issues, pending, missing
  <2>7. Shows("QUALITY_REVIEW", CiteIssue(s, p)) /\ CiteIssue(s, p) \in evidence
    BY <2>4, <2>5, <2>6 DEF Shows, CiteIssue, Cite, QualityUnresolved
  <2>8. ASSUME NEW e \in evidence PROVE Reported(store, e)
    <3>1. CASE e \in {CiteTask(s, q[1]) : q \in issues}
      BY <2>2, <3>1, CitedAre
    <3>2. CASE e \in {CiteIssue(s, q) : q \in issues}
      BY <2>2, <3>2
    <3>3. CASE e \in {CiteReview(s, q) : q \in pending}
      BY <2>1, <2>3, <3>3, PositionsAre
    <3>4. CASE e \in delivery
      BY <3>4, CitedAre
    <3> QED BY <2>8, <3>1, <3>2, <3>3, <3>4
  <2> HIDE DEF evidence, causes, suggestions
  <2> QED BY <2>7, <2>8, AnswerIs DEF Evidenced
<1> HIDE DEF causes, evidence, suggestions
<1>4. Answer(causes, evidence, suggestions) # Raised
  BY <1>2, AnswerIs
<1> QED BY <1>1, <1>3, <1>4

LEMMA ReviewIs ==
  ASSUME FactsAgree, Requested, s.tasks # <<>>, RequiresReview(s)
  PROVE  /\ ReviewDiagnosis(s) # Raised => Evidenced("REVIEW", ReviewDiagnosis(s))
         /\ DOMAIN s.quality_issues = DOMAIN s.tasks /\ DOMAIN s.reviews = DOMAIN s.tasks
            => ReviewDiagnosis(s) # Raised
<1> DEFINE open == {p \in IndexedReviews(s) : ReviewAt(s, p).status # "APPROVED"}
           resolved == IndexedIssues(s, {"RESOLVED"})
<1>1. ReviewDiagnosis(s) =
        IF DOMAIN s.tasks \ DOMAIN s.reviews # {} THEN Raised
        ELSE IF open # {}
             THEN Answer({"REVIEW_NOT_APPROVED"}, {CiteReview(s, Earliest(open))}, {"COMPLETE_REVIEW"})
        ELSE IF DOMAIN s.tasks \ DOMAIN s.quality_issues # {} \/ resolved = {} THEN Raised
        ELSE Answer({"REVIEW_MISSING"}, {CiteIssue(s, Earliest(resolved))}, {"SUBMIT_REVIEW"})
  BY DEF ReviewDiagnosis
<1>2. DOMAIN s.quality_issues \subseteq DOMAIN s.tasks /\ DOMAIN s.reviews \subseteq DOMAIN s.tasks
  BY KnownAre
<1>3. CASE DOMAIN s.tasks \subseteq DOMAIN s.reviews /\ open # {}
  <2>1. \A p \in open : (\E t, n \in Nat : p = <<t, n>>) /\ Reported(store, CiteReview(s, p))
    BY <1>3, PositionsAre
  <2>2. \A p \in open : Shows("REVIEW", CiteReview(s, p))
    BY DEF Shows, CiteReview, Cite
  <2>3. Earliest(open) \in open
    <3> HIDE DEF open
    <3> QED BY <1>3, <2>1, EarliestIs
  <2>4. ReviewDiagnosis(s) =
          Answer({"REVIEW_NOT_APPROVED"}, {CiteReview(s, Earliest(open))}, {"COMPLETE_REVIEW"})
    BY <1>1, <1>3
  <2> HIDE DEF open
  <2> QED BY <2>1, <2>2, <2>3, <2>4, CitesOne
<1>4. CASE /\ DOMAIN s.tasks \subseteq DOMAIN s.reviews /\ open = {}
           /\ DOMAIN s.tasks \subseteq DOMAIN s.quality_issues /\ resolved # {}
  <2>1. \A p \in resolved : (\E t, n \in Nat : p = <<t, n>>) /\ Reported(store, CiteIssue(s, p))
    BY <1>4, PositionsAre DEF IndexedIssues
  <2>2. \A p \in resolved : Shows("REVIEW", CiteIssue(s, p))
    <3>1. \A r \in AllReviews(s) : r.status = "APPROVED"
      BY <1>2, <1>4, PlaceOf
    <3>2. MissingReview(store)
      BY <1>2, <1>4, <3>1, ReviewIsMissing
    <3> QED BY <3>2 DEF Shows, CiteIssue, Cite, IndexedIssues
  <2>3. Earliest(resolved) \in resolved
    <3> HIDE DEF resolved
    <3> QED BY <1>4, <2>1, EarliestIs
  <2>4. ReviewDiagnosis(s) = Answer({"REVIEW_MISSING"}, {CiteIssue(s, Earliest(resolved))}, {"SUBMIT_REVIEW"})
    BY <1>1, <1>4
  <2> HIDE DEF resolved
  <2> QED BY <2>1, <2>2, <2>3, <2>4, CitesOne
<1>5. ASSUME DOMAIN s.tasks = DOMAIN s.reviews, DOMAIN s.tasks = DOMAIN s.quality_issues, open = {}
      PROVE  resolved # {}
  <2>1. \A r \in AllReviews(s) : r.status = "APPROVED"
    BY <1>2, <1>5, PlaceOf
  <2>2. PICK i \in AllIssues(s) : i.status = "RESOLVED"
    BY <2>1 DEF RequiresReview
  <2>3. PICK p \in Positions(s, s.quality_issues) : i = IssueAt(s, p)
    BY <1>2, PlaceOf
  <2>4. p \in resolved
    BY <2>2, <2>3 DEF IndexedIssues
  <2> QED BY <2>4
<1>6. CASE \/ ~ (DOMAIN s.tasks \subseteq DOMAIN s.reviews)
           \/ open = {} /\ (~ (DOMAIN s.tasks \subseteq DOMAIN s.quality_issues) \/ resolved = {})
  <2>1. ReviewDiagnosis(s) = Raised
    BY <1>1, <1>6
  <2> HIDE DEF open, resolved
  <2> QED BY <1>5, <1>6, <2>1
<1> QED BY <1>3, <1>4, <1>6

LEMMA DeliveryIs ==
  ASSUME FactsAgree, Requested, s.delivery # None, ToSet(s.delivery) \cap DeliveryBlocked # {}
  PROVE  Evidenced("DELIVERY", DeliveryDiagnosis(s)) /\ DeliveryDiagnosis(s) # Raised
<1> DEFINE n == First(s.delivery, DeliveryBlocked)
<1>1. DOMAIN s.delivery \in SUBSET (Nat \ {0})
  BY KnownAre, StoreIs
<1>2. n \in DOMAIN s.delivery /\ s.delivery[n] \in DeliveryBlocked
  BY <1>1, FirstIs DEF ToSet
<1>3. DeliveryDiagnosis(s) = Answer({"DELIVERY_NOT_READY"},
                                    {Cite("get_delivery_status", None, n, s.delivery[n])},
                                    {"RESOLVE_DELIVERY_BLOCKER"})
  BY DEF DeliveryDiagnosis
<1> HIDE DEF n
<1>4. Reported(store, Cite("get_delivery_status", None, n, s.delivery[n]))
  BY <1>2, CitedAre
<1>5. Shows("DELIVERY", Cite("get_delivery_status", None, n, s.delivery[n]))
  BY <1>2 DEF Shows, Cite, DeliveryBlocked
<1> QED BY <1>3, <1>4, <1>5, CitesOne

LEMMA NoBlockerIs ==
  ASSUME FactsAgree, Requested, s.delivery # None, ToSet(s.delivery) \cap DeliveryBlocked = {}
  PROVE  /\ NoBlockerDiagnosis(s) # Raised => Evidenced("NONE", NoBlockerDiagnosis(s))
         /\ HasValidDelivery(s) => NoBlockerDiagnosis(s) # Raised
<1> DEFINE cited == Cite("get_delivery_status", None, 1, s.delivery[1])
<1>1. NoBlockerDiagnosis(s) =
        IF ~ HasValidDelivery(s) THEN Raised ELSE Answer({}, {cited}, {"CONTINUE_DELIVERY"})
  BY DEF NoBlockerDiagnosis
<1>2. CASE HasValidDelivery(s)
  <2>1. 1 \in DOMAIN s.delivery /\ s.delivery[1] \notin DeliveryBlocked
    BY <1>2, KnownAre, StoreIs DEF HasValidDelivery, ToSet
  <2>2. Reported(store, cited)
    BY <2>1, CitedAre
  <2>3. Shows("NONE", cited)
    BY <2>1 DEF Shows, Cite, DeliveryBlocked
  <2> HIDE DEF cited
  <2>4. Answer({}, {cited}, {"CONTINUE_DELIVERY"}) # Raised
    BY AnswerIs
  <2>5. Evidenced("NONE", Answer({}, {cited}, {"CONTINUE_DELIVERY"}))
    BY <2>2, <2>3, AnswerIs DEF Evidenced
  <2> QED BY <1>1, <1>2, <2>4, <2>5
<1> QED BY <1>1, <1>2

\* An answer for the stage of the loaded facts cites what shows it, and with all
\* facts there is one.
LEMMA EvidenceIs ==
  ASSUME FactsAgree, Requested, s.tasks # <<>>,
         NEW stage, stage = EvaluateLoadedFacts(s), stage # "INSUFFICIENT_INFORMATION"
  PROVE  LET answer == GenerateRuleDiagnosis(stage, s)
         IN  (answer # Raised => Evidenced(stage, answer)) /\ (HasCompleteFacts(s) => answer # Raised)
<1> DEFINE production == ToSet(s.tasks) \cup Steps(s)
<1>1. \/ stage = "PRODUCTION_BLOCKED" /\ production \cap ProductionFailed # {}
      \/ stage = "PRODUCTION" /\ production \cap ProductionActive # {}
      \/ stage = "QUALITY_REVIEW" /\ \E i \in AllIssues(s) : i.status \in QualityUnresolved
      \/ stage = "REVIEW" /\ RequiresReview(s)
      \/ stage = "DELIVERY" /\ s.delivery # None /\ ToSet(s.delivery) \cap DeliveryBlocked # {}
      \/ stage = "NONE" /\ s.delivery # None /\ ToSet(s.delivery) \cap DeliveryBlocked = {}
  BY DEF EvaluateLoadedFacts
<1>2. HasCompleteFacts(s) => /\ DOMAIN s.progress = DOMAIN s.tasks /\ DOMAIN s.quality_issues = DOMAIN s.tasks
                             /\ DOMAIN s.reviews = DOMAIN s.tasks /\ HasValidDelivery(s)
  BY DEF HasCompleteFacts
<1>3. CASE stage = "PRODUCTION_BLOCKED" /\ production \cap ProductionFailed # {}
  BY <1>2, <1>3, ProductionBlockedIs DEF GenerateRuleDiagnosis
<1>4. CASE stage = "PRODUCTION" /\ production \cap ProductionActive # {}
  BY <1>2, <1>4, ProductionIs DEF GenerateRuleDiagnosis
<1>5. CASE stage = "QUALITY_REVIEW" /\ \E i \in AllIssues(s) : i.status \in QualityUnresolved
  BY <1>2, <1>5, QualityReviewIs DEF GenerateRuleDiagnosis
<1>6. CASE stage = "REVIEW" /\ RequiresReview(s)
  BY <1>2, <1>6, ReviewIs DEF GenerateRuleDiagnosis
<1>7. CASE stage = "DELIVERY" /\ s.delivery # None /\ ToSet(s.delivery) \cap DeliveryBlocked # {}
  BY <1>2, <1>7, DeliveryIs DEF GenerateRuleDiagnosis
<1>8. CASE stage = "NONE" /\ s.delivery # None /\ ToSet(s.delivery) \cap DeliveryBlocked = {}
  BY <1>2, <1>8, NoBlockerIs DEF GenerateRuleDiagnosis
<1> QED BY <1>1, <1>3, <1>4, <1>5, <1>6, <1>7, <1>8

\* The fixed workflow's rules always find an answer, if only that facts are
\* missing.
LEMMA RulesAnswer ==
  ASSUME FactsAgree, Requested
  PROVE  GenerateRuleDiagnosis(EvaluateDiagnosisRules(s), s) # Raised
<1>1. InsufficientDiagnosis(s) # Raised
  BY AnswerIs DEF InsufficientDiagnosis
<1> DEFINE stage == EvaluateDiagnosisRules(s)
<1>2. CASE stage = "INSUFFICIENT_INFORMATION"
  BY <1>1, <1>2 DEF GenerateRuleDiagnosis
<1>3. CASE stage # "INSUFFICIENT_INFORMATION"
  <2>1. HasCompleteFacts(s) /\ stage = EvaluateLoadedFacts(s)
    BY <1>3 DEF EvaluateDiagnosisRules
  <2>2. s.tasks # <<>>
    BY <2>1 DEF HasCompleteFacts
  <2> HIDE DEF stage
  <2>3. GenerateRuleDiagnosis(stage, s) # Raised
    BY <1>3, <2>1, <2>2, EvidenceIs
  <2> QED BY <2>3 DEF stage
<1> QED BY <1>2, <1>3

----------------------------------------------------------------------------
\* The steps of a skill.

\* The request stays what it was.
LEMMA FactsStay == ASSUME [Next]_vars PROVE UNCHANGED facts
<1>1. CASE SkillStep
  <2>1. CASE DiagnosisStep
    BY <2>1 DEF DiagnosisStep, Initialize, PlanNextAction, ModelFails, PlanStops, ValidateAction,
                ExecuteRead, ReadFails, ExecuteFinish, RetrieveSpec, SpecificationObserved,
                GenerateResult, ExceptionalFinish, Load, ValidatePageContext, DiagnoseByRules
  <2>2. CASE ReviewStep
    BY <2>2 DEF ReviewStep, SourceDiagnosis, ReadTask, ReadQualityIssues, ReviewReadFails, AskForReview,
                SpecificationForReview, GenerateDraft
  <2>3. CASE Dispatch \/ RetryRead \/ OrderStatus \/ AskSpecification \/ SpecificationAnswered
    BY <2>3 DEF Dispatch, RetryRead, OrderStatus, AskSpecification, SpecificationAnswered
  <2>4. CASE SpecificationStep
    BY <2>4 DEF SpecificationStep, skillVars, facts
  <2> QED BY <1>1, <2>1, <2>2, <2>3, <2>4 DEF SkillStep
<1>2. CASE TaskChanges \/ Ingest \/ UNCHANGED vars
  BY <1>2 DEF TaskChanges, Ingest, vars, skillVars, facts
<1> QED BY <1>1, <1>2 DEF Next

\* A call only runs by its own steps.
LEMMA CallGoes ==
  ASSUME [Next]_vars
  PROVE  \/ UNCHANGED ragVars \/ \E q : Ask(q)
         \/ Return \/ SpecificationStep \/ IngestCatalog
<1>1. CASE SkillStep
  <2>1. CASE DiagnosisStep
    BY <2>1 DEF DiagnosisStep, Initialize, PlanNextAction, ModelFails, PlanStops, ValidateAction,
                ExecuteRead, ReadFails, ExecuteFinish, RetrieveSpec, SpecificationObserved,
                GenerateResult, ExceptionalFinish, Load, ValidatePageContext, DiagnoseByRules
  <2>2. CASE ReviewStep
    BY <2>2 DEF ReviewStep, SourceDiagnosis, ReadTask, ReadQualityIssues, ReviewReadFails, AskForReview,
                SpecificationForReview, GenerateDraft
  <2>3. CASE Dispatch \/ RetryRead \/ OrderStatus \/ AskSpecification \/ SpecificationAnswered
    BY <2>3 DEF Dispatch, RetryRead, OrderStatus, AskSpecification, SpecificationAnswered
  <2> QED BY <1>1, <2>1, <2>2, <2>3 DEF SkillStep
<1>2. CASE TaskChanges \/ Ingest \/ UNCHANGED vars
  BY <1>2 DEF TaskChanges, Ingest, vars, ragVars
<1> QED BY <1>1, <1>2 DEF Next

LEMMA CallNext == ASSUME CallInv, Requested, [Next]_vars PROVE CallInv'
<1>1. CASE UNCHANGED ragVars
  BY <1>1, CallWaits
<1>2. ASSUME NEW q, Ask(q) PROVE CallInv'
  BY <1>2, CallBegins
<1>3. CASE Return
  BY <1>3, CallReturns
<1>4. CASE SpecificationStep
  BY <1>4, CallSteps, RequestIs
<1>5. CASE IngestCatalog
  BY <1>5, CallIngests
<1> QED BY <1>1, <1>2, <1>3, <1>4, <1>5, CallGoes

\* A skill stays on the way of its flow, and its outcome is its end.
LEMMA PlacedNext == ASSUME Placed, Requested, FactsAgree, [Next]_vars PROVE Placed'
<1>1. flow \in {"status", "dynamic", "specification", "review", "fixed"} /\ flow' = flow /\ UNCHANGED store
  BY RequestIs, FactsStay DEF facts
<1>2. /\ Places["status"] = {"dispatch", "status", "end"}
      /\ Places["dynamic"] = {"dispatch", "initialize", "plan", "validate", "execute", "retrieving",
                              "generate", "exceptional", "end"}
      /\ Places["specification"] = {"dispatch", "specification", "answering", "end"}
      /\ Places["review"] = {"dispatch", "source", "read_task", "read_issues", "ask_specification",
                             "reviewing", "draft", "end"}
      /\ Places["fixed"] = {"dispatch", "diagnose_by_rules", "end"} \cup ToSet(LoaderNodes)
  BY DEF Places
<1>3. /\ at \in Places[flow]
      /\ outcome.status # "RUNNING" => at = "end"
      /\ at \in {"validate", "execute", "retrieving"} => decision \in Decisions
  BY DEF Placed
<1> DEFINE Stays == at' \in Places[flow] /\ (outcome'.status # "RUNNING" => at' = "end")
           Chosen == at' \in {"validate", "execute", "retrieving"} => decision' \in Decisions'
           AtEnd == at' = "end" \/ UNCHANGED outcome
<1>4. ASSUME UNCHANGED <<at, outcome, decision, s>> PROVE Placed'
  BY <1>1, <1>3, <1>4 DEF Placed, Decisions
<1>5. CASE Dispatch
  <2>1. Stays
    BY <1>1, <1>2, <1>3, <1>5, LoaderNodesAre DEF Dispatch, FailSkill, End
  <2>2. Chosen
    BY <1>1, <1>5 DEF Dispatch, FailSkill, End
  <2> QED BY <1>1, <2>1, <2>2 DEF Placed
<1>6. CASE RetryRead \/ TaskChanges \/ Ingest \/ UNCHANGED vars \/ SpecificationStep
  <2>1. UNCHANGED <<at, outcome, decision, s>>
    BY <1>6 DEF RetryRead, TaskChanges, Ingest, vars, skillVars, SpecificationStep, loop
  <2> QED BY <1>4, <2>1
<1>7. CASE OrderStatus \/ AskSpecification \/ SpecificationAnswered
  <2>1. Stays
    BY <1>1, <1>2, <1>3, <1>7, LoaderNodesAre
       DEF OrderStatus, AskSpecification, SpecificationAnswered, FailSkill, End
  <2>2. Chosen
    BY <1>7 DEF OrderStatus, AskSpecification, SpecificationAnswered, FailSkill, End
  <2> QED BY <1>1, <2>1, <2>2 DEF Placed
<1>8. CASE ReviewStep
  <2>1. at \in {"source", "read_task", "read_issues", "ask_specification", "reviewing", "draft"}
    BY <1>8 DEF ReviewStep, SourceDiagnosis, ReadTask, ReadQualityIssues, ReviewReadFails, AskForReview,
                SpecificationForReview, GenerateDraft
  <2>2. flow = "review" /\ outcome.status = "RUNNING"
    BY <1>1, <1>2, <1>3, <2>1, LoaderNodesAre
  <2>3. /\ at' \in {"read_task", "read_issues", "ask_specification", "reviewing", "draft", "end"}
        /\ AtEnd
    <3>1. CASE SourceDiagnosis \/ ReadTask \/ ReadQualityIssues \/ ReviewReadFails
      BY <3>1 DEF SourceDiagnosis, ReadTask, ReadQualityIssues, ReviewReadFails, FailSkill, End
    <3>2. CASE AskForReview \/ SpecificationForReview \/ GenerateDraft
      BY <3>2 DEF AskForReview, SpecificationForReview, GenerateDraft, FailSkill, End
    <3> QED BY <1>8, <3>1, <3>2 DEF ReviewStep
  <2> QED BY <1>1, <1>2, <2>2, <2>3 DEF Placed
<1>9. CASE Load \/ ValidatePageContext \/ DiagnoseByRules
  <2>1. at \in ToSet(LoaderNodes) \cup {"diagnose_by_rules"}
    BY <1>9, LoaderNodesAre DEF Load, ValidatePageContext, DiagnoseByRules
  <2>2. flow = "fixed" /\ outcome.status = "RUNNING"
    BY <1>1, <1>2, <1>3, <2>1, LoaderNodesAre
  <2>3. at' \in ToSet(LoaderNodes) \cup {"diagnose_by_rules", "end"} /\ AtEnd
    BY <1>9, LoaderNodesAre DEF Load, ValidatePageContext, DiagnoseByRules, FailSkill, End
  <2> QED BY <1>1, <1>2, <2>2, <2>3, LoaderNodesAre DEF Placed
<1>10. CASE Initialize \/ PlanStops \/ ValidateAction \/ PlanNextAction \/ ModelFails
  <2>1. at \in {"initialize", "plan", "validate"} /\ AtEnd
    BY <1>10 DEF Initialize, PlanStops, ValidateAction, PlanNextAction, ModelFails, FailSkill, End
  <2>2. flow = "dynamic" /\ outcome.status = "RUNNING"
    BY <1>1, <1>2, <1>3, <2>1, LoaderNodesAre
  <2>3. at' \in {"plan", "validate", "execute", "generate", "exceptional", "end"}
    BY <1>10 DEF Initialize, PlanStops, ValidateAction, PlanNextAction, ModelFails, FailSkill, End
  <2>4. Chosen
    <3>1. CASE Initialize \/ PlanStops
      BY <3>1 DEF Initialize, PlanStops, FailSkill, End
    <3>2. CASE ValidateAction
      <4>1. at' = "exceptional" \/ UNCHANGED s
        BY <3>2 DEF ValidateAction
      <4>2. UNCHANGED decision /\ decision \in Decisions
        BY <1>3, <3>2 DEF ValidateAction, loop
      <4> QED BY <4>1, <4>2 DEF Decisions
    <3>3. CASE PlanNextAction \/ ModelFails
      BY <3>3 DEF PlanNextAction, ModelFails, Decisions
    <3> QED BY <1>10, <3>1, <3>2, <3>3
  <2> QED BY <1>1, <1>2, <2>1, <2>2, <2>3, <2>4 DEF Placed
<1>11. CASE ExecuteRead \/ ReadFails \/ ExecuteFinish \/ RetrieveSpec \/ SpecificationObserved
  <2>1. at \in {"execute", "retrieving"} /\ UNCHANGED outcome
    BY <1>11 DEF ExecuteRead, ReadFails, ExecuteFinish, RetrieveSpec, SpecificationObserved
  <2>2. flow = "dynamic" /\ outcome.status = "RUNNING"
    BY <1>1, <1>2, <1>3, <2>1, LoaderNodesAre
  <2>3. at' \in {"plan", "retrieving", "generate", "exceptional"}
    BY <1>11 DEF ExecuteRead, ReadFails, ExecuteFinish, RetrieveSpec, SpecificationObserved, Observe
  <2>4. at' = "retrieving" => UNCHANGED <<decision, s>>
    BY <1>11 DEF ExecuteRead, ReadFails, ExecuteFinish, RetrieveSpec, SpecificationObserved, Observe, loop
  <2>5. Chosen
    BY <1>3, <2>1, <2>3, <2>4 DEF Decisions
  <2> QED BY <1>1, <1>2, <2>1, <2>2, <2>3, <2>5 DEF Placed
<1>12. CASE GenerateResult \/ ExceptionalFinish
  <2>1. at' = "end"
    BY <1>12 DEF GenerateResult, ExceptionalFinish, Answered, FailSkill, End
  <2> QED BY <1>1, <1>2, <2>1 DEF Placed
<1> QED BY <1>5, <1>6, <1>7, <1>8, <1>9, <1>10, <1>11, <1>12 DEF Next, SkillStep, DiagnosisStep

\* Only what Java answers becomes a loaded fact.
LEMMA FactsNext == ASSUME FactsAgree, Placed, Requested, [Next]_vars PROVE FactsAgree'
<1>1. UNCHANGED store /\ None \notin DOMAIN store.tasks
  BY RequestIs, FactsStay DEF facts
<1>2. CASE ExecuteRead
  <2>1. /\ s' = MergeBusinessFact(decision) /\ decision \in Decisions
        /\ decision.action \in OrderActions \cup TaskActions
    BY <1>2 DEF ExecuteRead, Observe, Placed
  <2> QED BY <1>1, <2>1, MergedAgree
<1>3. CASE Load
  <2>1. s' = Loaded(at) \/ s' = [s EXCEPT !.errors = Append(@, "TOOL_ERROR")]
    BY <1>3 DEF Load
  <2>2. CASE s' = Loaded(at)
    BY <1>1, <2>2, LoadedAgree
  <2>3. CASE s' = [s EXCEPT !.errors = Append(@, "TOOL_ERROR")]
    <3>1. \E x : s' \in {s, [s EXCEPT !.errors = x], [s EXCEPT !.specification = x]}
      BY <2>3
    <3> QED BY <1>1, <3>1, ErrorsAgree
  <2> QED BY <2>1, <2>2, <2>3
<1>4. CASE ReadFails \/ SpecificationObserved
  <2>1. \E x : s' \in {s, [s EXCEPT !.errors = x], [s EXCEPT !.specification = x]}
    BY <1>4 DEF ReadFails, SpecificationObserved, Observe
  <2> QED BY <1>1, <2>1, ErrorsAgree
<1>5. CASE Initialize \/ PlanStops \/ ValidateAction \/ ValidatePageContext
  <2>1. \E x : s' \in {s, [s EXCEPT !.errors = x]}
    BY <1>5 DEF Initialize, PlanStops, ValidateAction, ValidatePageContext
  <2> QED BY <1>1, <2>1, ErrorsAgree
<1>6. CASE UNCHANGED s
  BY <1>1, <1>6, ErrorsAgree
<1>7. CASE ReviewStep
  BY <1>6, <1>7 DEF ReviewStep, SourceDiagnosis, ReadTask, ReadQualityIssues, ReviewReadFails, AskForReview,
                    SpecificationForReview, GenerateDraft
<1>8. CASE \/ PlanNextAction \/ ModelFails \/ ExecuteFinish \/ RetrieveSpec
           \/ GenerateResult \/ ExceptionalFinish \/ DiagnoseByRules
  BY <1>6, <1>8 DEF PlanNextAction, ModelFails, ExecuteFinish, RetrieveSpec,
                    GenerateResult, ExceptionalFinish, DiagnoseByRules
<1>9. CASE \/ Dispatch \/ RetryRead \/ OrderStatus \/ AskSpecification \/ SpecificationAnswered
           \/ SpecificationStep \/ TaskChanges \/ Ingest \/ UNCHANGED vars
  BY <1>6, <1>9 DEF Dispatch, RetryRead, OrderStatus, AskSpecification, SpecificationAnswered,
                    SpecificationStep, TaskChanges, Ingest, vars, skillVars
<1> QED BY <1>2, <1>3, <1>4, <1>5, <1>7, <1>8, <1>9 DEF Next, SkillStep, DiagnosisStep

\* A draft is saved only when it is valid.
LEMMA GeneratedIs ==
  ASSUME GenerateDraft
  PROVE  /\ at = "draft" /\ version' = version
         /\ \/ FailSkill /\ UNCHANGED draft
            \/ \E issue, references :
                  /\ ValidateDraft(issue, references)
                  /\ draft' = [draft EXCEPT !.issue = issue, !.references = references,
                                            !.target_version = draft.readAt]
                  /\ End("SUCCEEDED", None, "WAITING_CONFIRMATION")
<1>1. ASSUME NEW issue, NEW references,
             IF ValidateDraft(issue, references)
             THEN /\ draft' = [draft EXCEPT !.issue = issue, !.references = references,
                                            !.target_version = draft.readAt]
                  /\ End("SUCCEEDED", None, "WAITING_CONFIRMATION")
             ELSE FailSkill /\ UNCHANGED draft
      PROVE  \/ FailSkill /\ UNCHANGED draft
             \/ /\ ValidateDraft(issue, references)
                /\ draft' = [draft EXCEPT !.issue = issue, !.references = references,
                                          !.target_version = draft.readAt]
                /\ End("SUCCEEDED", None, "WAITING_CONFIRMATION")
  BY <1>1
<1> QED BY <1>1, Zenon DEF GenerateDraft

\* The issues a draft rests on are read after its task.
LEMMA DraftNext == ASSUME DraftKnows, Placed, Requested, [Next]_vars PROVE DraftKnows'
<1>1. flow \in {"status", "dynamic", "specification", "review", "fixed"}
  BY RequestIs
<1>2. /\ version \in Nat /\ draft.readAt \in 0..version /\ draft.issuesAt \in 0..version
      /\ at \in {"ask_specification", "reviewing", "draft"} => draft.readAt <= draft.issuesAt
  BY DEF DraftKnows
<1>3. ASSUME UNCHANGED <<draft, version>>,
             at' \in {"ask_specification", "reviewing", "draft"} =>
                at \in {"ask_specification", "reviewing", "draft"}
      PROVE  DraftKnows'
  BY <1>3 DEF DraftKnows
<1>4. CASE ReadTask
  BY <1>2, <1>4 DEF ReadTask, DraftKnows
<1>5. CASE ReadQualityIssues
  <2>1. /\ draft' = [draft EXCEPT !.issuesAt = version, !.issues = {i.id : i \in ToSet(GetQualityIssues(1))}]
        /\ version' = version
    BY <1>5 DEF ReadQualityIssues
  <2> DEFINE issues == {i.id : i \in ToSet(GetQualityIssues(1))}
  <2> HIDE DEF issues
  <2>2. draft' = [draft EXCEPT !.issuesAt = version, !.issues = issues]
    BY <2>1 DEF issues
  <2>3. draft = [readAt |-> draft.readAt, issuesAt |-> draft.issuesAt, issues |-> draft.issues,
                 citations |-> draft.citations, issue |-> draft.issue,
                 references |-> draft.references, target_version |-> draft.target_version]
    BY DEF DraftKnows
  <2>4. /\ draft' = [readAt |-> draft.readAt, issuesAt |-> version, issues |-> issues,
                     citations |-> draft.citations, issue |-> draft.issue,
                     references |-> draft.references, target_version |-> draft.target_version]
        /\ version' = version
    BY <2>1, <2>2, <2>3
  <2> QED BY <1>2, <2>4 DEF DraftKnows
<1>6. CASE SpecificationForReview
  <2>1. /\ at = "reviewing" /\ version' = version
        /\ draft' \in {draft, [draft EXCEPT !.citations = ToSet(rag.result.citations)]}
    BY <1>6 DEF SpecificationForReview
  <2> QED BY <1>2, <2>1 DEF DraftKnows
<1>7. CASE GenerateDraft
  <2>1. /\ at = "draft" /\ version' = version
        /\ \/ draft' = draft
           \/ \E issue, references : draft' = [draft EXCEPT !.issue = issue, !.references = references,
                                                        !.target_version = draft.readAt]
    BY <1>7, GeneratedIs
  <2> QED BY <1>2, <2>1 DEF DraftKnows
<1>8. CASE TaskChanges
  BY <1>2, <1>8 DEF TaskChanges, DraftKnows
<1>9. CASE SourceDiagnosis \/ ReviewReadFails \/ AskForReview
  BY <1>3, <1>9 DEF SourceDiagnosis, ReviewReadFails, AskForReview, FailSkill, End
<1>10. CASE DiagnosisStep
  <2>1. UNCHANGED <<draft, version>>
    BY <1>10 DEF DiagnosisStep, Initialize, PlanNextAction, ModelFails, PlanStops, ValidateAction,
                ExecuteRead, ReadFails, ExecuteFinish, RetrieveSpec, SpecificationObserved,
                GenerateResult, ExceptionalFinish, Load, ValidatePageContext, DiagnoseByRules
  <2>2. at' \notin {"ask_specification", "reviewing", "draft"}
    <3>1. CASE Initialize \/ PlanNextAction \/ ModelFails \/ PlanStops \/ ValidateAction
      BY <3>1 DEF Initialize, PlanNextAction, ModelFails, PlanStops, ValidateAction, FailSkill, End
    <3>2. CASE ExecuteRead \/ ReadFails \/ ExecuteFinish \/ RetrieveSpec \/ SpecificationObserved
      BY <3>2 DEF ExecuteRead, ReadFails, ExecuteFinish, RetrieveSpec, SpecificationObserved, Observe
    <3>3. CASE GenerateResult \/ ExceptionalFinish
      BY <3>3 DEF GenerateResult, ExceptionalFinish, Answered, FailSkill, End
    <3>4. CASE Load \/ ValidatePageContext \/ DiagnoseByRules
      BY <3>4, LoaderNodesAre DEF Load, ValidatePageContext, DiagnoseByRules, FailSkill, End
    <3> QED BY <1>10, <3>1, <3>2, <3>3, <3>4 DEF DiagnosisStep
  <2> QED BY <1>3, <2>1, <2>2
<1>11. CASE Dispatch \/ RetryRead \/ OrderStatus \/ AskSpecification \/ SpecificationAnswered
  BY <1>1, <1>3, <1>11 DEF Dispatch, RetryRead, OrderStatus, AskSpecification, SpecificationAnswered,
                           FailSkill, End
<1>12. CASE SpecificationStep \/ Ingest \/ UNCHANGED vars
  BY <1>3, <1>12 DEF SpecificationStep, Ingest, vars, skillVars
<1> QED BY <1>4, <1>5, <1>6, <1>7, <1>8, <1>9, <1>10, <1>11, <1>12 DEF Next, SkillStep, ReviewStep

\* Only three actions conclude.
LEMMA OutcomeIs ==
  ASSUME [Next]_vars
  PROVE  \/ UNCHANGED outcome \/ outcome'.status = "FAILED" \/ outcome'.stage = None
         \/ GenerateResult \/ ExceptionalFinish \/ DiagnoseByRules
<1>1. CASE \/ Initialize \/ PlanNextAction \/ ModelFails \/ PlanStops \/ ValidateAction
           \/ ExecuteRead \/ ReadFails \/ ExecuteFinish \/ RetrieveSpec \/ SpecificationObserved
  <2>1. PlanStops => UNCHANGED outcome \/ outcome'.status = "FAILED"
    BY DEF PlanStops, FailSkill, End
  <2> QED BY <1>1, <2>1 DEF Initialize, PlanNextAction, ModelFails, ValidateAction,
              ExecuteRead, ReadFails, ExecuteFinish, RetrieveSpec, SpecificationObserved
<1>2. CASE Load \/ ValidatePageContext
  BY <1>2 DEF Load, ValidatePageContext, FailSkill, End
<1>3. CASE SourceDiagnosis \/ ReadTask \/ ReadQualityIssues \/ ReviewReadFails \/ AskForReview
  BY <1>3 DEF SourceDiagnosis, ReadTask, ReadQualityIssues, ReviewReadFails, AskForReview, FailSkill, End
<1>4. CASE SpecificationForReview \/ GenerateDraft
  <2>1. /\ FailSkill => outcome'.status = "FAILED"
        /\ End("SUCCEEDED", None, "WAITING_CONFIRMATION") => outcome'.stage = None
    BY DEF FailSkill, End
  <2>2. SpecificationForReview => UNCHANGED outcome \/ FailSkill
    BY DEF SpecificationForReview
  <2>3. GenerateDraft => FailSkill \/ End("SUCCEEDED", None, "WAITING_CONFIRMATION")
    BY GeneratedIs
  <2> QED BY <1>4, <2>1, <2>2, <2>3
<1>5. CASE Dispatch \/ RetryRead \/ OrderStatus \/ AskSpecification \/ SpecificationAnswered
  BY <1>5 DEF Dispatch, RetryRead, OrderStatus, AskSpecification, SpecificationAnswered, FailSkill, End
<1>6. CASE SpecificationStep \/ TaskChanges \/ Ingest \/ UNCHANGED vars
  BY <1>6 DEF SpecificationStep, TaskChanges, Ingest, vars, skillVars
<1> QED BY <1>1, <1>2, <1>3, <1>4, <1>5, <1>6 DEF Next, SkillStep, DiagnosisStep, ReviewStep

\* A skill that has ended loads nothing more.
LEMMA EndedStays == ASSUME at = "end", [Next]_vars PROVE UNCHANGED s
<1>1. CASE DiagnosisStep
  BY <1>1, LoaderNodesAre
     DEF DiagnosisStep, Initialize, PlanNextAction, ModelFails, PlanStops, ValidateAction,
         ExecuteRead, ReadFails, ExecuteFinish, RetrieveSpec, SpecificationObserved,
         GenerateResult, ExceptionalFinish, Load, ValidatePageContext, DiagnoseByRules
<1>2. CASE SourceDiagnosis \/ ReadTask \/ ReadQualityIssues \/ ReviewReadFails \/ AskForReview
  BY <1>2 DEF SourceDiagnosis, ReadTask, ReadQualityIssues, ReviewReadFails, AskForReview
<1>3. CASE SpecificationForReview \/ GenerateDraft
  BY <1>3 DEF SpecificationForReview, GenerateDraft
<1>4. CASE Dispatch \/ RetryRead \/ OrderStatus \/ AskSpecification \/ SpecificationAnswered
  BY <1>4 DEF Dispatch, RetryRead, OrderStatus, AskSpecification, SpecificationAnswered
<1>5. CASE SpecificationStep \/ TaskChanges \/ Ingest \/ UNCHANGED vars
  BY <1>5 DEF SpecificationStep, TaskChanges, Ingest, vars, skillVars
<1> QED BY <1>1, <1>2, <1>3, <1>4, <1>5 DEF Next, SkillStep, ReviewStep

LEMMA ConcludesNext ==
  ASSUME StageHolds, FactsAgree, Placed, Requested, [Next]_vars
  PROVE  StageHolds'
<1>1. /\ flow \in {"status", "dynamic", "specification", "review", "fixed"}
      /\ flow' = flow /\ store' = store
  BY RequestIs, FactsStay DEF facts
<1>2. CASE UNCHANGED outcome
  <2>1. CASE Conclusive
    <3>1. UNCHANGED s
      BY <2>1, EndedStays DEF Conclusive, Placed
    <3> QED BY <1>1, <1>2, <2>1, <3>1, ConclusionNext DEF StageHolds, Conclusive, Concluded
  <2> QED BY <1>1, <1>2, <2>1 DEF StageHolds, Conclusive
<1>3. CASE outcome'.status = "FAILED" \/ outcome'.stage = None
  BY <1>3 DEF StageHolds, Conclusive
<1>4. CASE GenerateResult
  <2> DEFINE stage == EvaluateDynamicDiagnosisRules(s, Detect(s))
  <2>1. flow = "dynamic"
    BY <1>1, <1>4, LoaderNodesAre DEF GenerateResult, Placed, Places
  <2>2. outcome'.status = "FAILED" \/ outcome'.stage = stage
    BY <1>4 DEF GenerateResult, Answered, FailSkill, End
  <2>3. ASSUME stage # "INSUFFICIENT_INFORMATION" PROVE Concluded(stage)
    <3>1. Detect(s) = {} /\ stage = EvaluateLoadedFacts(s)
      BY <2>3 DEF EvaluateDynamicDiagnosisRules
    <3>2. (stage # "NONE" => Blocks(store, stage)) /\ (stage = "NONE" => ~ Blocks(store, "DELIVERY"))
      BY <2>3, <3>1, NoGapIs, ConclusionIs
    <3>3. HasCompleteFacts(s) => stage = EvaluateDiagnosisRules(s)
      BY <3>1 DEF EvaluateDiagnosisRules
    <3> QED BY <2>1, <2>3, <3>2, <3>3, FirstStageIs DEF Concluded
  <2>4. UNCHANGED s
    BY <1>4 DEF GenerateResult
  <2> HIDE DEF stage
  <2> QED BY <1>1, <2>2, <2>3, <2>4, ConclusionNext
<1>5. CASE ExceptionalFinish \/ DiagnoseByRules
  <2> DEFINE stage == EvaluateDiagnosisRules(s)
  <2>1. outcome'.status = "FAILED" \/ outcome'.stage = stage
    BY <1>5 DEF ExceptionalFinish, DiagnoseByRules, Answered, FailSkill, End
  <2>2. ASSUME stage # "INSUFFICIENT_INFORMATION" PROVE Concluded(stage)
    BY <2>2, FirstStageIs DEF Concluded
  <2>3. UNCHANGED s
    BY <1>5 DEF ExceptionalFinish, DiagnoseByRules
  <2> HIDE DEF stage
  <2> QED BY <1>1, <2>1, <2>2, <2>3, ConclusionNext
<1> QED BY <1>2, <1>3, <1>4, <1>5, OutcomeIs

LEMMA EvidenceNext ==
  ASSUME EvidenceHolds, FactsAgree, Requested, [Next]_vars
  PROVE  EvidenceHolds'
<1>1. store' = store
  BY FactsStay DEF facts
<1>2. CASE UNCHANGED outcome
  BY <1>1, <1>2 DEF EvidenceHolds, Conclusive, Shows, MissingReview
<1>3. ASSUME Conclusive' => Evidenced(outcome'.stage, outcome'.answer)
      PROVE  EvidenceHolds'
  BY <1>1, <1>3 DEF EvidenceHolds, Evidenced, Shows, MissingReview
<1>4. CASE outcome'.status = "FAILED" \/ outcome'.stage = None
  BY <1>3, <1>4 DEF Conclusive
<1>5. CASE GenerateResult
  <2> DEFINE stage == EvaluateDynamicDiagnosisRules(s, Detect(s))
             answer == GenerateRuleDiagnosis(stage, s)
  <2>1. \/ outcome'.status = "FAILED"
        \/ answer # Raised /\ outcome'.stage = stage /\ outcome'.answer = answer
    BY <1>5 DEF GenerateResult, Answered, FailSkill, End
  <2>2. ASSUME stage # "INSUFFICIENT_INFORMATION", answer # Raised PROVE Evidenced(stage, answer)
    <3>1. Detect(s) = {} /\ stage = EvaluateLoadedFacts(s)
      BY <2>2 DEF EvaluateDynamicDiagnosisRules
    <3>2. s.tasks # <<>>
      BY <3>1, NoGapIs
    <3> QED BY <2>2, <3>1, <3>2, EvidenceIs
  <2> HIDE DEF stage, answer
  <2> QED BY <1>3, <1>4, <2>1, <2>2 DEF Conclusive
<1>6. CASE ExceptionalFinish \/ DiagnoseByRules
  <2> DEFINE stage == EvaluateDiagnosisRules(s)
             answer == GenerateRuleDiagnosis(stage, s)
  <2>1. \/ outcome'.status = "FAILED"
        \/ answer # Raised /\ outcome'.stage = stage /\ outcome'.answer = answer
    BY <1>6 DEF ExceptionalFinish, DiagnoseByRules, Answered, FailSkill, End
  <2>2. ASSUME stage # "INSUFFICIENT_INFORMATION", answer # Raised PROVE Evidenced(stage, answer)
    <3>1. HasCompleteFacts(s) /\ stage = EvaluateLoadedFacts(s)
      BY <2>2 DEF EvaluateDiagnosisRules
    <3> QED BY <2>2, <3>1, EvidenceIs DEF HasCompleteFacts
  <2> HIDE DEF stage, answer
  <2> QED BY <1>3, <1>4, <2>1, <2>2 DEF Conclusive
<1> QED BY <1>2, <1>4, <1>5, <1>6, OutcomeIs

LEMMA GroundedNext ==
  ASSUME DraftIsGrounded, DraftKnows, Placed, Requested, [Next]_vars
  PROVE  DraftIsGrounded'
<1>1. /\ flow \in {"status", "dynamic", "specification", "review", "fixed"} /\ flow' = flow
  BY RequestIs, FactsStay DEF facts
<1>2. CASE UNCHANGED <<draft, outcome>>
  BY <1>1, <1>2 DEF DraftIsGrounded
<1>3. CASE outcome'.status \in {"FAILED", "RUNNING"} \/ flow # "review"
  BY <1>1, <1>3 DEF DraftIsGrounded
<1>4. CASE GenerateDraft
  <2>1. at = "draft"
    BY <1>4, GeneratedIs
  <2>2. CASE outcome'.status = "FAILED"
    BY <1>3, <2>2
  <2>3. ASSUME NEW issue, NEW references, ValidateDraft(issue, references),
               draft' = [draft EXCEPT !.issue = issue, !.references = references,
                                      !.target_version = draft.readAt]
        PROVE  DraftIsGrounded'
    <3>1. /\ draft'.issue = issue /\ draft'.references = references
          /\ draft'.target_version = draft.readAt /\ draft'.issues = draft.issues
          /\ draft'.citations = draft.citations /\ draft'.issuesAt = draft.issuesAt
      BY <2>3 DEF DraftKnows
    <3>2. draft.readAt <= draft.issuesAt
      BY <2>1 DEF DraftKnows
    <3> QED BY <2>3, <3>1, <3>2 DEF ValidateDraft, DraftIsGrounded
  <2>4. FailSkill => outcome'.status = "FAILED"
    BY DEF FailSkill, End
  <2> QED BY <1>4, <2>2, <2>3, <2>4, GeneratedIs
<1>5. CASE \/ SourceDiagnosis \/ ReadTask \/ ReadQualityIssues \/ ReviewReadFails \/ AskForReview
           \/ SpecificationForReview
  <2>1. at # "end"
    BY <1>5 DEF SourceDiagnosis, ReadTask, ReadQualityIssues, ReviewReadFails, AskForReview,
                SpecificationForReview
  <2>2. outcome.status = "RUNNING"
    BY <2>1 DEF Placed
  <2>3. UNCHANGED outcome \/ outcome'.status = "FAILED"
    BY <1>5 DEF SourceDiagnosis, ReadTask, ReadQualityIssues, ReviewReadFails, AskForReview,
                SpecificationForReview, FailSkill, End
  <2> QED BY <1>3, <2>2, <2>3
<1>6. CASE DiagnosisStep
  <2>1. at \in ToSet(LoaderNodes) \cup {"initialize", "plan", "validate", "execute", "retrieving",
                                        "generate", "exceptional", "diagnose_by_rules"}
    BY <1>6, LoaderNodesAre
       DEF DiagnosisStep, Initialize, PlanNextAction, ModelFails, PlanStops, ValidateAction,
           ExecuteRead, ReadFails, ExecuteFinish, RetrieveSpec, SpecificationObserved,
           GenerateResult, ExceptionalFinish, Load, ValidatePageContext, DiagnoseByRules
  <2>2. flow # "review"
    BY <2>1, LoaderNodesAre DEF Placed, Places
  <2> QED BY <1>3, <2>2
<1>7. CASE OrderStatus \/ AskSpecification \/ SpecificationAnswered
  <2>1. flow # "review"
    BY <1>7 DEF OrderStatus, AskSpecification, SpecificationAnswered, Placed, Places
  <2> QED BY <1>3, <2>1
<1>8. CASE Dispatch \/ RetryRead \/ SpecificationStep \/ TaskChanges \/ Ingest \/ UNCHANGED vars
  BY <1>2, <1>3, <1>8 DEF Dispatch, RetryRead, SpecificationStep, TaskChanges, Ingest, vars, skillVars,
                          FailSkill, End
<1> QED BY <1>4, <1>5, <1>6, <1>7, <1>8 DEF Next, SkillStep, ReviewStep

----------------------------------------------------------------------------
LEMMA SkillsStart == ASSUME Init PROVE SkillsIInv
<1>1. PICK r \in Requests : store = r.store /\ flow = r.flow /\ page = r.page /\ kb = r.kb
  BY DEF Init
<1>2. Requested
  BY <1>1 DEF Requested
<1>3. flow \in {"status", "dynamic", "specification", "review", "fixed"}
  BY <1>2, RequestIs
<1>4. at = "dispatch" /\ s = NothingLoaded /\ version = 1 /\ draft = NoDraft /\ outcome = Running /\ rag = NoCall
  BY DEF Init
<1>5. Placed
  BY <1>3, <1>4 DEF Placed, Places, Running
<1>6. FactsAgree
  BY <1>4 DEF FactsAgree, TaskFactsAgree, NothingLoaded
<1>7. DraftKnows
  BY <1>4 DEF DraftKnows, NoDraft
<1>8. CallInv
  BY <1>1, <1>4, NoCallIs, SkillsAssumption
<1>9. StageHolds /\ EvidenceHolds /\ DraftIsGrounded
  BY <1>4 DEF StageHolds, EvidenceHolds, Conclusive, DraftIsGrounded, Running
<1> QED BY <1>2, <1>5, <1>6, <1>7, <1>8, <1>9 DEF SkillsIInv, CallInv

LEMMA SkillsNext == ASSUME SkillsIInv, [Next]_vars PROVE SkillsIInv'
<1>1. /\ Requested /\ Placed /\ FactsAgree /\ DraftKnows /\ CallInv
      /\ StageHolds /\ EvidenceHolds /\ DraftIsGrounded
  BY DEF SkillsIInv, CallInv
<1>2. Requested'
  BY <1>1, FactsStay DEF Requested, facts
<1> QED BY <1>1, <1>2, PlacedNext, FactsNext, DraftNext, CallNext, ConcludesNext, EvidenceNext, GroundedNext
           DEF SkillsIInv, CallInv

\* Whatever the model chooses, and however reads, searches and ingestions
\* interleave: what a skill has loaded is what Java says, its call holds only
\* chunks that were current since it began, and its draft rests on issues read
\* after the task.
THEOREM SkillsInvariant == Spec => []SkillsIInv
<1>1. Init => SkillsIInv
  BY SkillsStart
<1>2. SkillsIInv /\ [Next]_vars => SkillsIInv'
  BY SkillsNext
<1> QED BY <1>1, <1>2, PTL DEF Spec

\* EvaluateLoadedFacts, Detect and the builders of diagnosis_generation.py: a
\* conclusive diagnosis accuses only a stage that the Java facts block, for every
\* choice of reads, and cites values that Java reports, one of them of the kind
\* that blocks that stage, and claims a missing review only where one is missing.
\* One made from all facts, in either workflow, names the first such stage, and
\* the fixed one never fails for want of a fact, because what blocks by the rules
\* is found again when the answer is built.
THEOREM SkillsConclude == Spec => []ConclusionHolds
<1>1. SkillsIInv => ConclusionHolds
  BY RulesAnswer DEF SkillsIInv, ConclusionHolds, DiagnosisIsEvidenced
<1> QED BY <1>1, SkillsInvariant, PTL

\* fuse_hybrid_results, rerank and build_citations: an answer cites only chunks
\* that were current during its call, and fusion neither loses nor doubles one.
THEOREM SkillsCite == Spec => []CitationsWereCurrent
<1>1. SkillsIInv => CitationsWereCurrent
  BY DEF SkillsIInv, CitationsWereCurrent
<1> QED BY <1>1, SkillsInvariant, PTL

\* ValidateDraft: a saved draft names an issue and citations that were read, and
\* a version not newer than the issues.
THEOREM SkillsGround == Spec => []DraftIsGrounded
<1>1. SkillsIInv => DraftIsGrounded
  BY DEF SkillsIInv
<1> QED BY <1>1, SkillsInvariant, PTL

\* RerankTimeout, GenerateFails and the other ends of a call: the safety half of
\* SkillEnds.  A Step stays open only when the save of its own end failed; the
\* call then raises, or its answer is GENERATION_FAILED.
THEOREM SkillsCloseSteps == Spec => []NestedStepsClosed
<1>1. SkillsIInv => NestedStepsClosed
  BY DEF SkillsIInv, CallIInv, StepsOpen, NestedStepsClosed
<1> QED BY <1>1, SkillsInvariant, PTL
=============================================================================
