---------------------------- MODULE RankingProofs ----------------------------
(***************************************************************************)
(* What the merge and the ranking of Ranking give, for any repository, any *)
(* hits and any decisions.                                                 *)
(***************************************************************************)
EXTENDS Ranking, SequenceTheorems, FiniteSetTheorems, TLAPS

-----------------------------------------------------------------------------
(* Numbers and sets *)

LEMMA SmallestOf ==
    ASSUME NEW S, S \subseteq Nat, S # {}
    PROVE  Smallest(S) \in S /\ \A n \in S : Smallest(S) <= n
<1>1. IsWellFoundedOn(OpToRel(<, Nat), Nat)
  BY NatLessThanWellFounded
<1>2. PICK least \in S : \A n \in S : <<n, least>> \notin OpToRel(<, Nat)
  BY <1>1, WFMin
<1>3. \A n \in S : least <= n
  <2>1. \A n \in S : ~(n < least)
    BY <1>2 DEF OpToRel
  <2> QED
    BY <2>1
<1> QED
  BY <1>3, Zenon DEF Smallest

LEMMA LargestOf ==
    ASSUME NEW S, NEW bound \in Nat, S \subseteq 0..bound, S # {}
    PROVE  Largest(S) \in S /\ \A n \in S : n <= Largest(S)
<1> DEFINE T == {bound - n : n \in S}
<1>1. T \subseteq Nat /\ T # {}
  <2>1. \A n \in S : bound - n \in Nat
    OBVIOUS
  <2> QED
    BY <2>1
<1>2. Smallest(T) \in T /\ \A n \in T : Smallest(T) <= n
  BY <1>1, SmallestOf
<1>3. PICK most \in S : Smallest(T) = bound - most
  BY <1>2
<1>4. \A n \in S : n <= most
  <2>1. \A n \in S : bound - most <= bound - n
    BY <1>2, <1>3
  <2> QED
    BY <2>1
<1> QED
  BY <1>4, Zenon DEF Largest

\* What a function takes a finite set to is finite.
LEMMA FiniteValues ==
    ASSUME NEW f, IsFiniteSet(DOMAIN f)
    PROVE  IsFiniteSet({f[x] : x \in DOMAIN f})
<1> DEFINE T == {f[x] : x \in DOMAIN f}
           g == [x \in DOMAIN f |-> f[x]]
<1>1. g \in Surjection(DOMAIN f, T)
  BY DEF Surjection
<1> QED
  BY <1>1, FS_Surjection

-----------------------------------------------------------------------------
(* Arrange *)

\* less is a strict order of S that compares any two.
Orders(less, S) ==
    /\ \A x \in S : <<x, x>> \notin less
    /\ \A x, y, z \in S : <<x, y>> \in less /\ <<y, z>> \in less => <<x, z>> \in less
    /\ \A x, y \in S : x = y \/ <<x, y>> \in less \/ <<y, x>> \in less

\* Arrange lists every member once, the smaller ones first.
LEMMA Arranged ==
    ASSUME NEW S, IsFiniteSet(S), NEW less, Orders(less, S)
    PROVE  /\ Cardinality(S) \in Nat
           /\ Arrange(S, less) \in [1..Cardinality(S) -> S]
           /\ \A x \in S : \E k \in 1..Cardinality(S) : Arrange(S, less)[k] = x
           /\ \A j, k \in 1..Cardinality(S) :
                 j < k => <<Arrange(S, less)[j], Arrange(S, less)[k]>> \in less
<1> DEFINE n == Cardinality(S)
           Below(x) == {y \in S : <<y, x>> \in less}
           rank == [x \in S |-> Cardinality(Below(x))]
           order == Arrange(S, less)
<1>1. n \in Nat
  BY FS_CardinalityType
<1>2. \A x \in S : IsFiniteSet(Below(x)) /\ Cardinality(Below(x)) \in Nat
  BY FS_Subset, FS_CardinalityType
<1>3. ASSUME NEW x \in S, NEW y \in S, <<x, y>> \in less
      PROVE  Cardinality(Below(x)) < Cardinality(Below(y))
  <2>1. Below(x) \subseteq Below(y) /\ x \in Below(y) /\ x \notin Below(x)
    BY <1>3 DEF Orders
  <2>2. Cardinality(Below(x)) <= Cardinality(Below(y)) /\ Cardinality(Below(x)) # Cardinality(Below(y))
    BY <1>2, <2>1, FS_Subset
  <2> QED
    BY <1>2, <2>2
<1>4. \A x \in S : Cardinality(Below(x)) \in 0..(n - 1)
  <2> SUFFICES ASSUME NEW x \in S PROVE Cardinality(Below(x)) \in 0..(n - 1)
    OBVIOUS
  <2>1. Below(x) \subseteq S /\ x \notin Below(x)
    BY DEF Orders
  <2>2. Cardinality(Below(x)) <= n /\ Cardinality(Below(x)) # n
    BY <2>1, FS_Subset
  <2> QED
    BY <1>1, <1>2, <2>2
<1>5. rank \in Injection(S, 0..(n - 1))
  <2>1. rank \in [S -> 0..(n - 1)]
    BY <1>4
  <2>2. \A x, y \in S : rank[x] = rank[y] => x = y
    <3> SUFFICES ASSUME NEW x \in S, NEW y \in S, rank[x] = rank[y], x # y PROVE FALSE
      OBVIOUS
    <3>1. <<x, y>> \in less \/ <<y, x>> \in less
      BY DEF Orders
    <3>2. Cardinality(Below(x)) = Cardinality(Below(y)) /\ Cardinality(Below(x)) \in Nat
      BY <1>2
    <3> QED
      BY <1>3, <3>1, <3>2
  <2> QED
    BY <2>1, <2>2 DEF Injection, IsInjective
<1>6. \A k \in 1..n : \E x \in S : Cardinality(Below(x)) = k - 1
  <2>1. IsFiniteSet(0..(n - 1)) /\ Cardinality(0..(n - 1)) = n
    <3>1. PICK m \in Int : m = n - 1
      BY <1>1
    <3>2. IsFiniteSet(0..m) /\ Cardinality(0..m) = IF 0 > m THEN 0 ELSE m - 0 + 1
      BY FS_Interval
    <3> QED
      BY <1>1, <3>1, <3>2
  <2>2. rank \in Surjection(S, 0..(n - 1))
    BY <1>5, <2>1, FS_Injection
  <2>3. \A k \in 0..(n - 1) : \E x \in S : rank[x] = k
    BY <2>2 DEF Surjection
  <2>4. \A x \in S : rank[x] = Cardinality(Below(x))
    OBVIOUS
  <2>5. \A k \in 1..n : k - 1 \in 0..(n - 1)
    BY <1>1
  <2> QED
    BY <2>3, <2>4, <2>5, Zenon
<1>7. \A k \in 1..n : order[k] \in S /\ Cardinality(Below(order[k])) = k - 1
  <2> SUFFICES ASSUME NEW k \in 1..n PROVE order[k] \in S /\ Cardinality(Below(order[k])) = k - 1
    OBVIOUS
  <2>1. order[k] = CHOOSE x \in S : Cardinality(Below(x)) = k - 1
    BY DEF Arrange
  <2> QED
    BY <1>6, <2>1, Zenon
<1>8. order \in [1..n -> S]
  BY <1>7, Zenon DEF Arrange
<1> HIDE DEF order, Below
<1>9. ASSUME NEW x \in S PROVE \E k \in 1..n : order[k] = x
  <2> DEFINE k == Cardinality(Below(x)) + 1
  <2>1. k \in 1..n
    BY <1>1, <1>2, <1>4
  <2>2. Cardinality(Below(order[k])) = Cardinality(Below(x)) /\ order[k] \in S
    BY <1>2, <1>7, <2>1
  <2>3. ASSUME order[k] # x PROVE FALSE
    <3>1. <<order[k], x>> \in less \/ <<x, order[k]>> \in less
      BY <2>2, <2>3 DEF Orders
    <3>2. \/ Cardinality(Below(order[k])) < Cardinality(Below(x))
          \/ Cardinality(Below(x)) < Cardinality(Below(order[k]))
      BY <1>3, <2>2, <3>1
    <3> QED
      BY <1>2, <2>2, <3>2
  <2> QED
    BY <2>1, <2>3
<1>10. ASSUME NEW j \in 1..n, NEW k \in 1..n, j < k PROVE <<order[j], order[k]>> \in less
  <2>1. /\ order[j] \in S /\ order[k] \in S
        /\ Cardinality(Below(order[j])) < Cardinality(Below(order[k]))
    BY <1>1, <1>7, <1>10
  <2>2. order[j] # order[k] /\ <<order[k], order[j]>> \notin less
    BY <1>2, <1>3, <2>1
  <2> QED
    BY <2>1, <2>2 DEF Orders
<1> QED
  BY <1>1, <1>8, <1>9, <1>10 DEF order

-----------------------------------------------------------------------------
(* Ordered *)

LEMMA PathOrdered ==
    ASSUME NEW path \in ToSet(Files)
    PROVE  PathOrder(path) \in Nat /\ Files[PathOrder(path)] = path
<1>1. \E k \in DOMAIN Files : Files[k] = path
  BY DEF ToSet
<1>2. DOMAIN Files \subseteq Nat
  BY FilesAssumption
<1>3. PathOrder(path) \in DOMAIN Files /\ Files[PathOrder(path)] = path
  BY <1>1, Zenon DEF PathOrder
<1> QED
  BY <1>2, <1>3

\* What can be put in order: candidates by numbers, with a score and a path.
Scored(cands) ==
    /\ DOMAIN cands \subseteq Nat /\ IsFiniteSet(DOMAIN cands)
    /\ \A i \in DOMAIN cands : cands[i].score \in Int /\ cands[i].path \in ToSet(Files)

LEMMA BetterOrders ==
    ASSUME NEW cands, Scored(cands)
    PROVE  Orders(Better(cands), DOMAIN cands)
<1> DEFINE D == DOMAIN cands
           score(i) == cands[i].score
           path(i) == cands[i].path
           better(i, j) == \/ score(i) > score(j)
                           \/ score(i) = score(j) /\ PathOrder(path(i)) < PathOrder(path(j))
                           \/ score(i) = score(j) /\ path(i) = path(j) /\ i < j
<1>1. \A i, j : <<i, j>> \in Better(cands) <=> i \in D /\ j \in D /\ better(i, j)
  BY DEF Better
<1>2. /\ \A i \in D : i \in Nat /\ score(i) \in Int /\ PathOrder(path(i)) \in Nat
      /\ \A i, j \in D : PathOrder(path(i)) = PathOrder(path(j)) => path(i) = path(j)
  <2>1. \A i \in D : i \in Nat /\ score(i) \in Int /\ path(i) \in ToSet(Files)
    BY DEF Scored
  <2>2. \A i \in D : PathOrder(path(i)) \in Nat /\ Files[PathOrder(path(i))] = path(i)
    BY <2>1, PathOrdered
  <2> QED
    BY <2>1, <2>2
<1> HIDE DEF score, path, D
<1>3. \A i \in D : ~better(i, i)
  BY <1>2
<1>4. \A i, j, k \in D : better(i, j) /\ better(j, k) => better(i, k)
  <2> SUFFICES ASSUME NEW i \in D, NEW j \in D, NEW k \in D, better(i, j), better(j, k)
               PROVE  better(i, k)
    OBVIOUS
  <2> QED
    BY <1>2
<1>5. \A i, j \in D : i = j \/ better(i, j) \/ better(j, i)
  <2> SUFFICES ASSUME NEW i \in D, NEW j \in D PROVE i = j \/ better(i, j) \/ better(j, i)
    OBVIOUS
  <2>1. \/ score(i) > score(j) \/ score(j) > score(i) \/ score(i) = score(j)
    BY <1>2
  <2>2. \/ PathOrder(path(i)) < PathOrder(path(j)) \/ PathOrder(path(j)) < PathOrder(path(i))
        \/ path(i) = path(j)
    BY <1>2
  <2>3. i < j \/ j < i \/ i = j
    BY <1>2
  <2>4. score(i) = score(j) => score(j) = score(i)
    OBVIOUS
  <2> QED
    BY <2>1, <2>2, <2>3, <2>4
<1> HIDE DEF better
<1>6. Orders(Better(cands), D)
  BY <1>1, <1>3, <1>4, <1>5, Zenon DEF Orders
<1> QED
  BY <1>6 DEF D

\* All candidates are there, each of them once, and none after one with a lower score.
LEMMA OrderedGives ==
    ASSUME NEW cands, Scored(cands)
    PROVE  \E n \in Nat : \E order \in [1..n -> DOMAIN cands] :
              /\ Ordered(cands) = [k \in 1..n |-> cands[order[k]]]
              /\ \A i \in DOMAIN cands : \E k \in 1..n : order[k] = i
              /\ \A j, k \in 1..n :
                    j < k => /\ order[j] # order[k]
                             /\ cands[order[k]].score <= cands[order[j]].score
<1> DEFINE D == DOMAIN cands
           n == Cardinality(D)
           order == Arrange(D, Better(cands))
<1>1. Orders(Better(cands), D) /\ IsFiniteSet(D)
  BY BetterOrders DEF Scored
<1>2. /\ n \in Nat
      /\ order \in [1..n -> D]
      /\ \A i \in D : \E k \in 1..n : order[k] = i
      /\ \A j, k \in 1..n : j < k => <<order[j], order[k]>> \in Better(cands)
  BY <1>1, Arranged
<1>3. Ordered(cands) = [k \in 1..n |-> cands[order[k]]]
  <2>1. DOMAIN order = 1..n
    BY <1>2
  <2>2. Ordered(cands) = [k \in DOMAIN order |-> cands[order[k]]]
    BY DEF Ordered
  <2> QED
    BY <2>1, <2>2, Zenon
<1>4. \A x, y \in D : <<x, y>> \in Better(cands) => x # y /\ cands[y].score <= cands[x].score
  <2>1. \A x, y \in D : <<x, y>> \in Better(cands) =>
           cands[x].score > cands[y].score \/ cands[x].score = cands[y].score
    BY DEF Better
  <2>2. \A x, y \in D : <<x, y>> \in Better(cands) => x # y
    BY <1>1, Zenon DEF Orders
  <2>3. \A x \in D : cands[x].score \in Int
    BY DEF Scored
  <2> QED
    BY <2>1, <2>2, <2>3
<1> HIDE DEF order, n, D
<1>5. \A j, k \in 1..n : j < k => /\ order[j] # order[k]
                                  /\ cands[order[k]].score <= cands[order[j]].score
  BY <1>2, <1>4
<1>6. \E m \in Nat : \E o \in [1..m -> D] :
         /\ Ordered(cands) = [k \in 1..m |-> cands[o[k]]]
         /\ \A i \in D : \E k \in 1..m : o[k] = i
         /\ \A j, k \in 1..m : j < k => /\ o[j] # o[k]
                                        /\ cands[o[k]].score <= cands[o[j]].score
  BY <1>2, <1>3, <1>5, Zenon
<1> QED
  BY <1>6 DEF D

-----------------------------------------------------------------------------
(* The merge *)

\* What the providers answer: a place without its content, and one score, which
\* is 0 when the place speaks of an outdated mapping.
Fields == {"path", "symbol", "hash", "evidence", "score", "stale"}
Hit(c) ==
    /\ DOMAIN c = Fields
    /\ c.path \in ToSet(Files) /\ c.hash = "" /\ c.stale \in BOOLEAN
    /\ DOMAIN c.evidence \subseteq Sources /\ DOMAIN c.evidence # {}
    /\ \A s \in DOMAIN c.evidence : /\ c.evidence[s] \in 0..100
                                    /\ c.score = 100 * c.evidence[s]
                                    /\ c.stale => c.evidence[s] = 0

Found(cands) == /\ cands \in Seq(ToSet(cands))
                /\ \A c \in ToSet(cands) : Hit(c)

Members(cands, key) == {c \in ToSet(cands) : DedupKey(c) = key}

\* Evidence for a place: a score of each provider, that a hit of its gives.
LEMMA EvidenceGives ==
    ASSUME NEW members, members # {}, \A c \in members : Hit(c)
    PROVE  /\ DOMAIN Evidence(members) \subseteq Sources
           /\ \A s \in DOMAIN Evidence(members) :
                 /\ Evidence(members)[s] \in Nat /\ Evidence(members)[s] <= 100
                 /\ \E c \in members : s \in DOMAIN c.evidence /\ c.evidence[s] = Evidence(members)[s]
<1>1. DOMAIN Evidence(members) = UNION {DOMAIN c.evidence : c \in members}
  BY DEF Evidence
<1> DEFINE says(c) == /\ DOMAIN c.evidence \subseteq Sources
                      /\ \A s \in DOMAIN c.evidence : c.evidence[s] \in 0..100
<1>0. \A c \in members : says(c)
  BY Zenon DEF Hit
<1>2. DOMAIN Evidence(members) \subseteq Sources
  BY <1>0, <1>1
<1>3. ASSUME NEW s \in DOMAIN Evidence(members)
      PROVE  /\ Evidence(members)[s] \in Nat /\ Evidence(members)[s] <= 100
             /\ \E c \in members : s \in DOMAIN c.evidence /\ c.evidence[s] = Evidence(members)[s]
  <2> DEFINE said == {c.evidence[s] : c \in {d \in members : s \in DOMAIN d.evidence}}
  <2>1. Evidence(members)[s] = Largest(said)
    BY <1>1 DEF Evidence
  <2>2. said \subseteq 0..100
    BY <1>0
  <2>3. said # {}
    BY <1>1
  <2>4. Largest(said) \in said
    BY <2>2, <2>3, LargestOf
  <2>5. PICK c \in members : s \in DOMAIN c.evidence /\ c.evidence[s] = Largest(said)
    BY <2>4
  <2>6. Largest(said) \in Nat /\ Largest(said) <= 100
    BY <2>2, <2>4
  <2> QED
    BY <2>1, <2>5, <2>6
<1> QED
  BY <1>2, <1>3

\* Evidence is worth something, and no more than what is left of 10500 without
\* the mappings people verified.
LEMMA WorthGives ==
    ASSUME NEW evidence, DOMAIN evidence \subseteq Sources,
           \A s \in DOMAIN evidence : evidence[s] \in Nat /\ evidence[s] <= 100
    PROVE  /\ Worth(evidence) \in Nat /\ Worth(evidence) <= 10500
           /\ "verified_mapping" \notin DOMAIN evidence => Worth(evidence) <= 7000
<1> DEFINE D == DOMAIN evidence
           verified == IF "verified_mapping" \in D THEN 35 * evidence["verified_mapping"] ELSE 0
           constant == IF "constant_match" \in D THEN 25 * evidence["constant_match"] ELSE 0
           term == IF "term_dictionary" \in D THEN 20 * evidence["term_dictionary"] ELSE 0
           near == IF "rag" \in D THEN 15 * evidence["rag"] ELSE 0
           n == Cardinality(D)
           extra == IF n >= 3 THEN 1000 ELSE IF n >= 2 THEN 500 ELSE 0
<1>1. Worth(evidence) = verified + constant + term + near + extra
  BY DEF Worth, Weight
<1>2. /\ verified \in Nat /\ verified <= 3500
      /\ "verified_mapping" \notin D => verified = 0
  OBVIOUS
<1>3. constant \in Nat /\ constant <= 2500
  OBVIOUS
<1>4. term \in Nat /\ term <= 2000
  OBVIOUS
<1>5. near \in Nat /\ near <= 1500
  OBVIOUS
<1>6. extra \in Nat /\ extra <= 1000
  OBVIOUS
<1> HIDE DEF verified, constant, term, near, extra
<1> QED
  BY <1>1, <1>2, <1>3, <1>4, <1>5, <1>6

LEMMA Clamped ==
    ASSUME NEW low \in Int, NEW high \in Int, low <= high, NEW n \in Int
    PROVE  Clamp(low, high, n) \in Int /\ low <= Clamp(low, high, n) /\ Clamp(low, high, n) <= high
BY DEF Clamp

\* A merged candidate: the place of some hits, with what all of them say.
MergedFrom(cands, c) ==
    LET members == Members(cands, DedupKey(c))
        stale == \A d \in members : d.stale
    IN  /\ members # {}
        /\ DOMAIN c = Fields
        /\ c.path \in ToSet(Files)
        /\ c.evidence = Evidence(members)
        /\ c.stale = stale
        /\ c.score = Clamp(0, 10000, Worth(Evidence(members)) - (IF stale THEN StalePenalty ELSE 0))

\* No two candidates of one place, and none after one with a lower score.
OnceEach(cands) ==
    \A i, j \in DOMAIN cands : i # j => DedupKey(cands[i]) # DedupKey(cands[j])
BestFirst(cands) ==
    \A i, j \in DOMAIN cands : i < j => cands[j].score <= cands[i].score

LEMMA SameGroup ==
    ASSUME NEW cands, Found(cands), NEW i \in DOMAIN cands
    PROVE  Group(cands, i) = {j \in DOMAIN cands : DedupKey(cands[j]) = DedupKey(cands[i])}
<1>1. ASSUME NEW j \in DOMAIN cands PROVE GroupKey(cands, j) = <<DedupKey(cands[j]), "">>
  <2> DEFINE same == {k \in DOMAIN cands : DedupKey(cands[k]) = DedupKey(cands[j])}
  <2>1. same \subseteq Nat /\ same # {}
    BY DEF Found
  <2>2. Smallest(same) \in DOMAIN cands
    BY <2>1, SmallestOf
  <2>3. cands[Smallest(same)].hash = ""
    BY <2>2 DEF Found, Hit, ToSet
  <2> QED
    BY <2>3 DEF GroupKey
<1>2. \A j \in DOMAIN cands : GroupKey(cands, j) = GroupKey(cands, i)
                              <=> DedupKey(cands[j]) = DedupKey(cands[i])
  <2> TAKE j \in DOMAIN cands
  <2>1. \A a, b : <<a, "">> = <<b, "">> <=> a = b
    OBVIOUS
  <2> QED
    BY <1>1, <2>1, Zenon
<1> QED
  BY <1>2, Zenon DEF Group

LEMMA MergedGroup ==
    ASSUME NEW cands, Found(cands), NEW i \in DOMAIN cands
    PROVE  /\ MergedFrom(cands, MergeGroup(cands, i))
           /\ DedupKey(MergeGroup(cands, i)) = DedupKey(cands[i])
<1> DEFINE members == {cands[j] : j \in Group(cands, i)}
           c == MergeGroup(cands, i)
<1>1. members = Members(cands, DedupKey(cands[i]))
  BY SameGroup DEF Members, ToSet
<1>2. cands[i] \in members /\ cands[i].path \in ToSet(Files)
  <2>1. Hit(cands[i])
    BY DEF Found, ToSet
  <2> QED
    BY <2>1, SameGroup DEF Hit
<1>3. /\ DOMAIN c = Fields
      /\ c.path = cands[i].path /\ c.symbol = cands[i].symbol
      /\ c.evidence = Evidence(members)
      /\ c.stale = \A d \in members : d.stale
      /\ c.score = Clamp(0, 10000, Worth(Evidence(members))
                                   - (IF \A d \in members : d.stale THEN StalePenalty ELSE 0))
  BY DEF MergeGroup, Fields
<1> HIDE DEF members, c
<1>4. DedupKey(c) = DedupKey(cands[i])
  BY <1>3 DEF DedupKey
<1>5. MergedFrom(cands, c)
  <2>1. members = Members(cands, DedupKey(c)) /\ members # {} /\ c.path \in ToSet(Files)
    BY <1>1, <1>2, <1>3, <1>4
  <2> QED
    BY <1>3, <2>1 DEF MergedFrom
<1> QED
  BY <1>4, <1>5 DEF c

LEMMA Penalised ==
    ASSUME NEW worth \in Nat, worth <= 10500,
           NEW penalty, penalty = 0 \/ penalty = StalePenalty,
           NEW score, score = Clamp(0, 10000, worth - penalty)
    PROVE  /\ score \in Nat /\ score <= 10000 /\ score <= worth
           /\ penalty = 0 => score = IF worth > 10000 THEN 10000 ELSE worth
BY DEF Clamp, StalePenalty

LEMMA MergedGives ==
    ASSUME NEW cands, Found(cands), NEW c, MergedFrom(cands, c)
    PROVE  /\ DOMAIN c = Fields /\ c.path \in ToSet(Files)
           /\ DOMAIN c.evidence \subseteq Sources
           /\ Worth(c.evidence) \in Nat /\ Worth(c.evidence) <= 10500
           /\ c.score \in Nat /\ c.score <= 10000 /\ c.score <= Worth(c.evidence)
           /\ ~c.stale => c.score = IF Worth(c.evidence) > 10000 THEN 10000 ELSE Worth(c.evidence)
           /\ "verified_mapping" \notin DOMAIN c.evidence => Worth(c.evidence) <= 7000
<1> DEFINE members == Members(cands, DedupKey(c))
           penalty == IF \A d \in members : d.stale THEN StalePenalty ELSE 0
<1>1. members # {} /\ \A d \in members : Hit(d)
  BY DEF MergedFrom, Members, Found
<1>2. /\ c.evidence = Evidence(members)
      /\ c.stale = \A d \in members : d.stale
      /\ c.score = Clamp(0, 10000, Worth(c.evidence) - penalty)
      /\ DOMAIN c = Fields /\ c.path \in ToSet(Files)
  BY DEF MergedFrom
<1>3. (penalty = 0 \/ penalty = StalePenalty) /\ (~c.stale => penalty = 0)
  BY <1>2
<1> HIDE DEF members, penalty
<1>4. PICK evidence : evidence = c.evidence
  OBVIOUS
<1>5. /\ DOMAIN evidence \subseteq Sources
      /\ \A s \in DOMAIN evidence : evidence[s] \in Nat /\ evidence[s] <= 100
  BY <1>1, <1>2, <1>4, EvidenceGives
<1>6. /\ Worth(evidence) \in Nat /\ Worth(evidence) <= 10500
      /\ "verified_mapping" \notin DOMAIN evidence => Worth(evidence) <= 7000
  BY <1>5, WorthGives
<1>7. /\ c.score \in Nat /\ c.score <= 10000 /\ c.score <= Worth(evidence)
      /\ penalty = 0 => c.score = IF Worth(evidence) > 10000 THEN 10000 ELSE Worth(evidence)
  BY <1>2, <1>3, <1>4, <1>6, Penalised
<1> QED
  BY <1>2, <1>3, <1>4, <1>5, <1>6, <1>7

\* A listing: numbered from 1, each place once, the best first.
Listing(cands) ==
    /\ cands \in Seq(ToSet(cands))
    /\ OnceEach(cands)
    /\ BestFirst(cands)

LEMMA Listed ==
    ASSUME NEW cands, Scored(cands), OnceEach(cands)
    PROVE  /\ Listing(Ordered(cands))
           /\ ToSet(Ordered(cands)) = {cands[i] : i \in DOMAIN cands}
<1> DEFINE D == DOMAIN cands
           list == Ordered(cands)
<1>1. PICK n \in Nat : \E order \in [1..n -> D] :
         /\ list = [k \in 1..n |-> cands[order[k]]]
         /\ \A i \in D : \E k \in 1..n : order[k] = i
         /\ \A j, k \in 1..n :
               j < k => /\ order[j] # order[k]
                        /\ cands[order[k]].score <= cands[order[j]].score
  BY OrderedGives
<1>2. PICK order \in [1..n -> D] :
         /\ list = [k \in 1..n |-> cands[order[k]]]
         /\ \A i \in D : \E k \in 1..n : order[k] = i
         /\ \A j, k \in 1..n :
               j < k => /\ order[j] # order[k]
                        /\ cands[order[k]].score <= cands[order[j]].score
  BY <1>1
<1> HIDE DEF list
<1>3. /\ DOMAIN list = 1..n
      /\ \A k \in 1..n : order[k] \in D /\ list[k] = cands[order[k]]
  BY <1>2
<1>4. list \in Seq(ToSet(list))
  <2>1. \A k \in 1..n : list[k] \in ToSet(list)
    BY <1>3 DEF ToSet
  <2>2. list \in [1..n -> ToSet(list)]
    BY <1>2, <1>3, <2>1
  <2> QED
    BY <2>2
<1>5. OnceEach(list)
  <2>1. \A j, k \in 1..n : j # k => order[j] # order[k]
    BY <1>2
  <2> QED
    BY <1>3, <2>1 DEF OnceEach
<1>6. BestFirst(list)
  BY <1>2, <1>3 DEF BestFirst
<1>7. ToSet(list) = {cands[i] : i \in D}
  BY <1>2, <1>3 DEF ToSet
<1> QED
  BY <1>4, <1>5, <1>6, <1>7 DEF Listing, list

\* The merge lists the places that were found, and says of each what all of its
\* hits say.
LEMMA MergeGives ==
    ASSUME NEW cands, Found(cands)
    PROVE  /\ Listing(Merge(cands))
           /\ \A c \in ToSet(Merge(cands)) : MergedFrom(cands, c)
           /\ \A c \in ToSet(cands) : \E d \in ToSet(Merge(cands)) : DedupKey(d) = DedupKey(c)
<1> DEFINE first == {i \in DOMAIN cands : \A j \in Group(cands, i) : i <= j}
           merged == [i \in first |-> MergeGroup(cands, i)]
<1>1. /\ DOMAIN cands \subseteq Nat /\ IsFiniteSet(DOMAIN cands)
      /\ first \subseteq DOMAIN cands
  <2>1. DOMAIN cands = 1..Len(cands) /\ Len(cands) \in Nat
    BY DEF Found
  <2> QED
    BY <2>1, FS_Interval
<1>2. IsFiniteSet(first)
  BY <1>1, FS_Subset
<1>3. \A i \in first : /\ merged[i] = MergeGroup(cands, i)
                       /\ MergedFrom(cands, merged[i])
                       /\ DedupKey(merged[i]) = DedupKey(cands[i])
  BY <1>1, MergedGroup
<1>4. Scored(merged)
  <2>1. \A i \in first : merged[i].score \in Int /\ merged[i].path \in ToSet(Files)
    <3> TAKE i \in first
    <3>1. PICK c : c = merged[i] /\ MergedFrom(cands, c)
      BY <1>3, Zenon
    <3>2. c.score \in Int /\ c.path \in ToSet(Files)
      BY <3>1, MergedGives
    <3> QED
      BY <3>1, <3>2, Zenon
  <2> QED
    BY <1>1, <1>2, <2>1 DEF Scored
<1>5. OnceEach(merged)
  <2> SUFFICES ASSUME NEW i \in first, NEW j \in first, i # j,
                      DedupKey(merged[i]) = DedupKey(merged[j])
               PROVE  FALSE
    BY DEF OnceEach
  <2>1. DedupKey(cands[i]) = DedupKey(cands[j])
    BY <1>3
  <2>2. j \in Group(cands, i) /\ i \in Group(cands, j)
    BY <1>1, <2>1, SameGroup
  <2> QED
    BY <1>1, <2>2
<1>6. /\ Merge(cands) = Ordered(merged)
      /\ Listing(Ordered(merged))
      /\ ToSet(Ordered(merged)) = {merged[i] : i \in first}
  <2>1. Merge(cands) = Ordered(merged)
    BY DEF Merge
  <2>2. DOMAIN merged = first
    OBVIOUS
  <2> HIDE DEF merged, first
  <2> QED
    BY <1>4, <1>5, <2>1, <2>2, Listed
<1>7. ASSUME NEW c \in ToSet(cands)
      PROVE  \E i \in first : DedupKey(cands[i]) = DedupKey(c)
  <2>1. PICK i \in DOMAIN cands : c = cands[i]
    BY DEF ToSet
  <2>2. Group(cands, i) \subseteq Nat /\ i \in Group(cands, i)
    BY <1>1, SameGroup
  <2> DEFINE least == Smallest(Group(cands, i))
  <2>3. least \in Group(cands, i) /\ \A j \in Group(cands, i) : least <= j
    BY <2>2, SmallestOf
  <2>4. least \in DOMAIN cands /\ DedupKey(cands[least]) = DedupKey(c)
    BY <2>1, <2>3, SameGroup
  <2>5. Group(cands, least) = Group(cands, i)
    BY <2>1, <2>4, SameGroup
  <2> QED
    BY <2>3, <2>4, <2>5
<1> HIDE DEF merged, first
<1> QED
  BY <1>3, <1>6, <1>7

-----------------------------------------------------------------------------
(* The decisions and the cut *)

LEMMA DeltaGives ==
    ASSUME NEW contexts, IsFiniteSet(DOMAIN contexts), NEW query, NEW stale
    PROVE  /\ RerankDelta(contexts, query, stale) \in Int
           /\ -50 <= RerankDelta(contexts, query, stale)
           /\ RerankDelta(contexts, query, stale) <= 45
<1> DEFINE Of(state, reuses) == {i \in DOMAIN contexts :
                                    /\ contexts[i].state = state
                                    /\ ClassifyReuse(query, contexts[i]) \in reuses}
           related == {"exact", "compatible"}
           verified == Of("verified", related)
           rejected == Of("rejected", {"exact"})
           exact == Cardinality(Of("verified", {"exact"}))
           compatible == Cardinality(Of("verified", {"compatible"}))
           golden == Cardinality({i \in verified : contexts[i].golden})
           historical == Cardinality({i \in verified : contexts[i].historical})
           legacy == Cardinality({i \in verified : contexts[i].legacy})
           refused == Cardinality(rejected)
           boost == 35 * exact + 20 * compatible + 5 * golden + 5 * historical - 15 * legacy
           repeated == \E i \in rejected : contexts[i].rejections >= 2
           penalty == -30 * refused
           most == IF repeated /\ penalty > -50 THEN -50 ELSE penalty
           outdated == IF Of("stale", related) # {} /\ ~stale THEN 50 ELSE 0
<1>1. RerankDelta(contexts, query, stale) = Clamp(-50, 45, boost + most - outdated)
  BY DEF RerankDelta
<1>2. \A S \in SUBSET DOMAIN contexts : Cardinality(S) \in Nat
  BY FS_Subset, FS_CardinalityType
<1>3. /\ exact \in Nat /\ compatible \in Nat /\ golden \in Nat /\ historical \in Nat
      /\ legacy \in Nat /\ refused \in Nat
  BY <1>2
<1> HIDE DEF exact, compatible, golden, historical, legacy, refused
<1>4. boost \in Int /\ penalty \in Int
  BY <1>3
<1>5. most \in Int /\ outdated \in Int
  BY <1>4
<1> HIDE DEF boost, most, outdated
<1> QED
  BY <1>1, <1>4, <1>5, Clamped

\* The decisions on a place change the score of its candidate and nothing else.
LEMMA RerankedGives ==
    ASSUME NEW c, DOMAIN c = Fields, c.score \in Nat,
           NEW contexts, \A p \in DOMAIN contexts : IsFiniteSet(DOMAIN contexts[p]), NEW query,
           NEW d, d = Reranked(c, contexts, query)
    PROVE  /\ DOMAIN d = Fields
           /\ d.path = c.path /\ d.symbol = c.symbol
           /\ d.evidence = c.evidence /\ d.stale = c.stale
           /\ DedupKey(d) = DedupKey(c)
           /\ DedupKey(c) \notin DOMAIN contexts => d.score = c.score
           /\ DedupKey(c) \in DOMAIN contexts =>
                 /\ d.score \in Nat /\ d.score <= 10000
                 /\ d.score = Clamp(0, 10000,
                       c.score + 100 * RerankDelta(contexts[DedupKey(c)], query, c.stale))
<1>1. CASE DedupKey(c) \notin DOMAIN contexts
  BY <1>1 DEF Reranked
<1>2. CASE DedupKey(c) \in DOMAIN contexts
  <2>1. PICK delta : delta = RerankDelta(contexts[DedupKey(c)], query, c.stale)
    OBVIOUS
  <2>2. delta \in Int
    BY <1>2, <2>1, DeltaGives
  <2>3. PICK score : score = Clamp(0, 10000, c.score + 100 * delta)
    OBVIOUS
  <2>4. score \in Nat /\ score <= 10000
    BY <2>2, <2>3 DEF Clamp
  <2>5. d = [c EXCEPT !.score = score]
    BY <1>2, <2>1, <2>3 DEF Reranked
  <2>6. /\ DOMAIN d = Fields /\ d.score = score
        /\ d.path = c.path /\ d.symbol = c.symbol
        /\ d.evidence = c.evidence /\ d.stale = c.stale
    BY <2>5 DEF Fields
  <2>7. DedupKey(d) = DedupKey(c)
    BY <2>6 DEF DedupKey
  <2> QED
    BY <1>2, <2>1, <2>3, <2>4, <2>6, <2>7
<1> QED
  BY <1>1, <1>2

\* All candidates of a search, before the cut.
Uncut(found, contexts, query, reranks) ==
    IF reranks THEN Rerank(Merge(found), contexts, query) ELSE Merge(found)
Weighed(c, contexts, query, reranks) == IF reranks THEN Reranked(c, contexts, query) ELSE c

LEMMA UncutGives ==
    ASSUME NEW found, Found(found), NEW reranks \in BOOLEAN, NEW query,
           NEW contexts, \A p \in DOMAIN contexts : IsFiniteSet(DOMAIN contexts[p])
    PROVE  /\ Listing(Uncut(found, contexts, query, reranks))
           /\ ToSet(Uncut(found, contexts, query, reranks)) =
                 {Weighed(c, contexts, query, reranks) : c \in ToSet(Merge(found))}
<1> DEFINE merged == Merge(found)
<1>1. Listing(merged) /\ \A c \in ToSet(merged) : MergedFrom(found, c)
  BY MergeGives
<1>2. CASE ~reranks
  BY <1>1, <1>2 DEF Uncut, Weighed
<1>3. CASE reranks
  <2> DEFINE changed == [i \in DOMAIN merged |-> Reranked(merged[i], contexts, query)]
  <2>1. Uncut(found, contexts, query, reranks) = Ordered(changed)
    BY <1>3 DEF Uncut, Rerank
  <2> HIDE DEF merged
  <2>2. DOMAIN merged \subseteq Nat /\ IsFiniteSet(DOMAIN merged)
    <3>1. DOMAIN merged = 1..Len(merged) /\ Len(merged) \in Nat
      BY <1>1 DEF Listing
    <3> QED
      BY <3>1, FS_Interval
  <2>3. \A i \in DOMAIN merged : /\ changed[i].score \in Int
                                 /\ changed[i].path \in ToSet(Files)
                                 /\ DedupKey(changed[i]) = DedupKey(merged[i])
    <3> TAKE i \in DOMAIN merged
    <3>1. PICK c : c = merged[i] /\ MergedFrom(found, c)
      BY <1>1 DEF ToSet
    <3>2. DOMAIN c = Fields /\ c.path \in ToSet(Files) /\ c.score \in Nat
      BY <3>1, MergedGives
    <3>3. PICK d : d = Reranked(c, contexts, query)
      OBVIOUS
    <3>4. d.score \in Int /\ d.path \in ToSet(Files) /\ DedupKey(d) = DedupKey(c)
      BY <3>2, <3>3, RerankedGives
    <3> QED
      BY <3>1, <3>3, <3>4
  <2>4. Scored(changed) /\ OnceEach(changed)
    BY <1>1, <2>2, <2>3 DEF Scored, OnceEach, Listing
  <2>5. Listing(Ordered(changed)) /\ ToSet(Ordered(changed)) = {changed[i] : i \in DOMAIN merged}
    <3>1. DOMAIN changed = DOMAIN merged
      OBVIOUS
    <3> HIDE DEF changed
    <3> QED
      BY <2>4, <3>1, Listed
  <2>6. {changed[i] : i \in DOMAIN merged} =
           {Weighed(c, contexts, query, reranks) : c \in ToSet(merged)}
    BY <1>3 DEF Weighed, ToSet
  <2> QED
    BY <2>1, <2>5, <2>6 DEF merged
<1> QED
  BY <1>2, <1>3

\* The cut takes the first ones.
LEMMA CutGives ==
    ASSUME NEW cands, Listing(cands), NEW k \in Nat
    PROVE  /\ Listing(FinalTopK(cands, k))
           /\ \A i \in DOMAIN FinalTopK(cands, k) :
                 /\ i \in DOMAIN cands
                 /\ FinalTopK(cands, k)[i] = cands[i]
                 /\ \A j \in DOMAIN cands : j < i => j \in DOMAIN FinalTopK(cands, k)
<1> DEFINE n == IF Len(cands) < k THEN Len(cands) ELSE k
           cut == FinalTopK(cands, k)
<1>1. cands \in Seq(ToSet(cands)) /\ Len(cands) \in Nat /\ DOMAIN cands = 1..Len(cands)
  BY DEF Listing
<1>2. n \in Nat /\ n <= Len(cands)
  BY <1>1
<1>3. cut = SubSeq(cands, 1, n)
  BY DEF FinalTopK
<1> HIDE DEF n, cut
<1>4. /\ Len(cut) = n
      /\ cut \in Seq(ToSet(cands))
      /\ \A i \in 1..n : cut[i] = cands[i]
  BY <1>1, <1>2, <1>3, SubSeqProperties
<1>5. DOMAIN cut = 1..n
  BY <1>4
<1>6. cut \in Seq(ToSet(cut))
  <2>1. \A i \in 1..n : cut[i] \in ToSet(cut)
    BY <1>5 DEF ToSet
  <2>2. cut \in [1..n -> ToSet(cut)]
    BY <1>4, <1>5, <2>1
  <2> QED
    BY <1>2, <2>2
<1>7. \A i \in 1..n : i \in DOMAIN cands
  BY <1>1, <1>2
<1>8. \A i \in 1..n : \A j \in DOMAIN cands : j < i => j \in 1..n
  BY <1>1, <1>2
<1>9. OnceEach(cut) /\ BestFirst(cut)
  BY <1>4, <1>5, <1>7 DEF Listing, OnceEach, BestFirst
<1> QED
  BY <1>4, <1>5, <1>6, <1>7, <1>8, <1>9 DEF Listing, cut

\* An answer: the first of all candidates that a merge and the decisions give.
LEMMA RankedGives ==
    ASSUME NEW found, Found(found), NEW reranks \in BOOLEAN, NEW query, NEW k \in Nat,
           NEW contexts, \A p \in DOMAIN contexts : IsFiniteSet(DOMAIN contexts[p]),
           NEW answer, answer = Ranked(found, contexts, query, reranks, k)
    PROVE  /\ Listing(answer)
           /\ \A c \in ToSet(answer) : \E d \in ToSet(Merge(found)) :
                 /\ MergedFrom(found, d)
                 /\ c = Weighed(d, contexts, query, reranks)
           /\ \A d \in ToSet(Merge(found)) : \A j \in DOMAIN answer :
                 Weighed(d, contexts, query, reranks).score > answer[j].score =>
                    \E i \in DOMAIN answer : /\ i < j
                                             /\ answer[i] = Weighed(d, contexts, query, reranks)
<1> DEFINE all == Uncut(found, contexts, query, reranks)
<1>1. answer = FinalTopK(all, k)
  BY DEF Ranked, Uncut
<1>2. /\ Listing(all)
      /\ ToSet(all) = {Weighed(c, contexts, query, reranks) : c \in ToSet(Merge(found))}
  BY UncutGives
<1> HIDE DEF all
<1>3. /\ Listing(answer)
      /\ \A i \in DOMAIN answer : /\ i \in DOMAIN all
                                  /\ answer[i] = all[i]
                                  /\ \A j \in DOMAIN all : j < i => j \in DOMAIN answer
  BY <1>1, <1>2, CutGives
<1>4. ASSUME NEW c \in ToSet(answer)
      PROVE  \E d \in ToSet(Merge(found)) : /\ MergedFrom(found, d)
                                            /\ c = Weighed(d, contexts, query, reranks)
  <2>1. c \in ToSet(all)
    BY <1>3 DEF ToSet
  <2> QED
    BY <1>2, <2>1, MergeGives
<1>5. ASSUME NEW d \in ToSet(Merge(found)), NEW j \in DOMAIN answer, NEW c,
             c = Weighed(d, contexts, query, reranks), c.score > answer[j].score,
             c.score \in Nat, answer[j].score \in Nat
      PROVE  \E i \in DOMAIN answer : i < j /\ answer[i] = c
  <2>1. PICK i \in DOMAIN all : all[i] = c
    BY <1>2, <1>5 DEF ToSet
  <2>2. DOMAIN all \subseteq Nat
    BY <1>2 DEF Listing
  <2>3. j \in DOMAIN all /\ answer[j] = all[j]
    BY <1>3
  <2>4. ~(j < i) /\ i # j
    BY <1>2, <1>5, <2>1, <2>3 DEF Listing, BestFirst
  <2> QED
    BY <1>3, <2>1, <2>2, <2>3, <2>4
<1>6. \A c, d : /\ MergedFrom(found, d) /\ c = Weighed(d, contexts, query, reranks)
                => c.score \in Nat /\ c.score <= 10000
  <2> TAKE c, d
  <2> SUFFICES ASSUME MergedFrom(found, d), c = Weighed(d, contexts, query, reranks)
               PROVE  c.score \in Nat /\ c.score <= 10000
    OBVIOUS
  <2>1. d.score \in Nat /\ d.score <= 10000 /\ DOMAIN d = Fields
    BY MergedGives
  <2>2. CASE ~reranks
    BY <2>1, <2>2 DEF Weighed
  <2>3. CASE reranks
    <3>1. c = Reranked(d, contexts, query)
      BY <2>3 DEF Weighed
    <3> QED
      BY <2>1, <3>1, RerankedGives
  <2> QED
    BY <2>2, <2>3
<1>7. \A j \in DOMAIN answer : answer[j].score \in Nat
  BY <1>4, <1>6 DEF ToSet
<1>8. \A d \in ToSet(Merge(found)) : Weighed(d, contexts, query, reranks).score \in Nat
  BY <1>6, MergeGives
<1> QED
  BY <1>3, <1>4, <1>5, <1>7, <1>8

-----------------------------------------------------------------------------
(* What an answer is made of *)

\* What would score more than a place of the answer stands above it.
LEMMA Outscored ==
    ASSUME NEW found, Found(found), NEW reranks \in BOOLEAN, NEW query, NEW k \in Nat,
           NEW contexts, \A p \in DOMAIN contexts : IsFiniteSet(DOMAIN contexts[p]),
           NEW answer, answer = Ranked(found, contexts, query, reranks, k)
    PROVE  \A d \in ToSet(Merge(found)) : \A j \in DOMAIN answer :
                 Weighed(d, contexts, query, reranks).score > answer[j].score =>
                    \E i \in DOMAIN answer : /\ i < j
                                             /\ answer[i] = Weighed(d, contexts, query, reranks)
BY RankedGives

LEMMA RankedAbove ==
    ASSUME NEW found, Found(found), NEW reranks \in BOOLEAN, NEW query, NEW k \in Nat,
           NEW contexts, \A p \in DOMAIN contexts : IsFiniteSet(DOMAIN contexts[p]),
           NEW answer, answer = Ranked(found, contexts, query, reranks, k),
           NEW m \in ToSet(Merge(found)), NEW v, v = Weighed(m, contexts, query, reranks),
           NEW j \in DOMAIN answer, v.score > answer[j].score
    PROVE  \E i \in DOMAIN answer : i < j /\ answer[i] = v
<1>1. \A d \in ToSet(Merge(found)) : \A l \in DOMAIN answer :
                 Weighed(d, contexts, query, reranks).score > answer[l].score =>
                    \E i \in DOMAIN answer : /\ i < l
                                             /\ answer[i] = Weighed(d, contexts, query, reranks)
  BY Outscored
<1>2. \A l \in DOMAIN answer :
                 v.score > answer[l].score =>
                    \E i \in DOMAIN answer : /\ i < l
                                             /\ answer[i] = v
  BY <1>1
<1> QED
  BY <1>2

\* What an answer says of a place is what the merge says.
LEMMA AnswerGives ==
    ASSUME NEW found, Found(found), NEW reranks \in BOOLEAN, NEW query, NEW k \in Nat,
           NEW contexts, \A p \in DOMAIN contexts : IsFiniteSet(DOMAIN contexts[p]),
           NEW c \in ToSet(Ranked(found, contexts, query, reranks, k))
    PROVE  /\ c.path \in ToSet(Files)
           /\ c.score \in Nat /\ c.score <= 10000
           /\ \E d : /\ MergedFrom(found, d)
                     /\ DedupKey(c) = DedupKey(d) /\ c.evidence = d.evidence
                     /\ DedupKey(c) \notin DOMAIN contexts => c.score = d.score
<1>1. PICK d \in ToSet(Merge(found)) : /\ MergedFrom(found, d)
                                       /\ c = Weighed(d, contexts, query, reranks)
  BY RankedGives
<1>2. /\ DOMAIN d = Fields /\ d.path \in ToSet(Files)
      /\ d.score \in Nat /\ d.score <= 10000
  BY <1>1, MergedGives
<1>3. CASE ~reranks
  BY <1>1, <1>2, <1>3 DEF Weighed
<1>4. CASE reranks
  <2>1. c = Reranked(d, contexts, query)
    BY <1>1, <1>4 DEF Weighed
  <2>2. /\ c.path = d.path /\ c.evidence = d.evidence /\ DedupKey(c) = DedupKey(d)
        /\ DedupKey(d) \notin DOMAIN contexts => c.score = d.score
        /\ DedupKey(d) \in DOMAIN contexts => c.score \in Nat /\ c.score <= 10000
    BY <1>2, <2>1, RerankedGives
  <2> QED
    BY <1>1, <1>2, <2>2
<1> QED
  BY <1>3, <1>4

\* A high score of merged evidence is that of a hit that is not outdated.
LEMMA EvidenceHeld ==
    ASSUME NEW found, Found(found), NEW c, MergedFrom(found, c),
           NEW s \in DOMAIN c.evidence, c.evidence[s] >= MinRetrievalScore
    PROVE  \E d \in ToSet(found) : /\ DedupKey(d) = DedupKey(c) /\ ~d.stale
                                   /\ d.score >= 100 * MinRetrievalScore
<1> DEFINE members == Members(found, DedupKey(c))
<1>1. members # {} /\ members \subseteq ToSet(found)
      /\ \A d \in members : Hit(d) /\ DedupKey(d) = DedupKey(c)
  BY DEF MergedFrom, Members, Found
<1>2. c.evidence = Evidence(members)
  BY DEF MergedFrom
<1> HIDE DEF members
<1>3. PICK d \in members : s \in DOMAIN d.evidence /\ d.evidence[s] = c.evidence[s]
  BY <1>1, <1>2, EvidenceGives
<1>4. /\ d.evidence[s] \in Nat /\ d.evidence[s] >= 80
      /\ d.score = 100 * d.evidence[s]
      /\ d.stale => d.evidence[s] = 0
  <2>1. /\ d.evidence[s] \in 0..100
        /\ d.score = 100 * d.evidence[s]
        /\ d.stale => d.evidence[s] = 0
    BY <1>1, <1>3, Zenon DEF Hit
  <2>2. d.evidence[s] >= 80
    BY <1>3 DEF MinRetrievalScore
  <2> QED
    BY <2>1, <2>2
<1> QED
  BY <1>1, <1>4 DEF MinRetrievalScore

\* The scores of a listing go down.
LEMMA ScoresListed ==
    ASSUME NEW answer, Listing(answer),
           \A c \in ToSet(answer) : c.score \in Nat /\ c.score <= 10000
    PROVE  \A i \in DOMAIN answer :
              /\ answer[i].score \in Nat /\ answer[i].score <= 10000
              /\ i > 1 => answer[i - 1].score >= answer[i].score
<1>1. ASSUME NEW i \in DOMAIN answer
      PROVE  answer[i].score \in Nat /\ answer[i].score <= 10000
  BY <1>1 DEF ToSet
<1>2. ASSUME NEW i \in DOMAIN answer, i > 1 PROVE answer[i - 1].score >= answer[i].score
  <2>1. DOMAIN answer = 1..Len(answer) /\ Len(answer) \in Nat
    BY DEF Listing
  <2>2. i - 1 \in DOMAIN answer /\ i - 1 < i
    BY <2>1, <1>2
  <2> QED
    BY <2>2 DEF Listing, BestFirst
<1> QED
  BY <1>1, <1>2

\* The ranking without the decisions does not depend on them.
LEMMA NotReranked ==
    ASSUME NEW found, NEW contexts, NEW query, NEW k
    PROVE  Ranked(found, contexts, query, FALSE, k) = Ranked(found, <<>>, query, FALSE, k)
BY DEF Ranked

-----------------------------------------------------------------------------
(* Hits *)

\* Hits by numbers from 1 are what a provider finds.
LEMMA FoundFrom ==
    ASSUME NEW n \in Nat, NEW hits, hits = [i \in 1..n |-> hits[i]],
           \A i \in 1..n : Hit(hits[i])
    PROVE  Found(hits)
<1>1. DOMAIN hits = 1..n
  OBVIOUS
<1>2. \A i \in 1..n : hits[i] \in ToSet(hits)
  BY <1>1 DEF ToSet
<1>3. hits \in [1..n -> ToSet(hits)]
  BY <1>2
<1>4. hits \in Seq(ToSet(hits))
  BY <1>3
<1>5. \A c \in ToSet(hits) : Hit(c)
  BY <1>1, Zenon DEF ToSet
<1> QED
  BY <1>4, <1>5 DEF Found

\* The hits of two providers, one after the other.
LEMMA FoundJoined ==
    ASSUME NEW a, NEW b, Found(a), Found(b)
    PROVE  /\ Found(a \o b)
           /\ ToSet(a \o b) = ToSet(a) \union ToSet(b)
<1> DEFINE S == ToSet(a) \union ToSet(b)
           m == Len(a)
           n == Len(b)
           c == a \o b
<1>1. a \in Seq(S) /\ b \in Seq(S) /\ m \in Nat /\ n \in Nat
      /\ DOMAIN a = 1..m /\ DOMAIN b = 1..n
  BY DEF Found
<1>2. /\ Len(c) = m + n /\ c \in Seq(S) /\ DOMAIN c = 1..(m + n)
      /\ \A i \in 1..(m + n) : c[i] = IF i <= m THEN a[i] ELSE b[i - m]
  BY <1>1
<1>3. \A x \in ToSet(a) : x \in ToSet(c)
  <2> TAKE x \in ToSet(a)
  <2>1. PICK i \in 1..m : a[i] = x
    BY <1>1 DEF ToSet
  <2>2. i \in 1..(m + n) /\ i <= m
    BY <1>1
  <2>3. c[i] = x
    BY <1>2, <2>1, <2>2
  <2> QED
    BY <1>2, <2>2, <2>3 DEF ToSet
<1>4. \A x \in ToSet(b) : x \in ToSet(c)
  <2> TAKE x \in ToSet(b)
  <2>1. PICK i \in 1..n : b[i] = x
    BY <1>1 DEF ToSet
  <2>2. i + m \in 1..(m + n) /\ ~(i + m <= m) /\ (i + m) - m = i
    BY <1>1
  <2>3. c[i + m] = x
    BY <1>2, <2>1, <2>2
  <2> QED
    BY <1>2, <2>2, <2>3 DEF ToSet
<1>5. \A x \in ToSet(c) : x \in S
  BY <1>2 DEF ToSet
<1> HIDE DEF c
<1>6. ToSet(c) = S
  BY <1>3, <1>4, <1>5
<1>7. c \in Seq(ToSet(c))
  BY <1>2, <1>6
<1>8. \A x \in S : Hit(x)
  BY DEF Found
<1> QED
  BY <1>6, <1>7, <1>8 DEF Found, c

\* A provider that fails has found nothing.
LEMMA NothingFound == Found(<<>>) /\ ToSet(<<>>) = {}
<1>1. ToSet(<<>>) = {}
  BY DEF ToSet
<1> QED
  BY <1>1 DEF Found

\* The first k of a set that is put in order.
LEMMA NearOnes ==
    ASSUME NEW S, IsFiniteSet(S), NEW less, Orders(less, S), NEW k \in Nat,
           NEW near, near = FinalTopK(Arrange(S, less), k)
    PROVE  \E n \in Nat : near \in [1..n -> S]
<1> DEFINE all == Arrange(S, less)
           m == Cardinality(S)
           n == IF Len(all) < k THEN Len(all) ELSE k
<1>1. m \in Nat /\ all \in [1..m -> S]
  BY Arranged
<1> HIDE DEF all, m
<1>2. all \in Seq(S) /\ Len(all) \in Nat
  BY <1>1
<1>3. n \in Nat /\ n <= Len(all) /\ near = SubSeq(all, 1, n)
  BY <1>2 DEF FinalTopK, all
<1> HIDE DEF n
<1>4. near \in Seq(S) /\ Len(near) = n
  BY <1>2, <1>3, SubSeqProperties
<1>5. near \in [1..n -> S]
  BY <1>4
<1> QED
  BY <1>3, <1>5

\* A finite set can be numbered.
LEMMA InASequence ==
    ASSUME NEW S, IsFiniteSet(S)
    PROVE  \E n \in Nat : SetToSeq(S) \in [1..n -> S]
<1> DEFINE n == Cardinality(S)
<1>1. n \in Nat /\ ExistsBijection(1..n, S)
  BY FS_CardinalityType
<1>2. \E f \in [1..n -> S] : IsInjective(f)
  BY <1>1 DEF ExistsBijection, Bijection, Injection
<1>3. SetToSeq(S) = CHOOSE f \in [1..n -> S] : IsInjective(f)
  BY DEF SetToSeq
<1>4. SetToSeq(S) \in [1..n -> S]
  BY <1>2, <1>3, Zenon
<1> QED
  BY <1>1, <1>4

-----------------------------------------------------------------------------
(* The policy *)

\* What the policy asks of a draft.
LEMMA PolicyAllows ==
    ASSUME NEW dbMatch, NEW type, NEW confident, NEW commit, NEW cands, NEW existing,
           Propose(dbMatch, type, BlockReasons(type, confident, cands, existing, commit)) = "draft_allowed"
    PROVE  /\ cands # <<>>
           /\ \E s \in DOMAIN cands[1].evidence : cands[1].evidence[s] >= MinRetrievalScore
           /\ {c.path : c \in ToSet(cands)} \subseteq existing
<1> DEFINE reasons == BlockReasons(type, confident, cands, existing, commit)
<1>1. reasons = {}
  <2> HIDE DEF reasons
  <2> SUFFICES ASSUME reasons # {} PROVE FALSE
    OBVIOUS
  <2>1. PolicyDecision(type, reasons) # "draft_allowed"
    BY DEF PolicyDecision
  <2>2. Propose(dbMatch, type, reasons) # "draft_allowed"
    BY <2>1 DEF Propose
  <2> QED
    BY <2>2 DEF reasons
<1>2. "retrieval_candidate_missing" \notin reasons
      /\ "retrieval_score_low" \notin reasons /\ "candidate_file_missing" \notin reasons
  BY <1>1
<1> HIDE <1>1
<1>3. cands # <<>>
  BY <1>2 DEF BlockReasons
<1>4. ASSUME ~\E s \in DOMAIN cands[1].evidence : cands[1].evidence[s] >= MinRetrievalScore
      PROVE  FALSE
  BY <1>2, <1>3, <1>4 DEF BlockReasons
<1>5. ASSUME ~({c.path : c \in ToSet(cands)} \subseteq existing)
      PROVE  FALSE
  BY <1>2, <1>3, <1>5 DEF BlockReasons
<1> QED
  BY <1>3, <1>4, <1>5

=============================================================================
