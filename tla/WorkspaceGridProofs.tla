------------------------- MODULE WorkspaceGridProofs -------------------------
(***************************************************************************)
(* What the operators of WorkspaceGrid return, for lists of any length.    *)
(***************************************************************************)
EXTENDS WorkspaceGrid, SequenceTheorems, FiniteSetTheorems, TLAPS

-----------------------------------------------------------------------------
(* Numbers in order. *)

\* A set of naturals that is not empty has a least element.
LEMMA LeastNumber ==
  ASSUME NEW T \in SUBSET Nat, T # {}
  PROVE  \E x \in T : \A y \in T : x <= y
<1> DEFINE R == OpToRel(<, Nat)
<1>1. R = {ss \in Nat \X Nat : ss[1] < ss[2]}
  BY DEF OpToRel
<1>2. IsWellFoundedOn(R, Nat)
  BY NatLessThanWellFounded
<1> HIDE DEF R
<1>3. PICK x \in T : \A y \in T : <<y, x>> \notin R
  BY <1>2, WFMin
<1>4. \A y \in T : ~(y < x)
  BY <1>1, <1>3
<1>5. QED
  BY <1>4

\* How many numbers of a set are not above x.
Rank(S, x) == Cardinality({y \in S : y <= x})

LEMMA RankGrows ==
  ASSUME NEW S \in SUBSET Int, IsFiniteSet(S)
  PROVE  /\ Cardinality(S) \in Nat
         /\ \A x \in S : Rank(S, x) \in 1..Cardinality(S)
         /\ \A x, z \in S : x < z => Rank(S, x) < Rank(S, z)
         /\ \A x, z \in S : Rank(S, x) = Rank(S, z) => x = z
<1> DEFINE Below(x) == {y \in S : y <= x}
<1>1. \A x : Below(x) \in SUBSET S
  OBVIOUS
<1>2. \A x : IsFiniteSet(Below(x)) /\ Cardinality(Below(x)) \in Nat
             /\ Cardinality(Below(x)) <= Cardinality(S)
  BY <1>1, FS_Subset, FS_CardinalityType
<1>3. Cardinality(S) \in Nat
  BY FS_CardinalityType
<1>4. ASSUME NEW x \in S
      PROVE  Rank(S, x) \in 1..Cardinality(S)
  <2>1. x \in Below(x)
    OBVIOUS
  <2>2. Cardinality(Below(x)) # 0
    BY <2>1, <1>2, FS_EmptySet
  <2> DEFINE b == Cardinality(Below(x))
             c == Cardinality(S)
  <2>3. b \in Nat /\ b # 0 /\ b <= c /\ c \in Nat
    BY <2>2, <1>2, <1>3
  <2>4. Rank(S, x) = b
    BY DEF Rank
  <2> HIDE DEF b, c
  <2>5. b \in 1..c
    BY <2>3
  <2>6. QED
    BY <2>4, <2>5 DEF c
<1>5. ASSUME NEW x \in S, NEW z \in S, x < z
      PROVE  Rank(S, x) < Rank(S, z)
  <2> x \in Int /\ z \in Int /\ \A y \in S : y \in Int
    OBVIOUS
  <2>1. /\ \A y \in S : y <= x => y <= z
        /\ z <= z /\ ~(z <= x)
    BY <1>5
  <2>5. Below(x) \in SUBSET Below(z) /\ z \in Below(z) /\ z \notin Below(x)
    BY <2>1
  <2>2. Cardinality(Below(x)) <= Cardinality(Below(z))
    BY <2>5, <1>2, FS_Subset
  <2>3. Cardinality(Below(x)) # Cardinality(Below(z))
    BY <2>5, <1>2, FS_Subset
  <2>4. QED
    BY <2>2, <2>3, <1>2 DEF Rank
<1>6. ASSUME NEW x \in S, NEW z \in S, Rank(S, x) = Rank(S, z)
      PROVE  x = z
  <2>1. Rank(S, x) \in Int /\ ~(x < z) /\ ~(z < x)
    BY <1>4, <1>5, <1>6, <1>3
  <2>2. QED
    BY <2>1
<1>7. QED
  BY <1>3, <1>4, <1>5, <1>6

LEMMA RankReached ==
  ASSUME NEW S \in SUBSET Int, IsFiniteSet(S), NEW n \in 1..Cardinality(S)
  PROVE  \E x \in S : Rank(S, x) = n
<1> DEFINE c == Cardinality(S)
           rank == [x \in S |-> Rank(S, x)]
<1>1. c \in Nat /\ IsFiniteSet(1..c) /\ Cardinality(1..c) = c
  BY FS_CardinalityType, FS_Interval
<1>2. rank \in Injection(S, 1..c)
  <2>1. rank \in [S -> 1..c]
    BY RankGrows
  <2>2. \A x, z \in S : rank[x] = rank[z] => x = z
    BY RankGrows
  <2> HIDE DEF rank
  <2>3. QED
    BY <2>1, <2>2 DEF Injection, IsInjective
<1>3. rank \in Surjection(S, 1..c)
  BY <1>1, <1>2, FS_Injection
<1>4. \E x \in S : rank[x] = n
  BY <1>3 DEF Surjection
<1>5. QED
  BY <1>4

\* Ascending lists every number of a finite set once, the lesser first.
LEMMA AscendingSet ==
  ASSUME NEW S \in SUBSET Int, IsFiniteSet(S)
  PROVE  /\ Cardinality(S) \in Nat
         /\ Ascending(S) \in [1..Cardinality(S) -> S]
         /\ \A n \in 1..Cardinality(S) : Rank(S, Ascending(S)[n]) = n
         /\ \A i, j \in 1..Cardinality(S) : i < j => Ascending(S)[i] < Ascending(S)[j]
         /\ \A x \in S : \E n \in 1..Cardinality(S) : Ascending(S)[n] = x
<1> DEFINE c == Cardinality(S)
<1>1. c \in Nat
  BY FS_CardinalityType
<1>2. \A n \in 1..c : Ascending(S)[n] \in S /\ Rank(S, Ascending(S)[n]) = n
  BY RankReached DEF Ascending, Rank
<1>3. Ascending(S) \in [1..c -> S]
  BY <1>2 DEF Ascending
<1> HIDE DEF c
<1>7. \A x, z \in S : (x < z => Rank(S, x) < Rank(S, z)) /\ (Rank(S, x) = Rank(S, z) => x = z)
  BY RankGrows
<1>8. \A x \in S : Rank(S, x) \in 1..c
  BY RankGrows DEF c
<1>4. ASSUME NEW i \in 1..c, NEW j \in 1..c, i < j
      PROVE  Ascending(S)[i] < Ascending(S)[j]
  <2>1. /\ Ascending(S)[i] \in S /\ Ascending(S)[j] \in S
        /\ Rank(S, Ascending(S)[i]) = i /\ Rank(S, Ascending(S)[j]) = j
    BY <1>2
  <2>2. Ascending(S)[i] # Ascending(S)[j]
    BY <2>1, <1>4
  <2>3. ~(Ascending(S)[j] < Ascending(S)[i])
    <3>1. SUFFICES ASSUME Ascending(S)[j] < Ascending(S)[i] PROVE FALSE
      OBVIOUS
    <3>2. Rank(S, Ascending(S)[j]) < Rank(S, Ascending(S)[i])
      BY <3>1, <2>1, <1>7
    <3>3. j < i /\ i \in Int /\ j \in Int
      BY <3>2, <2>1, <1>1
    <3>4. QED
      BY <3>3, <1>4
  <2>5. \A x, z \in S : x < z \/ x = z \/ z < x
    OBVIOUS
  <2>4. QED
    BY <2>1, <2>2, <2>3, <2>5
<1>5. ASSUME NEW x \in S
      PROVE  \E n \in 1..c : Ascending(S)[n] = x
  <2>1. Rank(S, x) \in 1..c
    BY <1>8
  <2>2. Ascending(S)[Rank(S, x)] = x
    BY <2>1, <1>2, <1>7
  <2>3. QED
    BY <2>1, <2>2
<1>6. QED
  BY <1>1, <1>2, <1>3, <1>4, <1>5 DEF c

\* Nothing else does.
LEMMA AscendingIsOnly ==
  ASSUME NEW S \in SUBSET Int, IsFiniteSet(S), NEW n \in Nat, NEW f \in [1..n -> S],
         \A i, j \in 1..n : i < j => f[i] < f[j],
         \A x \in S : \E i \in 1..n : f[i] = x
  PROVE  n = Cardinality(S) /\ f = Ascending(S)
<1>1. ASSUME NEW i \in 1..n
      PROVE  Rank(S, f[i]) = i
  <2> DEFINE T == {y \in S : y <= f[i]}
             g == [j \in 1..i |-> f[j]]
  <2>1. \A j \in 1..n : f[j] \in Int /\ (f[j] <= f[i] <=> j <= i)
    <3>1. ASSUME NEW j \in 1..n
          PROVE  f[j] \in Int /\ (f[j] <= f[i] <=> j <= i)
      <4>1. f[j] \in Int /\ f[i] \in Int
        OBVIOUS
      <4>2. j < i => f[j] < f[i]
        OBVIOUS
      <4>3. i < j => f[i] < f[j]
        OBVIOUS
      <4>4. j < i \/ j = i \/ i < j
        OBVIOUS
      <4>5. j = i => f[j] = f[i]
        OBVIOUS
      <4> HIDE <1>1
      <4>6. QED
        BY <4>1, <4>2, <4>3, <4>4, <4>5
    <3>2. QED
      BY <3>1
  <2>2. g \in [1..i -> T]
    BY <2>1
  <2>3. \A y \in T : \E j \in 1..i : g[j] = y
    <3>1. ASSUME NEW y \in T
          PROVE  \E j \in 1..i : g[j] = y
      <4>1. PICK j \in 1..n : f[j] = y
        OBVIOUS
      <4>2. j \in 1..i
        BY <4>1, <2>1
      <4>3. QED
        BY <4>1, <4>2
    <3>2. QED
      BY <3>1
  <2>4. \A j, k \in 1..i : g[j] = g[k] => j = k
    <3>1. \A j, k \in 1..n : j < k => f[j] # f[k]
      BY <2>1
    <3>2. QED
      BY <3>1
  <2> HIDE DEF g, T
  <2>5. g \in Bijection(1..i, T)
    BY <2>2, <2>3, <2>4 DEF Bijection, Injection, Surjection, IsInjective
  <2>6. Cardinality(T) = i
    BY <2>5, FS_CountingElements DEF ExistsBijection
  <2>7. QED
    BY <2>6 DEF T, Rank
<1> DEFINE c == Cardinality(S)
<1>2. /\ c \in Nat
      /\ \A x \in S : Rank(S, x) \in 1..c
      /\ \A x, z \in S : Rank(S, x) = Rank(S, z) => x = z
      /\ \A m \in 1..c : \E x \in S : Rank(S, x) = m
  BY RankGrows, RankReached
<1>3. /\ Ascending(S) \in [1..c -> S]
      /\ \A m \in 1..c : Rank(S, Ascending(S)[m]) = m
  BY AscendingSet
<1> HIDE DEF c
<1>4. n = c
  <2>1. CASE n > c
    <3>1. n \in 1..n
      BY <2>1, <1>2
    <3>2. Rank(S, f[n]) = n /\ Rank(S, f[n]) \in 1..c
      BY <3>1, <1>1, <1>2
    <3>3. QED
      BY <3>2, <2>1, <1>2
  <2>2. CASE n < c
    <3>1. c \in 1..c
      BY <2>2, <1>2
    <3>2. PICK x \in S : Rank(S, x) = c
      BY <3>1, <1>2
    <3>3. PICK i \in 1..n : f[i] = x
      OBVIOUS
    <3>4. Rank(S, x) = i
      BY <3>3, <1>1
    <3>5. QED
      BY <3>2, <3>4, <2>2, <1>2
  <2>3. QED
    BY <2>1, <2>2, <1>2
<1>5. ASSUME NEW i \in 1..n
      PROVE  f[i] = Ascending(S)[i]
  <2>1. f[i] \in S /\ Ascending(S)[i] \in S
    BY <1>3, <1>4
  <2>2. Rank(S, f[i]) = i /\ Rank(S, Ascending(S)[i]) = i
    BY <1>1, <1>3, <1>4
  <2>3. QED
    BY <2>1, <2>2, <1>2
<1>6. QED
  BY <1>3, <1>4, <1>5 DEF c

LEMMA LeastIsMin ==
  ASSUME NEW T \in SUBSET Nat, T # {}
  PROVE  Min(T) \in T /\ \A y \in T : Min(T) <= y
  BY LeastNumber DEF Min

\* The places of a list, in ascending order, pick its elements.
LEMMA OnlyPicks ==
  ASSUME NEW T, NEW list \in Seq(T), NEW places \in SUBSET DOMAIN list
  PROVE  /\ Only(list, places) \in Seq(T)
         /\ Ascending(places) \in [DOMAIN Only(list, places) -> places]
         /\ DOMAIN Only(list, places) = 1..Cardinality(places)
         /\ \A i, j \in DOMAIN Only(list, places) :
              i < j => Ascending(places)[i] < Ascending(places)[j]
         /\ \A x \in places : \E n \in DOMAIN Only(list, places) : Ascending(places)[n] = x
         /\ \A n \in DOMAIN Only(list, places) :
              Only(list, places)[n] = list[Ascending(places)[n]]
<1>1. IsFiniteSet(places) /\ places \in SUBSET Int
  <2>1. DOMAIN list = 1..Len(list) /\ Len(list) \in Nat
    OBVIOUS
  <2>2. IsFiniteSet(1..Len(list))
    BY <2>1, FS_Interval
  <2>3. QED
    BY <2>1, <2>2, FS_Subset
<1> DEFINE c == Cardinality(places)
           order == Ascending(places)
<1>2. /\ c \in Nat
      /\ order \in [1..c -> places]
      /\ \A i, j \in 1..c : i < j => order[i] < order[j]
      /\ \A x \in places : \E n \in 1..c : order[n] = x
  BY <1>1, AscendingSet
<1>3. Only(list, places) = [n \in DOMAIN order |-> list[order[n]]]
  BY DEF Only
<1>4. \A x \in places : list[x] \in T
  OBVIOUS
<1> HIDE DEF c, order
<1>5. Only(list, places) = [n \in 1..c |-> list[order[n]]]
  BY <1>2, <1>3
<1>6. Only(list, places) \in Seq(T)
  BY <1>2, <1>4, <1>5
<1>7. DOMAIN Only(list, places) = 1..c
  BY <1>5
<1>8. QED
  BY <1>2, <1>5, <1>6, <1>7 DEF c, order

\* f lists the n places in order.
Enumerates(f, n, places) ==
  /\ f \in [1..n -> places]
  /\ \A i, j \in 1..n : i < j => f[i] < f[j]
  /\ \A x \in places : \E i \in 1..n : f[i] = x

\* What lists the same places in order picks the same elements.
LEMMA OnlyIs ==
  ASSUME NEW T, NEW list \in Seq(T), NEW places \in SUBSET DOMAIN list,
         NEW n \in Nat, NEW f, Enumerates(f, n, places)
  PROVE  /\ DOMAIN Only(list, places) = 1..n
         /\ \A i \in 1..n : Only(list, places)[i] = list[f[i]]
<1>0. /\ f \in [1..n -> places]
      /\ \A i, j \in 1..n : i < j => f[i] < f[j]
      /\ \A x \in places : \E i \in 1..n : f[i] = x
  BY DEF Enumerates
<1>1. IsFiniteSet(places) /\ places \in SUBSET Int
  <2>1. DOMAIN list = 1..Len(list) /\ Len(list) \in Nat
    OBVIOUS
  <2>2. IsFiniteSet(1..Len(list))
    BY <2>1, FS_Interval
  <2>3. QED
    BY <2>1, <2>2, FS_Subset
<1>2. f = Ascending(places)
  BY ONLY <1>0, <1>1, AscendingIsOnly
<1>3. QED
  BY <1>0, <1>2 DEF Only

LEMMA OnlyAll ==
  ASSUME NEW T, NEW list \in Seq(T)
  PROVE  Only(list, DOMAIN list) = list
<1> DEFINE f == [i \in 1..Len(list) |-> i]
<1>1. /\ f \in [1..Len(list) -> DOMAIN list] /\ Len(list) \in Nat
      /\ \A i, j \in 1..Len(list) : i < j => f[i] < f[j]
      /\ \A x \in DOMAIN list : \E i \in 1..Len(list) : f[i] = x
  OBVIOUS
<1>2. \A i \in 1..Len(list) : f[i] = i
  OBVIOUS
<1> HIDE DEF f
<1>3. PICK n \in Nat : n = Len(list)
  BY <1>1
<1>4. /\ DOMAIN Only(list, DOMAIN list) = 1..n
      /\ \A i \in 1..n : Only(list, DOMAIN list)[i] = list[f[i]]
  <2>1. Enumerates(f, n, DOMAIN list)
    BY <1>1, <1>3 DEF Enumerates
  <2>2. DOMAIN list \in SUBSET DOMAIN list
    OBVIOUS
  <2>3. QED
    BY <2>1, <2>2, OnlyIs
<1>5. Only(list, DOMAIN list) \in Seq(T)
  BY OnlyPicks
<1>6. QED
  BY <1>2, <1>3, <1>4, <1>5

-----------------------------------------------------------------------------
(* Places, removals and insertions. *)

\* The first place of an element, 0 when it has none.
LEMMA FirstPlace ==
  ASSUME NEW T, NEW seq \in Seq(T), NEW e
  PROVE  LET place == PlaceOf(seq, e)
         IN /\ e \notin ToSet(seq) => place = 0
            /\ e \in ToSet(seq) => /\ place \in DOMAIN seq
                                   /\ seq[place] = e
                                   /\ \A i \in 1..(place - 1) : seq[i] # e
<1> DEFINE I == {i \in 1..Len(seq) : seq[i] = e}
<1>1. I \in SUBSET Nat /\ DOMAIN seq = 1..Len(seq) /\ Len(seq) \in Nat
  OBVIOUS
<1>2. PlaceOf(seq, e) = IF I # {} THEN Min(I) ELSE 0
  BY DEF PlaceOf, SelectInSeq
<1>3. e \in ToSet(seq) <=> I # {}
  BY <1>1 DEF ToSet
<1>4. I # {} => Min(I) \in I /\ \A y \in I : Min(I) <= y
  BY <1>1, LeastIsMin
<1>5. I # {} => \A i \in 1..(Min(I) - 1) : i \notin I /\ i \in 1..Len(seq)
  <2>1. SUFFICES ASSUME I # {}, NEW i \in 1..(Min(I) - 1) PROVE i \notin I /\ i \in 1..Len(seq)
    OBVIOUS
  <2>2. Min(I) \in Nat /\ Min(I) <= Len(seq) /\ \A y \in I : Min(I) <= y
    BY <1>1, <1>4, <2>1
  <2>3. QED
    BY <2>1, <2>2, <1>1
<1>6. QED
  BY <1>1, <1>2, <1>3, <1>4, <1>5

LEMMA PositionIs ==
  ASSUME NEW list, NEW n \in Nat, DOMAIN list = 1..n, NEW id
  PROVE  /\ PositionOf(list, id) \in 0..n
         /\ id \notin IdsOf(list) => PositionOf(list, id) = 0
         /\ id \in IdsOf(list) => /\ PositionOf(list, id) \in DOMAIN list
                                  /\ list[PositionOf(list, id)].id = id
                                  /\ \A i \in 1..(PositionOf(list, id) - 1) : list[i].id # id
<1> DEFINE I == {i \in 1..Len(list) : list[i].id = id}
<1>1. I \in SUBSET Nat /\ DOMAIN list = 1..Len(list) /\ Len(list) = n
  OBVIOUS
<1>2. PositionOf(list, id) = IF I # {} THEN Min(I) ELSE 0
  BY DEF PositionOf, SelectInSeq
<1>3. id \in IdsOf(list) <=> I # {}
  BY <1>1 DEF IdsOf
<1>4. I # {} => Min(I) \in I /\ \A y \in I : Min(I) <= y
  BY <1>1, LeastIsMin
<1>5. I # {} => \A i \in 1..(Min(I) - 1) : i \notin I /\ i \in 1..Len(list)
  <2>1. SUFFICES ASSUME I # {}, NEW i \in 1..(Min(I) - 1) PROVE i \notin I /\ i \in 1..Len(list)
    OBVIOUS
  <2>2. Min(I) \in Nat /\ Min(I) <= Len(list) /\ \A y \in I : Min(I) <= y
    BY <1>1, <1>4, <2>1
  <2>3. QED
    BY <2>1, <2>2, <1>1
<1>6. QED
  BY <1>1, <1>2, <1>3, <1>4, <1>5

LEMMA RemoveAtIs ==
  ASSUME NEW T, NEW list \in Seq(T), NEW at \in 1..Len(list)
  PROVE  /\ RemoveAt(list, at) \in Seq(T)
         /\ Len(RemoveAt(list, at)) = Len(list) - 1
         /\ \A k \in 1..(Len(list) - 1) :
              RemoveAt(list, at)[k] = IF k < at THEN list[k] ELSE list[k + 1]
<1> DEFINE a == SubSeq(list, 1, at - 1)
           b == SubSeq(list, at + 1, Len(list))
<1>1. a \in Seq(T) /\ Len(a) = at - 1 /\ \A k \in 1..(at - 1) : a[k] = list[k]
  BY SubSeqProperties
<1>2. /\ b \in Seq(T) /\ Len(b) = Len(list) - at
      /\ \A k \in 1..(Len(list) - at) : b[k] = list[at + k]
  BY SubSeqProperties
<1> HIDE DEF a, b
<1>3. /\ a \o b \in Seq(T) /\ Len(a \o b) = Len(a) + Len(b)
      /\ \A k \in 1..(Len(a) + Len(b)) :
           (a \o b)[k] = IF k <= Len(a) THEN a[k] ELSE b[k - Len(a)]
  BY <1>1, <1>2, ConcatProperties
<1>4. RemoveAt(list, at) = a \o b
  BY DEF RemoveAt, a, b
<1>5. ASSUME NEW k \in 1..(Len(list) - 1)
      PROVE  (a \o b)[k] = IF k < at THEN list[k] ELSE list[k + 1]
  <2>1. k <= at - 1 => a[k] = list[k]
    BY <1>1
  <2>2. ~(k <= at - 1) => b[k - (at - 1)] = list[at + (k - (at - 1))]
    BY <1>2
  <2>3. at + (k - (at - 1)) = k + 1
    OBVIOUS
  <2>4. QED
    BY <1>1, <1>2, <1>3, <2>1, <2>2, <2>3
<1>6. QED
  BY <1>1, <1>2, <1>3, <1>4, <1>5

LEMMA InsertAtIs ==
  ASSUME NEW T, NEW list \in Seq(T), NEW at \in 1..(Len(list) + 1), NEW e \in T
  PROVE  /\ InsertAt(list, at, e) \in Seq(T)
         /\ Len(InsertAt(list, at, e)) = Len(list) + 1
         /\ \A k \in 1..(Len(list) + 1) :
              InsertAt(list, at, e)[k] = IF k < at THEN list[k]
                                         ELSE IF k = at THEN e ELSE list[k - 1]
<1> DEFINE a == SubSeq(list, 1, at - 1)
           b == SubSeq(list, at, Len(list))
           ae == a \o <<e>>
<1>1. a \in Seq(T) /\ Len(a) = at - 1 /\ \A k \in 1..(at - 1) : a[k] = list[k]
  BY SubSeqProperties
<1>2. /\ b \in Seq(T) /\ Len(b) = Len(list) - at + 1
      /\ \A k \in 1..(Len(list) - at + 1) : b[k] = list[at + k - 1]
  BY SubSeqProperties
<1> HIDE DEF a, b
<1>3. /\ ae \in Seq(T) /\ Len(ae) = at
      /\ \A k \in 1..at : ae[k] = IF k < at THEN list[k] ELSE e
  <2>1. <<e>> \in Seq(T) /\ Len(<<e>>) = 1 /\ <<e>>[1] = e
    OBVIOUS
  <2>2. /\ ae \in Seq(T) /\ Len(ae) = at - 1 + 1
        /\ \A k \in 1..(at - 1 + 1) : ae[k] = IF k <= at - 1 THEN a[k] ELSE <<e>>[k - (at - 1)]
    BY <1>1, <2>1, ConcatProperties
  <2> HIDE DEF ae
  <2>3. QED
    BY <1>1, <2>1, <2>2
<1> HIDE DEF ae
<1>4. /\ ae \o b \in Seq(T) /\ Len(ae \o b) = Len(ae) + Len(b)
      /\ \A k \in 1..(Len(ae) + Len(b)) :
           (ae \o b)[k] = IF k <= Len(ae) THEN ae[k] ELSE b[k - Len(ae)]
  BY <1>2, <1>3, ConcatProperties
<1>5. InsertAt(list, at, e) = ae \o b
  BY DEF InsertAt, a, b, ae
<1>6. ASSUME NEW k \in 1..(Len(list) + 1)
      PROVE  (ae \o b)[k] = IF k < at THEN list[k] ELSE IF k = at THEN e ELSE list[k - 1]
  <2>1. k <= at => ae[k] = IF k < at THEN list[k] ELSE e
    BY <1>3
  <2>2. ~(k <= at) => b[k - at] = list[at + (k - at) - 1]
    BY <1>2
  <2>3. at + (k - at) - 1 = k - 1
    OBVIOUS
  <2>4. QED
    BY <1>2, <1>3, <1>4, <2>1, <2>2, <2>3
<1>7. QED
  BY <1>2, <1>3, <1>4, <1>5, <1>6

-----------------------------------------------------------------------------
(* Lists rearranged. *)

\* The modules of one list are modules of another, each at most once; their
\* widths may differ.
Picks(p, new, list) ==
  /\ p \in [DOMAIN new -> DOMAIN list]
  /\ IsInjective(p)
  /\ \A k \in DOMAIN new : new[k].id = list[p[k]].id

LEMMA PickedIds ==
  ASSUME NEW new, NEW list, NEW p, Picks(p, new, list)
  PROVE  /\ IdsOf(new) \subseteq IdsOf(list)
         /\ IsInjective(OrderOf(list)) => IsInjective(OrderOf(new))
         /\ (\A i \in DOMAIN list : \E k \in DOMAIN new : p[k] = i) => IdsOf(new) = IdsOf(list)
<1>1. /\ \A k \in DOMAIN new : p[k] \in DOMAIN list /\ new[k].id = list[p[k]].id
      /\ \A j, k \in DOMAIN new : p[j] = p[k] => j = k
  BY DEF Picks, IsInjective
<1>2. IdsOf(new) \subseteq IdsOf(list)
  BY <1>1 DEF IdsOf
<1>3. IsInjective(OrderOf(list)) => IsInjective(OrderOf(new))
  BY <1>1 DEF IsInjective, OrderOf
<1>4. (\A i \in DOMAIN list : \E k \in DOMAIN new : p[k] = i) => IdsOf(list) \subseteq IdsOf(new)
  BY <1>1 DEF IdsOf
<1>5. QED
  BY <1>2, <1>3, <1>4

\* Lists with one order have the same ids.
LEMMA SameOrder ==
  ASSUME NEW new, NEW list, DOMAIN new = DOMAIN list, \A k \in DOMAIN list : new[k].id = list[k].id
  PROVE  /\ OrderOf(new) = OrderOf(list)
         /\ IdsOf(new) = IdsOf(list)
  BY DEF OrderOf, IdsOf

\* Where the modules of a list of n come from when the one at "from" is moved to
\* "at".
Shifted(n, from, at) ==
  [k \in 1..n |-> IF k = at THEN from
                  ELSE IF k < at THEN (IF k < from THEN k ELSE k + 1)
                  ELSE (IF k - 1 < from THEN k - 1 ELSE k)]

LEMMA ShiftedIs ==
  ASSUME NEW n \in Nat, NEW from \in 1..n, NEW at \in 1..n
  PROVE  /\ Shifted(n, from, at) \in [1..n -> 1..n]
         /\ IsInjective(Shifted(n, from, at))
         /\ \A i \in 1..n : \E k \in 1..n : Shifted(n, from, at)[k] = i
<1> DEFINE p == Shifted(n, from, at)
<1>1. DOMAIN p = 1..n /\ \A k \in 1..n :
        p[k] = IF k = at THEN from
               ELSE IF k < at THEN (IF k < from THEN k ELSE k + 1)
               ELSE (IF k - 1 < from THEN k - 1 ELSE k)
  BY DEF Shifted
<1>2. p \in [1..n -> 1..n]
  <2>1. \A k \in 1..n : p[k] \in 1..n
    BY <1>1
  <2>2. QED
    BY <2>1 DEF Shifted
<1> HIDE DEF p
<1>3. IsInjective(p)
  <2>1. \A j, k \in 1..n : j < k => p[j] # p[k]
    BY <1>1
  <2>2. \A j, k \in 1..n : p[j] = p[k] => j = k
    BY <2>1
  <2>3. QED
    BY <1>1, <2>2 DEF IsInjective
<1>4. ASSUME NEW i \in 1..n
      PROVE  \E k \in 1..n : p[k] = i
  <2>1. CASE i = from
    BY <1>1, <2>1
  <2>2. CASE i < from /\ i < at
    <3>1. p[i] = i
      BY <1>1, <2>2
    <3>2. QED
      BY <3>1
  <2>3. CASE i < from /\ ~(i < at)
    <3>1. i + 1 \in 1..n /\ p[i + 1] = i
      BY <1>1, <2>3
    <3>2. QED
      BY <3>1
  <2>4. CASE i > from /\ i <= at
    <3>1. i - 1 \in 1..n /\ p[i - 1] = i
      BY <1>1, <2>4
    <3>2. QED
      BY <3>1
  <2>5. CASE i > from /\ ~(i <= at)
    <3>1. p[i] = i
      BY <1>1, <2>5
    <3>2. QED
      BY <3>1
  <2>6. QED
    BY <2>1, <2>2, <2>3, <2>4, <2>5
<1>5. QED
  BY <1>2, <1>3, <1>4 DEF p

LEMMA MovedIs ==
  ASSUME NEW T, NEW list \in Seq(T), NEW from \in 1..Len(list), NEW at \in 1..Len(list)
  PROVE  LET new == InsertAt(RemoveAt(list, from), at, list[from])
         IN /\ new \in Seq(T)
            /\ Len(new) = Len(list)
            /\ \A k \in 1..Len(list) : new[k] = list[Shifted(Len(list), from, at)[k]]
<1> DEFINE n == Len(list)
           rest == RemoveAt(list, from)
           new == InsertAt(rest, at, list[from])
<1>1. n \in Nat /\ list[from] \in T
  OBVIOUS
<1>2. /\ rest \in Seq(T) /\ Len(rest) = n - 1
      /\ \A k \in 1..(n - 1) : rest[k] = IF k < from THEN list[k] ELSE list[k + 1]
  BY RemoveAtIs
<1> HIDE DEF rest
<1>3. /\ new \in Seq(T) /\ Len(new) = Len(rest) + 1
      /\ \A k \in 1..(Len(rest) + 1) :
           new[k] = IF k < at THEN rest[k] ELSE IF k = at THEN list[from] ELSE rest[k - 1]
  <2>1. at \in 1..(Len(rest) + 1)
    BY <1>1, <1>2
  <2>2. rest \in Seq(T) /\ list[from] \in T
    BY <1>1, <1>2
  <2>3. PICK e \in T : e = list[from]
    BY <2>2
  <2>4. new = InsertAt(rest, at, e)
    BY <2>3
  <2> HIDE DEF new
  <2>5. /\ InsertAt(rest, at, e) \in Seq(T)
        /\ Len(InsertAt(rest, at, e)) = Len(rest) + 1
        /\ \A k \in 1..(Len(rest) + 1) :
             InsertAt(rest, at, e)[k] = IF k < at THEN rest[k]
                                        ELSE IF k = at THEN e ELSE rest[k - 1]
    BY <2>1, <2>2, InsertAtIs
  <2>6. QED
    BY <2>3, <2>4, <2>5
<1> HIDE DEF new
<1>4. ASSUME NEW k \in 1..n
      PROVE  new[k] = list[Shifted(n, from, at)[k]]
  <2>1. new[k] = IF k < at THEN rest[k] ELSE IF k = at THEN list[from] ELSE rest[k - 1]
    BY <1>1, <1>2, <1>3
  <2>2. k < at => rest[k] = IF k < from THEN list[k] ELSE list[k + 1]
    BY <1>1, <1>2
  <2>3. k > at => rest[k - 1] = IF k - 1 < from THEN list[k - 1] ELSE list[k]
    <3>1. k > at => k - 1 \in 1..(n - 1) /\ (k - 1) + 1 = k
      BY <1>1
    <3>2. QED
      BY <1>2, <3>1
  <2>4. Shifted(n, from, at)[k] =
          IF k = at THEN from
          ELSE IF k < at THEN (IF k < from THEN k ELSE k + 1)
          ELSE (IF k - 1 < from THEN k - 1 ELSE k)
    BY DEF Shifted
  <2>5. k < at \/ k = at \/ k > at
    BY <1>1
  <2> HIDE DEF n
  <2>6. QED
    BY <1>1, <2>1, <2>2, <2>3, <2>4, <2>5
<1>5. QED
  BY <1>1, <1>2, <1>3, <1>4 DEF new, rest

\* The list with the module moved, as moveModule and the drop at the end make it.
LEMMA PushedIs ==
  ASSUME NEW T, NEW list \in Seq(T), NEW source
  PROVE  LET from == PositionOf(list, source)
             new == PushToEnd(list, source)
         IN /\ new \in Seq(T)
            /\ Len(new) = Len(list)
            /\ from = 0 => new = list
            /\ from # 0 => /\ from \in 1..Len(list)
                           /\ \A k \in 1..Len(list) :
                                new[k] = list[Shifted(Len(list), from, Len(list))[k]]
<1> DEFINE n == Len(list)
           from == PositionOf(list, source)
           new == PushToEnd(list, source)
<1>1. n \in Nat /\ DOMAIN list = 1..n
  OBVIOUS
<1>2. from \in 0..n
  BY <1>1, PositionIs
<1>3. CASE from = 0
  BY <1>3 DEF PushToEnd
<1>4. CASE from # 0
  <2>1. from \in 1..n /\ list[from] \in T
    BY <1>2, <1>4, <1>1
  <2> DEFINE rest == RemoveAt(list, from)
  <2>2. new = Append(rest, list[from])
    BY <1>4 DEF PushToEnd
  <2>3. /\ rest \in Seq(T) /\ Len(rest) = n - 1
        /\ \A k \in 1..(n - 1) : rest[k] = IF k < from THEN list[k] ELSE list[k + 1]
    BY <2>1, RemoveAtIs
  <2> HIDE DEF rest, new, from, n
  <2>4. /\ new \in Seq(T) /\ Len(new) = Len(rest) + 1
        /\ \A k \in 1..Len(rest) : new[k] = rest[k]
        /\ new[Len(rest) + 1] = list[from]
    BY <2>1, <2>2, <2>3, AppendProperties
  <2>5. ASSUME NEW k \in 1..n
        PROVE  new[k] = list[Shifted(n, from, n)[k]]
    <3>1. Shifted(n, from, n)[k] = IF k = n THEN from ELSE IF k < from THEN k ELSE k + 1
      BY <1>1, <2>1 DEF Shifted
    <3>2. k # n => k \in 1..(n - 1)
      BY <1>1
    <3>3. QED
      BY <1>1, <2>3, <2>4, <3>1, <3>2
  <2>6. QED
    BY <1>1, <1>4, <2>1, <2>3, <2>4, <2>5 DEF new, from, n
<1>5. QED
  BY <1>3, <1>4

LEMMA ModuleMoved ==
  ASSUME NEW T, NEW list \in Seq(T), NEW source, NEW target, NEW placement,
         IsInjective(OrderOf(list))
  PROVE  LET from == PositionOf(list, source)
             to == PositionOf(list, target)
             at == InsertionPlace(from, to, placement)
             new == MoveModule(list, source, target, placement)
         IN /\ new \in Seq(T)
            /\ Len(new) = Len(list)
            /\ source = target \/ from = 0 \/ to = 0 => new = list
            /\ source # target /\ from # 0 /\ to # 0 =>
                 /\ from \in 1..Len(list) /\ to \in 1..Len(list) /\ at \in 1..Len(list)
                 /\ from # to
                 /\ \A k \in 1..Len(list) : new[k] = list[Shifted(Len(list), from, at)[k]]
<1> DEFINE n == Len(list)
           from == PositionOf(list, source)
           to == PositionOf(list, target)
           at == InsertionPlace(from, to, placement)
           new == MoveModule(list, source, target, placement)
<1>1. n \in Nat /\ DOMAIN list = 1..n
  OBVIOUS
<1>2. /\ from \in 0..n /\ to \in 0..n
      /\ from # 0 => list[from].id = source
      /\ to # 0 => list[to].id = target
  BY <1>1, PositionIs
<1>3. CASE source = target \/ from = 0 \/ to = 0
  BY <1>3 DEF MoveModule
<1>4. CASE ~(source = target \/ from = 0 \/ to = 0)
  <2>1. new = InsertAt(RemoveAt(list, from), at, list[from])
    BY <1>4 DEF MoveModule
  <2> HIDE DEF from, to, n
  <2>2. from \in 1..n /\ to \in 1..n /\ from # to
    BY <1>1, <1>2, <1>4
  <2>3. at \in 1..n
    BY <1>1, <2>2 DEF InsertionPlace
  <2> HIDE DEF at, new
  <2>4. new \in Seq(T) /\ Len(new) = n /\ \A k \in 1..n : new[k] = list[Shifted(n, from, at)[k]]
    BY <2>1, <2>2, <2>3, MovedIs DEF n
  <2>5. QED
    BY <1>4, <2>2, <2>3, <2>4 DEF from, to, n, at, new
<1>5. QED
  BY <1>3, <1>4

-----------------------------------------------------------------------------
(* Sums over a finite set. *)

\* Among the subsets of a finite set that have something to do with one
\* another, one has the fewest elements.
LEMMA LeastSubset ==
  ASSUME NEW S, IsFiniteSet(S), NEW B \in SUBSET (SUBSET S), B # {}
  PROVE  \E s \in B : \A t \in B : Cardinality(s) <= Cardinality(t)
<1> DEFINE sizes == {Cardinality(s) : s \in B}
<1>1. \A s \in B : IsFiniteSet(s) /\ Cardinality(s) \in Nat
  BY FS_Subset, FS_CardinalityType
<1>2. sizes \in SUBSET Nat /\ sizes # {}
  BY <1>1
<1>3. PICK n \in sizes : \A m \in sizes : n <= m
  BY <1>2, LeastNumber
<1>4. QED
  BY <1>3

\* A set without one of its elements is the smaller.
LEMMA Smaller ==
  ASSUME NEW S, IsFiniteSet(S), NEW s \in SUBSET S, NEW x \in s
  PROVE  /\ s \ {x} \in SUBSET S
         /\ IsFiniteSet(s \ {x}) /\ Cardinality(s \ {x}) \in Nat
         /\ Cardinality(s) = Cardinality(s \ {x}) + 1
         /\ Cardinality(s \ {x}) < Cardinality(s)
<1>1. IsFiniteSet(s) /\ IsFiniteSet(s \ {x})
  BY FS_Subset
<1> DEFINE a == Cardinality(s)
           b == Cardinality(s \ {x})
<1>2. a \in Nat /\ b \in Nat
  BY <1>1, FS_CardinalityType
<1>3. b = a - 1
  BY <1>1, FS_RemoveElement
<1> HIDE DEF a, b
<1>4. a = b + 1 /\ b < a
  BY <1>2, <1>3
<1>5. QED
  BY <1>1, <1>2, <1>4 DEF a, b

\* What the fold over S computes for s, from what it has for the smaller sets.
FoldStep(g, f, s) ==
  IF s = {} THEN 0 ELSE f[CHOOSE x \in s : TRUE] + g[s \ {CHOOSE x \in s : TRUE}]

IsFold(g, f, S) == g = [s \in SUBSET S |-> FoldStep(g, f, s)]

LEMMA SumIsFold ==
  ASSUME NEW f, NEW S
  PROVE  SumFunctionOnSet(f, S) = (CHOOSE g : IsFold(g, f, S))[S]
  BY DEF SumFunctionOnSet, FoldFunctionOnSet, MapThenFoldSet, IsFold, FoldStep

LEMMA FoldExists ==
  ASSUME NEW S, IsFiniteSet(S), NEW f
  PROVE  \E g : IsFold(g, f, S)
<1> DEFINE Upto(n) == {s \in SUBSET S : Cardinality(s) <= n}
           Defined(n) == \E g : g = [s \in Upto(n) |-> FoldStep(g, f, s)]
           B == {n \in Nat : ~Defined(n)}
<1>1. \A s \in SUBSET S : IsFiniteSet(s) /\ Cardinality(s) \in Nat
                          /\ (Cardinality(s) = 0 <=> s = {})
  BY FS_Subset, FS_CardinalityType, FS_EmptySet
<1>2. Defined(0)
  <2> DEFINE g == [s \in Upto(0) |-> 0]
  <2>1. \A s \in Upto(0) : s = {}
    BY <1>1
  <2>2. \A s \in Upto(0) : FoldStep(g, f, s) = 0
    BY <2>1 DEF FoldStep
  <2> HIDE DEF Upto
  <2>3. g = [s \in Upto(0) |-> FoldStep(g, f, s)]
    BY <2>2
  <2>4. QED
    BY <2>3
<1>3. ASSUME NEW m \in Nat, Defined(m)
      PROVE  Defined(m + 1)
  <2>1. PICK h : h = [s \in Upto(m) |-> FoldStep(h, f, s)]
    BY <1>3
  <2> DEFINE g == [s \in Upto(m + 1) |-> FoldStep(h, f, s)]
  <2>2. \A s \in Upto(m) : g[s] = h[s]
    <3>1. \A s \in Upto(m) : s \in Upto(m + 1)
      BY <1>1
    <3> HIDE DEF Upto
    <3>2. \A s \in Upto(m) : h[s] = FoldStep(h, f, s)
      BY <2>1
    <3>3. QED
      BY <3>1, <3>2
  <2>3. \A s \in Upto(m + 1) : FoldStep(g, f, s) = FoldStep(h, f, s)
    <3>1. SUFFICES ASSUME NEW s \in Upto(m + 1), s # {}
                   PROVE  FoldStep(g, f, s) = FoldStep(h, f, s)
      BY DEF FoldStep
    <3>2. PICK x : x = CHOOSE y \in s : TRUE
      OBVIOUS
    <3>3. x \in s
      BY <3>1, <3>2
    <3>4. s \in SUBSET S
      OBVIOUS
    <3>5. s \ {x} \in SUBSET S /\ Cardinality(s) = Cardinality(s \ {x}) + 1
      BY <3>3, <3>4, Smaller
    <3>6. Cardinality(s \ {x}) \in Nat /\ Cardinality(s) <= m + 1
      BY <1>1, <3>5
    <3>7. s \ {x} \in Upto(m)
      <4> DEFINE b == Cardinality(s \ {x})
      <4>1. b \in Nat /\ b + 1 <= m + 1
        BY <3>5, <3>6
      <4> HIDE DEF b
      <4>2. b <= m
        BY <4>1
      <4>3. QED
        BY <4>2, <3>5 DEF b
    <3> HIDE DEF g, Upto
    <3>8. g[s \ {x}] = h[s \ {x}]
      BY <2>2, <3>7
    <3>9. QED
      BY <3>1, <3>2, <3>8 DEF FoldStep
  <2>4. g = [s \in Upto(m + 1) |-> FoldStep(g, f, s)]
    <3> HIDE DEF Upto
    <3>1. QED
      BY <2>3
  <2>5. QED
    BY <2>4
<1> HIDE DEF Defined
<1>4. B = {}
  <2>1. SUFFICES ASSUME B # {} PROVE FALSE
    OBVIOUS
  <2>2. PICK n \in B : \A k \in B : n <= k
    <3>1. B \in SUBSET Nat
      OBVIOUS
    <3>2. QED
      BY <2>1, <3>1, LeastNumber
  <2>3. n # 0 /\ n \in Nat /\ ~Defined(n)
    BY <1>2
  <2>4. n - 1 \in Nat /\ ~(n <= n - 1) /\ n = (n - 1) + 1
    BY <2>3
  <2>5. n - 1 \notin B
    BY <2>2, <2>4
  <2>6. Defined(n - 1)
    BY <2>4, <2>5
  <2>7. Defined((n - 1) + 1)
    BY <1>3, <2>4, <2>6
  <2>8. QED
    BY <2>3, <2>4, <2>7
<1>5. Cardinality(S) \in Nat
  BY FS_CardinalityType
<1>6. Defined(Cardinality(S))
  BY <1>4, <1>5
<1>7. Upto(Cardinality(S)) = SUBSET S
  BY FS_Subset
<1>8. PICK g : g = [s \in Upto(Cardinality(S)) |-> FoldStep(g, f, s)]
  BY <1>6 DEF Defined
<1> HIDE DEF Upto
<1>9. QED
  BY <1>7, <1>8 DEF IsFold

\* Two folds agree where both are defined.
LEMMA FoldsAgree ==
  ASSUME NEW S, IsFiniteSet(S), NEW g, NEW h, NEW f, NEW T \in SUBSET S,
         IsFold(g, f, S), IsFold(h, f, T)
  PROVE  \A s \in SUBSET T : g[s] = h[s]
<1> DEFINE B == {s \in SUBSET T : g[s] # h[s]}
<1>1. SUFFICES ASSUME B # {} PROVE FALSE
  OBVIOUS
<1>2. IsFiniteSet(T)
  BY FS_Subset
<1>3. PICK s \in B : \A t \in B : Cardinality(s) <= Cardinality(t)
  <2>1. B \in SUBSET (SUBSET T)
    OBVIOUS
  <2>2. QED
    BY <1>1, <1>2, <2>1, LeastSubset
<1>4. /\ s \in SUBSET T /\ s \in SUBSET S
      /\ g[s] = FoldStep(g, f, s) /\ h[s] = FoldStep(h, f, s)
      /\ g[s] # h[s]
  BY DEF IsFold
<1>5. s # {}
  BY <1>4 DEF FoldStep
<1>6. PICK x : x = CHOOSE y \in s : TRUE
  OBVIOUS
<1>7. x \in s
  BY <1>5, <1>6
<1>8. s \ {x} \in SUBSET T /\ Cardinality(s \ {x}) < Cardinality(s) /\ Cardinality(s \ {x}) \in Nat
      /\ Cardinality(s) \in Nat
  BY <1>2, <1>4, <1>7, Smaller, FS_Subset, FS_CardinalityType
<1>9. ~(Cardinality(s) <= Cardinality(s \ {x}))
  <2> DEFINE a == Cardinality(s)
             b == Cardinality(s \ {x})
  <2>1. b < a /\ a \in Nat /\ b \in Nat
    BY <1>8
  <2> HIDE DEF a, b
  <2>2. ~(a <= b)
    BY <2>1
  <2>3. QED
    BY <2>2 DEF a, b
<1>10. s \ {x} \notin B
  BY <1>3, <1>9
<1>11. g[s \ {x}] = h[s \ {x}]
  BY <1>8, <1>10
<1>12. QED
  BY <1>4, <1>5, <1>6, <1>11 DEF FoldStep

\* A fold adds the elements in whatever order.
LEMMA FoldAdds ==
  ASSUME NEW S, IsFiniteSet(S), NEW g, NEW f, IsFold(g, f, S), \A x \in S : f[x] \in Int
  PROVE  \A s \in SUBSET S : g[s] \in Int /\ \A x \in s : g[s] = f[x] + g[s \ {x}]
<1> DEFINE Good(s) == g[s] \in Int /\ \A x \in s : g[s] = f[x] + g[s \ {x}]
           B == {s \in SUBSET S : ~Good(s)}
<1>1. SUFFICES ASSUME B # {} PROVE FALSE
  OBVIOUS
<1>2. PICK s \in B : \A t \in B : Cardinality(s) <= Cardinality(t)
  <2>1. B \in SUBSET (SUBSET S)
    OBVIOUS
  <2>2. QED
    BY <1>1, <2>1, LeastSubset
<1>3. s \in SUBSET S /\ ~Good(s)
  OBVIOUS
<1>4. \A t \in SUBSET S : g[t] = FoldStep(g, f, t)
  BY DEF IsFold
<1> HIDE DEF Good
<1>5. \A t \in SUBSET S : \A x \in t : t \subseteq s => t \ {x} \in SUBSET S /\ Good(t \ {x})
  <2>1. SUFFICES ASSUME NEW t \in SUBSET S, NEW x \in t, t \subseteq s
                 PROVE  t \ {x} \in SUBSET S /\ Good(t \ {x})
    OBVIOUS
  <2>2. t \ {x} \in SUBSET S /\ IsFiniteSet(t \ {x}) /\ x \in s /\ t \ {x} \in SUBSET (s \ {x})
    BY <2>1, Smaller
  <2>3. IsFiniteSet(s \ {x}) /\ Cardinality(s \ {x}) \in Nat
        /\ Cardinality(s \ {x}) < Cardinality(s) /\ Cardinality(s) \in Nat
    BY <1>3, <2>2, Smaller, FS_Subset, FS_CardinalityType
  <2>4. Cardinality(t \ {x}) \in Nat /\ Cardinality(t \ {x}) <= Cardinality(s \ {x})
    BY <2>2, <2>3, FS_Subset, FS_CardinalityType
  <2>5. ~(Cardinality(s) <= Cardinality(t \ {x}))
    <3> DEFINE a == Cardinality(s)
               b == Cardinality(s \ {x})
               c == Cardinality(t \ {x})
    <3>1. a \in Nat /\ b \in Nat /\ c \in Nat /\ b < a /\ c <= b
      BY <2>3, <2>4
    <3> HIDE DEF a, b, c
    <3>2. ~(a <= c)
      BY <3>1
    <3>3. QED
      BY <3>2 DEF a, c
  <2>6. t \ {x} \notin B
    BY <1>2, <2>5
  <2>7. QED
    BY <2>2, <2>6
<1>6. CASE s = {}
  <2>1. g[s] = 0
    BY <1>3, <1>4, <1>6 DEF FoldStep
  <2>2. QED
    BY <1>3, <1>6, <2>1 DEF Good
<1>7. CASE s # {}
  <2>1. PICK c \in s : c = CHOOSE y \in s : TRUE
    BY <1>7
  <2>2. g[s] = f[c] + g[s \ {c}]
    BY <1>3, <1>4, <1>7, <2>1 DEF FoldStep
  <2>3. Good(s \ {c}) /\ f[c] \in Int
    BY <1>3, <1>5
  <2>4. g[s] \in Int
    BY <2>2, <2>3 DEF Good
  <2>5. ASSUME NEW x \in s
        PROVE  g[s] = f[x] + g[s \ {x}]
    <3>1. CASE x = c
      BY <2>2, <3>1
    <3>2. CASE x # c
      <4>1. x \in s \ {c} /\ c \in s \ {x} /\ (s \ {c}) \ {x} = (s \ {x}) \ {c}
        BY <3>2
      <4>2. /\ s \ {c} \in SUBSET S /\ Good(s \ {c}) /\ s \ {x} \in SUBSET S /\ Good(s \ {x})
            /\ Good((s \ {c}) \ {x})
        BY <1>3, <1>5, <4>1
      <4>3. g[s \ {c}] = f[x] + g[(s \ {c}) \ {x}]
        BY <4>1, <4>2 DEF Good
      <4>4. g[s \ {x}] = f[c] + g[(s \ {c}) \ {x}]
        BY <4>1, <4>2 DEF Good
      <4>5. g[(s \ {c}) \ {x}] \in Int /\ f[c] \in Int /\ f[x] \in Int
        BY <1>3, <4>2 DEF Good
      <4>6. QED
        BY <2>2, <4>3, <4>4, <4>5
    <3>3. QED
      BY <3>1, <3>2
  <2>6. QED
    BY <1>3, <2>4, <2>5 DEF Good
<1>8. QED
  BY <1>6, <1>7

\* The sum of a finite set is any of its elements' value and the sum of the rest.
LEMMA SumAdds ==
  ASSUME NEW S, IsFiniteSet(S), NEW f, \A x \in S : f[x] \in Int
  PROVE  /\ SumFunctionOnSet(f, S) \in Int
         /\ S = {} => SumFunctionOnSet(f, S) = 0
         /\ \A x \in S : SumFunctionOnSet(f, S) = f[x] + SumFunctionOnSet(f, S \ {x})
<1>1. PICK g : g = CHOOSE h : IsFold(h, f, S)
  OBVIOUS
<1>2. IsFold(g, f, S) /\ SumFunctionOnSet(f, S) = g[S]
  BY <1>1, FoldExists, SumIsFold
<1>3. S \in SUBSET S
  OBVIOUS
<1>4. g[S] \in Int /\ \A x \in S : g[S] = f[x] + g[S \ {x}]
  <2>1. \A s \in SUBSET S : g[s] \in Int /\ \A x \in s : g[s] = f[x] + g[s \ {x}]
    <3>1. IsFold(g, f, S) /\ IsFiniteSet(S) /\ \A x \in S : f[x] \in Int
      BY <1>2
    <3>2. QED
      BY <3>1, FoldAdds
  <2>2. QED
    BY <1>3, <2>1, Zenon
<1>5. S = {} => g[S] = 0
  BY <1>2, <1>3 DEF IsFold, FoldStep
<1>6. ASSUME NEW x \in S
      PROVE  g[S \ {x}] = SumFunctionOnSet(f, S \ {x})
  <2>1. PICK T : T = S \ {x}
    OBVIOUS
  <2>2. T \in SUBSET S /\ IsFiniteSet(T)
    BY <2>1, FS_Subset
  <2>3. PICK h : h = CHOOSE k : IsFold(k, f, T)
    OBVIOUS
  <2>4. IsFold(h, f, T) /\ SumFunctionOnSet(f, T) = h[T]
    BY <2>2, <2>3, FoldExists, SumIsFold
  <2>5. g[T] = h[T]
    BY <1>2, <2>2, <2>4, FoldsAgree
  <2>6. QED
    BY <2>1, <2>4, <2>5
<1>7. QED
  BY <1>2, <1>4, <1>5, <1>6

\* Equal values have equal sums, and lesser values no greater sum.
LEMMA SumCompares ==
  ASSUME NEW S, IsFiniteSet(S), NEW f, NEW g,
         \A x \in S : f[x] \in Int /\ g[x] \in Int /\ f[x] <= g[x]
  PROVE  SumFunctionOnSet(f, S) <= SumFunctionOnSet(g, S)
<1> DEFINE F(s) == SumFunctionOnSet(f, s)
           G(s) == SumFunctionOnSet(g, s)
           B == {s \in SUBSET S : ~(F(s) <= G(s))}
<1>1. SUFFICES ASSUME B # {} PROVE FALSE
  <2>1. S \in SUBSET S
    OBVIOUS
  <2>2. QED
    BY <2>1
<1>2. PICK s \in B : \A t \in B : Cardinality(s) <= Cardinality(t)
  <2>1. B \in SUBSET (SUBSET S)
    OBVIOUS
  <2>2. QED
    BY <1>1, <2>1, LeastSubset
<1>3. s \in SUBSET S /\ ~(F(s) <= G(s)) /\ IsFiniteSet(s)
      /\ \A x \in s : f[x] \in Int /\ g[x] \in Int /\ f[x] <= g[x]
  BY FS_Subset
<1> HIDE DEF F, G
<1>4. /\ F(s) \in Int /\ G(s) \in Int
      /\ s = {} => F(s) = 0 /\ G(s) = 0
      /\ \A x \in s : F(s) = f[x] + F(s \ {x}) /\ G(s) = g[x] + G(s \ {x})
  BY <1>3, SumAdds DEF F, G
<1>5. PICK x \in s : TRUE
  BY <1>3, <1>4
<1>6. PICK t : t = s \ {x}
  OBVIOUS
<1>7. t \in SUBSET S /\ IsFiniteSet(t) /\ Cardinality(t) < Cardinality(s)
      /\ Cardinality(t) \in Nat /\ Cardinality(s) \in Nat
  BY <1>3, <1>6, Smaller, FS_CardinalityType
<1>8. ~(Cardinality(s) <= Cardinality(t))
  <2> DEFINE a == Cardinality(s)
             b == Cardinality(t)
  <2>1. b < a /\ a \in Nat /\ b \in Nat
    BY <1>7
  <2> HIDE DEF a, b
  <2>2. ~(a <= b)
    BY <2>1
  <2>3. QED
    BY <2>2 DEF a, b
<1>9. F(t) <= G(t)
  BY <1>2, <1>7, <1>8
<1>10. \A y \in t : f[y] \in Int /\ g[y] \in Int
  BY <1>3, <1>6
<1>11. F(t) \in Int /\ G(t) \in Int
  BY <1>7, <1>10, SumAdds DEF F, G
<1>12. F(s) = f[x] + F(t) /\ G(s) = g[x] + G(t) /\ f[x] <= g[x] /\ f[x] \in Int /\ g[x] \in Int
  BY <1>3, <1>4, <1>6
<1>13. QED
  BY <1>3, <1>4, <1>9, <1>11, <1>12

LEMMA SumSame ==
  ASSUME NEW S, IsFiniteSet(S), NEW f, NEW g, \A x \in S : f[x] \in Int /\ f[x] = g[x]
  PROVE  SumFunctionOnSet(f, S) = SumFunctionOnSet(g, S)
<1>1. \A x \in S : f[x] \in Int /\ g[x] \in Int /\ f[x] <= g[x] /\ g[x] <= f[x]
  OBVIOUS
<1>2. SumFunctionOnSet(f, S) <= SumFunctionOnSet(g, S)
  BY <1>1, SumCompares
<1>3. SumFunctionOnSet(g, S) <= SumFunctionOnSet(f, S)
  BY <1>1, SumCompares
<1>4. SumFunctionOnSet(f, S) \in Int
  BY <1>1, SumAdds
<1>5. SumFunctionOnSet(g, S) \in Int
  BY <1>1, SumAdds
<1> DEFINE a == SumFunctionOnSet(f, S)
           b == SumFunctionOnSet(g, S)
<1> HIDE DEF a, b
<1>6. a \in Int /\ b \in Int /\ a <= b /\ b <= a
  BY <1>2, <1>3, <1>4, <1>5 DEF a, b
<1>7. a = b
  BY <1>6
<1>8. QED
  BY <1>7 DEF a, b

-----------------------------------------------------------------------------
(* Widths. *)

LEMMA ClampIs ==
  ASSUME NEW columns \in Int
  PROVE  Clamp(columns) \in Widths /\ (columns \in Widths => Clamp(columns) = columns)
  BY DEF Clamp, Widths, MinColumns, GridColumns

\* What distributeColumnsAcrossRow does with one column of excess.
NarrowStep(h, columns, n) ==
  IF n = 0 THEN columns
  ELSE IF Widest(h[n - 1]) = {} THEN h[n - 1]
       ELSE [h[n - 1] EXCEPT ![Min(Widest(h[n - 1]))] = @ - 1]

IsNarrowing(h, columns, e) == h = [n \in 0..e |-> NarrowStep(h, columns, n)]

LEMMA DistributeIs ==
  ASSUME NEW columns, NEW excess, excess = SumFunction(columns) - GridColumns
  PROVE  Distribute(columns) =
           IF excess > 0 THEN (CHOOSE h : IsNarrowing(h, columns, excess))[excess] ELSE columns
  BY DEF Distribute, IsNarrowing, NarrowStep

LEMMA NarrowingExists ==
  ASSUME NEW columns, NEW e \in Nat
  PROVE  \E h : IsNarrowing(h, columns, e)
<1> DEFINE Defined(n) == \E h : IsNarrowing(h, columns, n)
           B == {n \in Nat : ~Defined(n)}
<1>1. Defined(0)
  <2> DEFINE h == [n \in 0..0 |-> columns]
  <2>1. \A n \in 0..0 : NarrowStep(h, columns, n) = columns
    BY DEF NarrowStep
  <2>2. h = [n \in 0..0 |-> NarrowStep(h, columns, n)]
    BY <2>1
  <2> HIDE DEF h
  <2>3. QED
    BY <2>2 DEF IsNarrowing
<1>2. ASSUME NEW m \in Nat, Defined(m)
      PROVE  Defined(m + 1)
  <2>1. PICK h : IsNarrowing(h, columns, m)
    BY <1>2
  <2> DEFINE k == [n \in 0..(m + 1) |-> NarrowStep(h, columns, n)]
  <2>2. \A n \in 0..m : k[n] = h[n]
    BY <2>1 DEF IsNarrowing
  <2>3. \A n \in 0..(m + 1) : n = 0 \/ n - 1 \in 0..m
    OBVIOUS
  <2> HIDE DEF k
  <2>4. \A n \in 0..(m + 1) : NarrowStep(k, columns, n) = NarrowStep(h, columns, n)
    BY <2>2, <2>3 DEF NarrowStep
  <2>5. k = [n \in 0..(m + 1) |-> NarrowStep(k, columns, n)]
    BY <2>4 DEF k
  <2>6. QED
    BY <2>5 DEF IsNarrowing
<1> HIDE DEF Defined
<1>3. B = {}
  <2>1. SUFFICES ASSUME B # {} PROVE FALSE
    OBVIOUS
  <2>2. PICK n \in B : \A k \in B : n <= k
    <3>1. B \in SUBSET Nat
      OBVIOUS
    <3>2. QED
      BY <2>1, <3>1, LeastNumber
  <2>3. n # 0 /\ n \in Nat /\ ~Defined(n)
    BY <1>1
  <2>4. n - 1 \in Nat /\ ~(n <= n - 1) /\ n = (n - 1) + 1
    BY <2>3
  <2>5. n - 1 \notin B
    BY <2>2, <2>4
  <2>6. Defined((n - 1) + 1)
    BY <1>2, <2>4, <2>5
  <2>7. QED
    BY <2>3, <2>4, <2>6
<1>4. QED
  BY <1>3 DEF Defined

\* A row after n of its columns are taken.
Narrowed(now, was, n) ==
  /\ now \in [DOMAIN was -> Widths]
  /\ \A i \in DOMAIN was : now[i] <= was[i]
  /\ \A i \in DOMAIN was : now[i] < was[i] => \A j \in DOMAIN was : now[j] <= now[i] + 1
  /\ SumFunction(now) >= SumFunction(was) - n
  /\ \/ SumFunction(now) = SumFunction(was) - n
     \/ \A i \in DOMAIN was : now[i] = MinColumns

\* The sum of a row of widths.
LEMMA RowSum ==
  ASSUME NEW m \in Nat, NEW w \in [1..m -> Widths]
  PROVE  /\ SumFunction(w) \in Int
         /\ SumFunction(w) = SumFunctionOnSet(w, 1..m)
         /\ \A i \in 1..m : SumFunction(w) = w[i] + SumFunctionOnSet(w, (1..m) \ {i})
<1>1. IsFiniteSet(1..m) /\ \A i \in 1..m : w[i] \in Int
  <2>1. IsFiniteSet(1..m)
    BY FS_Interval
  <2>2. \A i \in 1..m : w[i] \in Int
    BY DEF Widths, MinColumns, GridColumns
  <2>3. QED
    BY <2>1, <2>2
<1>2. SumFunction(w) = SumFunctionOnSet(w, 1..m)
  BY DEF SumFunction
<1>3. QED
  BY <1>1, <1>2, SumAdds

\* A list of all elements of a set, each once, and what two functions make of it.
Lists(e, m, S, f, g) ==
  /\ e \in [1..m -> S] /\ IsInjective(e)
  /\ \A x \in S : \E k \in 1..m : e[k] = x
  /\ \A k \in 1..m : g[k] \in Int /\ f[e[k]] = g[k]

\* The sum over a set is that over the places of a list of its elements.
LEMMA SumReindexed ==
  ASSUME NEW m \in Nat, NEW S, NEW e, NEW f, NEW g, Lists(e, m, S, f, g)
  PROVE  SumFunctionOnSet(f, S) = SumFunctionOnSet(g, 1..m)
<1>0. /\ e \in [1..m -> S] /\ IsInjective(e)
      /\ \A x \in S : \E k \in 1..m : e[k] = x
      /\ \A k \in 1..m : g[k] \in Int /\ f[e[k]] = g[k]
  BY DEF Lists
<1> DEFINE Image(j) == {e[k] : k \in 1..j}
           F(j) == SumFunctionOnSet(f, Image(j))
           G(j) == SumFunctionOnSet(g, 1..j)
           B == {j \in 0..m : F(j) # G(j)}
<1>1. SUFFICES ASSUME B # {} PROVE FALSE
  <2>1. m \in 0..m /\ Image(m) = S
    BY <1>0
  <2>2. F(m) = G(m)
    BY <2>1
  <2>3. QED
    BY <2>1, <2>2
<1>2. PICK j \in B : \A i \in B : j <= i
  <2>1. B \in SUBSET Nat
    OBVIOUS
  <2>2. QED
    BY <1>1, <2>1, LeastNumber
<1>3. j \in 0..m /\ F(j) # G(j)
  OBVIOUS
<1>4. \A i \in 0..m : IsFiniteSet(1..i) /\ IsFiniteSet(Image(i))
  <2>1. ASSUME NEW i \in 0..m PROVE IsFiniteSet(1..i) /\ IsFiniteSet(Image(i))
    <3>1. IsFiniteSet(1..i)
      BY FS_Interval
    <3>2. [k \in 1..i |-> e[k]] \in Surjection(1..i, Image(i))
      BY <1>0 DEF Surjection
    <3>3. QED
      BY <3>1, <3>2, FS_Surjection
  <2>2. QED
    BY <2>1
<1>5. \A i \in 0..m : /\ \A k \in 1..i : g[k] \in Int
                      /\ \A x \in Image(i) : f[x] \in Int
  BY <1>0
<1>6. CASE j = 0
  <2>1. Image(j) = {} /\ 1..j = {}
    BY <1>6
  <2>2. F(j) = 0 /\ G(j) = 0
    BY <1>3, <1>4, <1>5, <2>1, SumAdds
  <2>3. QED
    BY <1>3, <2>2
<1>7. CASE j # 0
  <2>1. PICK i \in 0..m : i = j - 1
    BY <1>3, <1>7
  <2>2. i \notin B
    BY <1>2, <1>3, <2>1
  <2>3. F(i) = G(i)
    BY <2>2
  <2>4. /\ j \in 1..j /\ (1..j) \ {j} = 1..i
        /\ e[j] \in Image(j) /\ Image(j) \ {e[j]} = Image(i)
    <3>1. j \in 1..j /\ (1..j) \ {j} = 1..i /\ j \in 1..m
      BY <1>3, <1>7, <2>1
    <3>2. \A k \in 1..i : k \in 1..m /\ k # j
      BY <1>3, <2>1
    <3>3. \A k \in 1..i : e[k] # e[j]
      BY <1>0, <3>1, <3>2 DEF IsInjective
    <3>4. QED
      BY <3>1, <3>3
  <2>5. G(j) = g[j] + G(i)
    <3>1. SumFunctionOnSet(g, 1..j) = g[j] + SumFunctionOnSet(g, (1..j) \ {j})
      BY <1>3, <1>4, <1>5, <2>4, SumAdds
    <3>2. QED
      BY <2>4, <3>1
  <2>6. F(j) = f[e[j]] + F(i)
    <3>1. PICK T : T = Image(j)
      OBVIOUS
    <3>2. IsFiniteSet(T) /\ (\A x \in T : f[x] \in Int) /\ e[j] \in T /\ T \ {e[j]} = Image(i)
      BY <1>3, <1>4, <1>5, <2>4, <3>1
    <3> HIDE DEF Image
    <3>3. SumFunctionOnSet(f, T) = f[e[j]] + SumFunctionOnSet(f, T \ {e[j]})
      BY <3>2, SumAdds
    <3>4. QED
      BY <3>1, <3>2, <3>3
  <2>7. f[e[j]] = g[j]
    BY <1>0, <1>3, <1>7
  <2> HIDE DEF F, G
  <2>8. F(j) = G(j)
    BY <2>3, <2>5, <2>6, <2>7
  <2>9. QED
    BY <1>3, <2>8 DEF F, G
<1>8. QED
  BY <1>6, <1>7

\* The sum of a row of modules of the least width.
LEMMA SumOfLeast ==
  ASSUME NEW m \in Nat, NEW w, \A k \in 1..m : w[k] = MinColumns
  PROVE  SumFunctionOnSet(w, 1..m) = MinColumns * m
<1> DEFINE G(j) == SumFunctionOnSet(w, 1..j)
           B == {j \in 0..m : G(j) # 3 * j}
<1>1. SUFFICES ASSUME B # {} PROVE FALSE
  <2>1. m \in 0..m
    OBVIOUS
  <2>2. G(m) = 3 * m
    BY <2>1
  <2>3. QED
    BY <2>2 DEF MinColumns
<1>2. PICK j \in B : \A i \in B : j <= i
  <2>1. B \in SUBSET Nat
    OBVIOUS
  <2>2. QED
    BY <1>1, <2>1, LeastNumber
<1>3. j \in 0..m /\ G(j) # 3 * j
  OBVIOUS
<1>4. IsFiniteSet(1..j) /\ \A k \in 1..j : w[k] = 3 /\ w[k] \in Int
  <2>1. IsFiniteSet(1..j)
    BY FS_Interval
  <2>2. \A k \in 1..j : w[k] = 3
    BY <1>3 DEF MinColumns
  <2>3. QED
    BY <2>1, <2>2
<1>5. CASE j = 0
  <2>1. 1..j = {}
    BY <1>5
  <2>2. G(j) = 0
    BY <1>4, <2>1, SumAdds
  <2>3. QED
    BY <1>3, <1>5, <2>2
<1>6. CASE j # 0
  <2>1. PICK i \in 0..m : i = j - 1
    BY <1>3, <1>6
  <2>2. i \notin B
    BY <1>2, <1>3, <2>1
  <2>3. G(i) = 3 * i
    BY <2>2
  <2>4. j \in 1..j /\ (1..j) \ {j} = 1..i
    BY <1>3, <1>6, <2>1
  <2>5. SumFunctionOnSet(w, 1..j) = w[j] + SumFunctionOnSet(w, (1..j) \ {j})
    BY <1>4, <2>4, SumAdds
  <2>6. G(j) = 3 + G(i)
    BY <1>4, <2>4, <2>5
  <2> HIDE DEF G
  <2>7. G(j) = 3 * j
    BY <1>3, <2>1, <2>3, <2>6
  <2>8. QED
    BY <1>3, <2>7 DEF G
<1>7. QED
  BY <1>5, <1>6

LEMMA NarrowOne ==
  ASSUME NEW m \in Nat, NEW was \in [1..m -> Widths], NEW now, NEW n \in Nat,
         Narrowed(now, was, n), Widest(now) # {}
  PROVE  Narrowed([now EXCEPT ![Min(Widest(now))] = @ - 1], was, n + 1)
<1>1. now \in [1..m -> Widths] /\ DOMAIN was = 1..m /\ DOMAIN now = 1..m
  BY DEF Narrowed
<1>2. PICK k : k = Min(Widest(now))
  OBVIOUS
<1>3. k \in Widest(now)
  <2>1. Widest(now) \in SUBSET Nat
    BY <1>1 DEF Widest
  <2>2. QED
    BY <1>2, <2>1, LeastIsMin
<1>4. k \in 1..m /\ now[k] > MinColumns /\ \A j \in 1..m : now[j] <= now[k]
  BY <1>1, <1>3 DEF Widest
<1>5. PICK new : new = [now EXCEPT ![k] = @ - 1]
  OBVIOUS
<1>6. /\ DOMAIN new = 1..m /\ new[k] = now[k] - 1
      /\ \A j \in 1..m : j # k => new[j] = now[j]
  BY <1>1, <1>4, <1>5
<1>7. /\ \A j \in 1..m : now[j] \in Int /\ now[j] >= MinColumns /\ now[j] <= GridColumns
      /\ \A j \in 1..m : was[j] \in Int
      /\ MinColumns \in Int
  BY <1>1 DEF Widths, MinColumns, GridColumns
<1>8. \A j \in 1..m : new[j] \in Int /\ new[j] >= MinColumns /\ new[j] <= GridColumns
  <2>1. SUFFICES ASSUME NEW j \in 1..m
                 PROVE  new[j] \in Int /\ new[j] >= MinColumns /\ new[j] <= GridColumns
    OBVIOUS
  <2>2. CASE j = k
    BY <2>2, <1>4, <1>6, <1>7 DEF GridColumns, MinColumns
  <2>3. CASE j # k
    BY <2>3, <1>6, <1>7
  <2>4. QED
    BY <2>2, <2>3
<1>9. new \in [1..m -> Widths]
  <2>1. \A j \in 1..m : new[j] \in Widths
    BY <1>8 DEF Widths, MinColumns, GridColumns
  <2>2. new = [j \in 1..m |-> new[j]]
    BY <1>1, <1>5
  <2>3. QED
    BY <2>1, <2>2
<1>10. \A j \in 1..m : now[j] <= was[j]
  BY <1>1 DEF Narrowed
<1>11. \A j \in 1..m : new[j] <= was[j]
  BY <1>6, <1>7, <1>10, <1>4
<1>12. ASSUME NEW i \in 1..m, new[i] < was[i], NEW j \in 1..m
       PROVE  new[j] <= new[i] + 1
  <2>1. CASE i = k
    <3>1. new[i] = now[k] - 1 /\ now[j] <= now[k] /\ now[k] \in Int /\ now[j] \in Int
      BY <2>1, <1>4, <1>6, <1>7
    <3>2. new[j] <= now[j]
      BY <3>1, <1>6, <1>7
    <3>3. new[j] \in Int
      BY <1>6, <1>7
    <3>4. QED
      BY <3>1, <3>2, <3>3
  <2>2. CASE i # k
    <3>1. now[i] = new[i] /\ now[j] <= now[i] + 1
      BY <2>2, <1>1, <1>6, <1>12 DEF Narrowed
    <3>2. new[j] <= now[j]
      BY <1>6, <1>7
    <3>3. QED
      BY <3>1, <3>2, <1>7, <1>8
  <2>3. QED
    BY <2>1, <2>2
<1>13. SumFunction(new) = SumFunction(now) - 1
  <2>1. /\ SumFunction(new) = new[k] + SumFunctionOnSet(new, (1..m) \ {k})
        /\ SumFunction(now) = now[k] + SumFunctionOnSet(now, (1..m) \ {k})
    BY <1>1, <1>4, <1>9, RowSum
  <2>2. IsFiniteSet((1..m) \ {k}) /\ \A x \in (1..m) \ {k} : new[x] \in Int /\ new[x] = now[x]
    BY <1>6, <1>8, FS_Interval, FS_Subset
  <2>3. SumFunctionOnSet(new, (1..m) \ {k}) = SumFunctionOnSet(now, (1..m) \ {k})
        /\ SumFunctionOnSet(new, (1..m) \ {k}) \in Int
    BY <2>2, SumSame, SumAdds
  <2>4. QED
    BY <2>1, <2>3, <1>6, <1>7, <1>4
<1>14. SumFunction(now) \in Int /\ SumFunction(was) \in Int
  BY <1>1, RowSum
<1>15. SumFunction(now) = SumFunction(was) - n
  <2>1. now[k] # MinColumns
    BY <1>4, <1>7
  <2>2. QED
    BY <1>1, <1>4, <2>1 DEF Narrowed
<1>16. SumFunction(new) = SumFunction(was) - (n + 1)
  BY <1>13, <1>14, <1>15
<1>17. SumFunction(new) >= SumFunction(was) - (n + 1)
  BY <1>14, <1>16
<1>18. Narrowed(new, was, n + 1)
  BY <1>1, <1>9, <1>11, <1>12, <1>16, <1>17 DEF Narrowed
<1>19. QED
  BY <1>2, <1>5, <1>18

LEMMA NarrowNone ==
  ASSUME NEW m \in Nat, NEW was \in [1..m -> Widths], NEW now, NEW n \in Nat,
         Narrowed(now, was, n), Widest(now) = {}
  PROVE  Narrowed(now, was, n + 1)
<1>1. now \in [1..m -> Widths] /\ DOMAIN was = 1..m /\ DOMAIN now = 1..m
  BY DEF Narrowed
<1>2. \A i \in 1..m : now[i] = MinColumns
  <2>1. SUFFICES ASSUME NEW i \in 1..m, now[i] # MinColumns PROVE FALSE
    OBVIOUS
  <2> DEFINE B == {GridColumns - now[j] : j \in 1..m}
  <2>2. \A j \in 1..m : now[j] \in Int /\ now[j] >= MinColumns /\ now[j] <= GridColumns
    BY <1>1 DEF Widths, MinColumns, GridColumns
  <2>3. B \in SUBSET Nat /\ B # {}
    BY <2>2 DEF GridColumns
  <2>4. PICK b \in B : \A c \in B : b <= c
    BY <2>3, LeastNumber
  <2>5. PICK k \in 1..m : b = GridColumns - now[k]
    OBVIOUS
  <2>6. \A j \in 1..m : GridColumns - now[k] <= GridColumns - now[j]
    BY <2>4, <2>5
  <2>7. \A j \in 1..m : now[j] <= now[k]
    BY <2>2, <2>6 DEF GridColumns
  <2>8. now[k] > MinColumns
    BY <2>1, <2>2, <2>7 DEF MinColumns
  <2>9. k \in Widest(now)
    BY <1>1, <2>7, <2>8 DEF Widest
  <2>10. QED
    BY <2>9
<1>3. SumFunction(now) \in Int /\ SumFunction(was) \in Int
  BY <1>1, RowSum
<1>4. SumFunction(now) >= SumFunction(was) - (n + 1)
  BY <1>3 DEF Narrowed
<1>5. QED
  BY <1>1, <1>2, <1>4 DEF Narrowed

LEMMA NarrowingNarrows ==
  ASSUME NEW m \in Nat, NEW columns \in [1..m -> Widths], NEW e \in Nat, NEW h,
         IsNarrowing(h, columns, e)
  PROVE  \A n \in 0..e : Narrowed(h[n], columns, n)
<1> DEFINE B == {n \in 0..e : ~Narrowed(h[n], columns, n)}
<1>1. SUFFICES ASSUME B # {} PROVE FALSE
  OBVIOUS
<1>2. PICK n \in B : \A k \in B : n <= k
  <2>1. B \in SUBSET Nat
    OBVIOUS
  <2>2. QED
    BY <1>1, <2>1, LeastNumber
<1>3. n \in 0..e /\ ~Narrowed(h[n], columns, n) /\ h[n] = NarrowStep(h, columns, n)
  BY DEF IsNarrowing
<1>4. n # 0
  <2>1. SUFFICES ASSUME n = 0 PROVE FALSE
    OBVIOUS
  <2>2. h[n] = columns
    BY <1>3, <2>1 DEF NarrowStep
  <2>3. SumFunction(columns) \in Int
    BY RowSum
  <2>4. SumFunction(columns) = SumFunction(columns) - 0
        /\ SumFunction(columns) >= SumFunction(columns) - 0
    BY <2>3
  <2>5. \A i \in 1..m : columns[i] <= columns[i] /\ ~(columns[i] < columns[i])
    BY DEF Widths, MinColumns, GridColumns
  <2>6. Narrowed(columns, columns, 0)
    BY <2>4, <2>5 DEF Narrowed
  <2>7. QED
    BY <1>3, <2>1, <2>2, <2>6
<1>5. n - 1 \in 0..e /\ n - 1 \in Nat /\ ~(n <= n - 1) /\ n = (n - 1) + 1
  BY <1>3, <1>4
<1>6. Narrowed(h[n - 1], columns, n - 1)
  BY <1>2, <1>5
<1>7. CASE Widest(h[n - 1]) = {}
  <2>1. h[n] = h[n - 1]
    BY <1>3, <1>4, <1>7 DEF NarrowStep
  <2>2. Narrowed(h[n - 1], columns, (n - 1) + 1)
    BY <1>5, <1>6, <1>7, NarrowNone
  <2>3. QED
    BY <1>3, <1>5, <2>1, <2>2
<1>8. CASE Widest(h[n - 1]) # {}
  <2>1. h[n] = [h[n - 1] EXCEPT ![Min(Widest(h[n - 1]))] = @ - 1]
    BY <1>3, <1>4, <1>8 DEF NarrowStep
  <2>2. Narrowed([h[n - 1] EXCEPT ![Min(Widest(h[n - 1]))] = @ - 1], columns, (n - 1) + 1)
    BY <1>5, <1>6, <1>8, NarrowOne
  <2>3. QED
    BY <1>3, <1>5, <2>1, <2>2
<1>9. QED
  BY <1>7, <1>8

\* A row given more columns than the grid has gives up the excess, as far as
\* the least width allows; another is left as it is.
LEMMA RowNarrowed ==
  ASSUME NEW m \in Nat, NEW columns \in [1..m -> Widths]
  PROVE  /\ Distribute(columns) \in [1..m -> Widths]
         /\ SumFunction(columns) \in Int
         /\ SumFunction(columns) <= GridColumns => Distribute(columns) = columns
         /\ SumFunction(columns) > GridColumns =>
              Narrowed(Distribute(columns), columns, SumFunction(columns) - GridColumns)
<1>1. SumFunction(columns) \in Int /\ GridColumns \in Int
  BY RowSum DEF GridColumns
<1>2. PICK excess \in Int : excess = SumFunction(columns) - GridColumns
  BY <1>1
<1>3. Distribute(columns) = IF excess > 0 THEN (CHOOSE h : IsNarrowing(h, columns, excess))[excess]
                            ELSE columns
  BY <1>2, DistributeIs
<1>4. CASE excess > 0
  <2>1. PICK h : h = CHOOSE k : IsNarrowing(k, columns, excess)
    OBVIOUS
  <2>2. excess \in Nat /\ excess \in 0..excess
    BY <1>4
  <2>3. IsNarrowing(h, columns, excess)
    BY <2>1, <2>2, NarrowingExists
  <2>4. Narrowed(h[excess], columns, excess)
    BY <2>2, <2>3, NarrowingNarrows
  <2>5. Distribute(columns) = h[excess]
    BY <1>3, <1>4, <2>1
  <2>6. h[excess] \in [1..m -> Widths]
    BY <2>4 DEF Narrowed
  <2>7. ~(SumFunction(columns) <= GridColumns)
    BY <1>1, <1>2, <1>4
  <2>8. QED
    BY <1>1, <1>2, <2>4, <2>5, <2>6, <2>7
<1>5. CASE ~(excess > 0)
  <2>1. Distribute(columns) = columns /\ ~(SumFunction(columns) > GridColumns)
    BY <1>1, <1>2, <1>3, <1>5
  <2>2. QED
    BY <1>1, <2>1
<1>6. QED
  BY <1>4, <1>5

-----------------------------------------------------------------------------
(* What each operation makes of a list of modules. *)

LEMMA Resized ==
  ASSUME NEW r \in Modules, NEW w \in Widths
  PROVE  /\ [r EXCEPT !.columns = w] \in Modules
         /\ [r EXCEPT !.columns = w].id = r.id
         /\ [r EXCEPT !.columns = w].columns = w
         /\ r.columns = w => [r EXCEPT !.columns = w] = r
<1>1. r \in [id : Nat \ {0}, columns : Widths]
  BY DEF Modules
<1>2. PICK q : q = [r EXCEPT !.columns = w]
  OBVIOUS
<1>3. q \in [id : Nat \ {0}, columns : Widths] /\ q.id = r.id /\ q.columns = w
  BY <1>1, <1>2
<1>4. r.columns = w => q = r
  BY <1>1, <1>2
<1>5. QED
  BY <1>2, <1>3, <1>4 DEF Modules

LEMMA ModuleFields ==
  ASSUME NEW list \in Seq(Modules), NEW i \in DOMAIN list
  PROVE  /\ list[i] \in Modules
         /\ list[i].id \in Nat \ {0} /\ list[i].id \in IdsOf(list)
         /\ list[i].columns \in Widths /\ list[i].columns \in Int
<1>1. list[i] \in Modules
  OBVIOUS
<1>2. list[i].id \in IdsOf(list)
  BY DEF IdsOf
<1>3. QED
  BY <1>1, <1>2 DEF Modules, Widths, MinColumns, GridColumns

\* A module is found by its id.
LEMMA ModuleIs ==
  ASSUME NEW list \in Seq(Modules), NEW id \in IdsOf(list)
  PROVE  /\ ModuleOf(list, id) \in Modules
         /\ ModuleOf(list, id).id = id
         /\ ModuleOf(list, id).columns \in Widths
         /\ \E i \in DOMAIN list : ModuleOf(list, id) = list[i]
         /\ IsInjective(OrderOf(list)) => \A i \in DOMAIN list : list[i].id = id =>
              PositionOf(list, id) = i /\ ModuleOf(list, id) = list[i]
<1>1. DOMAIN list = 1..Len(list) /\ Len(list) \in Nat
  OBVIOUS
<1>2. PositionOf(list, id) \in DOMAIN list /\ list[PositionOf(list, id)].id = id
  BY <1>1, PositionIs
<1>3. list[PositionOf(list, id)] \in Modules
  BY <1>2, ModuleFields
<1>4. IsInjective(OrderOf(list)) => \A i, j \in DOMAIN list : list[i].id = list[j].id => i = j
  BY DEF IsInjective, OrderOf
<1>5. list[PositionOf(list, id)].columns \in Widths
  BY <1>3 DEF Modules
<1>6. QED
  BY <1>2, <1>3, <1>4, <1>5 DEF ModuleOf

LEMMA NormalizeKeeps ==
  ASSUME NEW list \in Seq(Modules)
  PROVE  Normalize(list) = list
<1>1. ASSUME NEW i \in DOMAIN list
      PROVE  [list[i] EXCEPT !.columns = Clamp(@)] = list[i]
  <2>1. list[i] \in Modules /\ list[i].columns \in Widths /\ list[i].columns \in Int
    BY ModuleFields
  <2>2. PICK w \in Widths : w = list[i].columns
    BY <2>1
  <2>3. Clamp(list[i].columns) = w
    BY <2>1, <2>2, ClampIs
  <2>4. [list[i] EXCEPT !.columns = Clamp(@)] = [list[i] EXCEPT !.columns = w]
    BY <2>3
  <2>5. QED
    BY <2>1, <2>2, <2>4, Resized
<1>2. Normalize(list) = [i \in DOMAIN list |-> list[i]]
  BY <1>1 DEF Normalize
<1>3. QED
  BY <1>2

LEMMA SetColumnsIs ==
  ASSUME NEW list \in Seq(Modules), NEW id, NEW columns \in Int
  PROVE  /\ SetColumns(list, id, columns) \in Seq(Modules)
         /\ DOMAIN SetColumns(list, id, columns) = DOMAIN list
         /\ \A i \in DOMAIN list : SetColumns(list, id, columns)[i].id = list[i].id
<1>1. Clamp(columns) \in Widths
  BY ClampIs
<1>2. PICK new : new = SetColumns(list, id, columns)
  OBVIOUS
<1>3. ASSUME NEW i \in DOMAIN list
      PROVE  new[i] \in Modules /\ new[i].id = list[i].id
  <2>1. list[i] \in Modules
    BY ModuleFields
  <2>2. new[i] = IF list[i].id = id THEN [list[i] EXCEPT !.columns = Clamp(columns)]
                                    ELSE list[i]
    BY <1>2 DEF SetColumns
  <2>3. QED
    BY <1>1, <2>1, <2>2, Resized
<1>4. DOMAIN new = DOMAIN list /\ new = [i \in DOMAIN list |-> new[i]]
  BY <1>2 DEF SetColumns
<1>5. DOMAIN list = 1..Len(list) /\ Len(list) \in Nat
  OBVIOUS
<1>6. new \in [1..Len(list) -> Modules]
  BY <1>3, <1>4, <1>5
<1>7. new \in Seq(Modules)
  BY <1>5, <1>6
<1>8. QED
  BY <1>2, <1>3, <1>4, <1>7

LEMMA WithoutIs ==
  ASSUME NEW T, NEW list \in Seq(T), NEW id
  PROVE  /\ Without(list, id) \in Seq(T)
         /\ \E p : Picks(p, Without(list, id), list)
         /\ id \notin IdsOf(Without(list, id))
<1> DEFINE places == {i \in DOMAIN list : list[i].id # id}
<1>1. PICK new : new = Without(list, id)
  OBVIOUS
<1>2. PICK p : p = Ascending(places)
  OBVIOUS
<1>3. /\ new \in Seq(T) /\ p \in [DOMAIN new -> places] /\ DOMAIN new = 1..Cardinality(places)
      /\ \A i, j \in DOMAIN new : i < j => p[i] < p[j]
      /\ \A n \in DOMAIN new : new[n] = list[p[n]]
  <2>1. places \in SUBSET DOMAIN list
    OBVIOUS
  <2>2. new = Only(list, places)
    BY <1>1 DEF Without
  <2> HIDE DEF places
  <2>3. QED
    BY <1>2, <2>1, <2>2, OnlyPicks
<1>4. DOMAIN new = 1..Len(new) /\ Len(new) \in Nat /\ \A i \in DOMAIN list : i \in Nat
  BY <1>3
<1>5. \A i, j \in DOMAIN new : p[i] = p[j] => i = j
  <2>1. \A i, j \in DOMAIN new : i < j \/ i = j \/ j < i
    BY <1>4
  <2>2. \A i \in DOMAIN new : p[i] \in Nat
    BY <1>3, <1>4
  <2> HIDE DEF places
  <2>3. \A i, j \in DOMAIN new : i < j => p[i] # p[j]
    BY <1>3, <2>2
  <2>4. QED
    BY <2>1, <2>3
<1>6. Picks(p, new, list)
  BY <1>3, <1>5 DEF Picks, IsInjective
<1>7. id \notin IdsOf(new)
  BY <1>3 DEF IdsOf
<1>8. QED
  BY <1>1, <1>3, <1>6, <1>7

LEMMA AppendIs ==
  ASSUME NEW list \in Seq(Modules), NEW m \in Modules
  PROVE  /\ Append(list, m) \in Seq(Modules)
         /\ IdsOf(Append(list, m)) = IdsOf(list) \cup {m.id}
         /\ IsInjective(OrderOf(list)) /\ m.id \notin IdsOf(list) =>
              IsInjective(OrderOf(Append(list, m)))
<1>1. PICK new : new = Append(list, m)
  OBVIOUS
<1>2. PICK n \in Nat : n = Len(list)
  OBVIOUS
<1>3. /\ DOMAIN list = 1..n /\ DOMAIN new = 1..(n + 1) /\ new \in Seq(Modules)
      /\ \A i \in 1..n : new[i] = list[i]
      /\ new[n + 1] = m
  BY <1>1, <1>2
<1>4. \A i \in 1..(n + 1) : i \in 1..n \/ i = n + 1
  OBVIOUS
<1>5. IdsOf(new) \subseteq IdsOf(list) \cup {m.id}
  BY <1>3, <1>4 DEF IdsOf
<1>6. \A i \in 1..n : i \in 1..(n + 1)
  OBVIOUS
<1>9. n + 1 \in 1..(n + 1)
  OBVIOUS
<1>10. IdsOf(list) \cup {m.id} \subseteq IdsOf(new)
  BY <1>3, <1>6, <1>9 DEF IdsOf
<1>7. ASSUME IsInjective(OrderOf(list)), m.id \notin IdsOf(list)
      PROVE  IsInjective(OrderOf(new))
  <2>1. \A i, j \in 1..n : list[i].id = list[j].id => i = j
    BY <1>3, <1>7 DEF IsInjective, OrderOf
  <2>2. \A i \in 1..n : list[i].id # m.id
    BY <1>3, <1>7 DEF IdsOf
  <2>3. \A i, j \in 1..(n + 1) : new[i].id = new[j].id => i = j
    <3>1. SUFFICES ASSUME NEW i \in 1..(n + 1), NEW j \in 1..(n + 1), new[i].id = new[j].id
                   PROVE  i = j
      OBVIOUS
    <3>2. CASE i \in 1..n /\ j \in 1..n
      BY <1>3, <2>1, <3>1, <3>2
    <3>3. CASE i = n + 1 /\ j = n + 1
      BY <3>3
    <3>4. CASE i \in 1..n /\ j = n + 1
      BY <1>3, <2>2, <3>1, <3>4
    <3>5. CASE i = n + 1 /\ j \in 1..n
      BY <1>3, <2>2, <3>1, <3>5
    <3>6. QED
      BY <1>4, <3>2, <3>3, <3>4, <3>5
  <2>4. QED
    BY <1>3, <2>3 DEF IsInjective, OrderOf
<1>8. QED
  BY <1>1, <1>3, <1>5, <1>10, <1>7

\* The modules of a list whose ids are asked for, and their widths.
Members(list, ids) == Only(ids, {i \in DOMAIN ids : ids[i] \in IdsOf(list)})
ColumnsOf(list, members) == [i \in DOMAIN members |-> ModuleOf(list, members[i]).columns]

LEMMA MembersAre ==
  ASSUME NEW list \in Seq(Modules), NEW T, NEW ids \in Seq(T)
  PROVE  /\ Members(list, ids) \in Seq(T)
         /\ ToSet(Members(list, ids)) = ToSet(ids) \cap IdsOf(list)
         /\ IsInjective(ids) => IsInjective(Members(list, ids))
         /\ ColumnsOf(list, Members(list, ids)) \in [1..Len(Members(list, ids)) -> Widths]
<1> DEFINE places == {i \in DOMAIN ids : ids[i] \in IdsOf(list)}
<1>1. PICK new : new = Members(list, ids)
  OBVIOUS
<1>2. PICK p : p = Ascending(places)
  OBVIOUS
<1>3. /\ new \in Seq(T) /\ p \in [DOMAIN new -> places]
      /\ \A i, j \in DOMAIN new : i < j => p[i] < p[j]
      /\ \A x \in places : \E n \in DOMAIN new : p[n] = x
      /\ \A n \in DOMAIN new : new[n] = ids[p[n]]
  <2>1. places \in SUBSET DOMAIN ids
    OBVIOUS
  <2>2. new = Only(ids, places)
    BY <1>1 DEF Members
  <2> HIDE DEF places
  <2>3. QED
    BY <1>2, <2>1, <2>2, OnlyPicks
<1>4. DOMAIN new = 1..Len(new) /\ Len(new) \in Nat /\ \A i \in DOMAIN ids : i \in Nat
  BY <1>3
<1>5. \A i, j \in DOMAIN new : p[i] = p[j] => i = j
  <2>1. \A i, j \in DOMAIN new : i < j \/ i = j \/ j < i
    BY <1>4
  <2>2. \A i \in DOMAIN new : p[i] \in Nat
    BY <1>3, <1>4
  <2> HIDE DEF places
  <2>3. \A i, j \in DOMAIN new : i < j => p[i] # p[j]
    BY <1>3, <2>2
  <2>4. QED
    BY <2>1, <2>3
<1>6. ToSet(new) = ToSet(ids) \cap IdsOf(list)
  <2>1. \A i \in DOMAIN new : p[i] \in DOMAIN ids /\ ids[p[i]] \in IdsOf(list)
    BY <1>3
  <2>2. \A i \in DOMAIN ids : ids[i] \in IdsOf(list) => \E n \in DOMAIN new : p[n] = i
    BY <1>3
  <2>3. QED
    BY <1>3, <2>1, <2>2 DEF ToSet
<1>7. IsInjective(ids) => IsInjective(new)
  <2>1. \A i \in DOMAIN new : p[i] \in DOMAIN ids
    BY <1>3
  <2>2. QED
    BY <1>3, <1>5, <2>1 DEF IsInjective
<1>8. ColumnsOf(list, new) \in [1..Len(new) -> Widths]
  <2>1. \A i \in DOMAIN new : new[i] \in IdsOf(list)
    BY <1>6 DEF ToSet
  <2>2. \A i \in DOMAIN new : ModuleOf(list, new[i]).columns \in Widths
    BY <2>1, ModuleIs
  <2>3. QED
    BY <1>4, <2>2 DEF ColumnsOf
<1>9. QED
  BY <1>1, <1>3, <1>6, <1>7, <1>8

\* rebalanceRowModules changes the widths of the members only, to those that
\* Distribute gives them.
LEMMA RebalanceIs ==
  ASSUME NEW list \in Seq(Modules), NEW T, NEW ids \in Seq(T)
  PROVE  LET members == Members(list, ids)
             columns == Distribute(ColumnsOf(list, members))
             new == Rebalance(list, ids)
         IN /\ new \in Seq(Modules)
            /\ DOMAIN new = DOMAIN list
            /\ \A i \in DOMAIN list : new[i].id = list[i].id
            /\ Len(members) <= 1 => new = list
            /\ Len(members) > 1 =>
                 \A i \in DOMAIN list :
                   new[i].columns = IF list[i].id \in ToSet(members)
                                    THEN columns[PlaceOf(members, list[i].id)]
                                    ELSE list[i].columns
<1>1. PICK members : members = Members(list, ids)
  OBVIOUS
<1>2. PICK columns : columns = Distribute(ColumnsOf(list, members))
  OBVIOUS
<1>3. PICK new : new = Rebalance(list, ids)
  OBVIOUS
<1>4. /\ members \in Seq(T) /\ Len(members) \in Nat /\ DOMAIN members = 1..Len(members)
      /\ ColumnsOf(list, members) \in [1..Len(members) -> Widths]
  BY <1>1, MembersAre
<1>5. columns \in [1..Len(members) -> Widths]
  BY <1>2, <1>4, RowNarrowed
<1>6. \A id \in ToSet(members) : PlaceOf(members, id) \in 1..Len(members)
  BY <1>4, FirstPlace
<1>7. /\ Len(members) <= 1 => new = list
      /\ ~(Len(members) <= 1) =>
           new = [i \in DOMAIN list |->
                   IF list[i].id \in ToSet(members)
                   THEN [list[i] EXCEPT !.columns = columns[PlaceOf(members, list[i].id)]]
                   ELSE list[i]]
  <2>1. PICK normal : normal = Normalize(list)
    OBVIOUS
  <2>2. Rebalance(list, ids) =
          IF Len(Members(list, ids)) <= 1 THEN Normalize(list)
          ELSE [i \in DOMAIN Normalize(list) |->
                 IF Normalize(list)[i].id \in ToSet(Members(list, ids))
                 THEN [Normalize(list)[i] EXCEPT !.columns =
                         Distribute(ColumnsOf(Normalize(list), Members(list, ids)))
                           [PlaceOf(Members(list, ids), Normalize(list)[i].id)]]
                 ELSE Normalize(list)[i]]
    BY DEF Rebalance, Members, ColumnsOf
  <2>3. QED
    BY <1>1, <1>2, <1>3, <2>2, NormalizeKeeps
<1>8. CASE Len(members) <= 1
  <2>1. new = list /\ ~(Len(members) > 1)
    BY <1>4, <1>7, <1>8
  <2>2. QED
    BY <1>1, <1>3, <1>8, <2>1
<1>9. CASE ~(Len(members) <= 1)
  <2>1. DOMAIN new = DOMAIN list /\ DOMAIN list = 1..Len(list) /\ Len(list) \in Nat
        /\ new = [i \in DOMAIN list |-> new[i]]
    BY <1>7, <1>9
  <2>2. ASSUME NEW i \in DOMAIN list
        PROVE  /\ new[i] \in Modules /\ new[i].id = list[i].id
               /\ new[i].columns = IF list[i].id \in ToSet(members)
                                   THEN columns[PlaceOf(members, list[i].id)] ELSE list[i].columns
    <3>1. list[i] \in Modules
      BY ModuleFields
    <3>2. CASE list[i].id \in ToSet(members)
      <4>1. PICK w \in Widths : w = columns[PlaceOf(members, list[i].id)]
        BY <1>5, <1>6, <3>2
      <4>2. new[i] = [list[i] EXCEPT !.columns = w]
        BY <1>7, <1>9, <3>2, <4>1
      <4>3. new[i] \in Modules /\ new[i].id = list[i].id /\ new[i].columns = w
        BY <3>1, <4>2, Resized
      <4>4. QED
        BY <3>2, <4>1, <4>3
    <3>3. CASE list[i].id \notin ToSet(members)
      BY <1>7, <1>9, <3>1, <3>3
    <3>4. QED
      BY <3>2, <3>3
  <2>3. new \in [1..Len(list) -> Modules]
    BY <2>1, <2>2
  <2>4. new \in Seq(Modules)
    BY <2>1, <2>3
  <2>5. QED
    BY <1>1, <1>2, <1>3, <1>9, <2>1, <2>2, <2>4
<1>10. QED
  BY <1>8, <1>9

\* The row of a module: its ids are of the list, each once, the module among them.
LEMMA RowIdsAre ==
  ASSUME NEW list \in Seq(Modules), NEW target
  PROVE  /\ RowIds(list, target) \in Seq(IdsOf(list))
         /\ target \notin IdsOf(list) => RowIds(list, target) = <<>>
         /\ target \in IdsOf(list) => target \in ToSet(RowIds(list, target))
         /\ IsInjective(OrderOf(list)) => IsInjective(RowIds(list, target))
<1>1. PICK row : row = RowIds(list, target)
  OBVIOUS
<1>2. CASE target \notin IdsOf(list)
  <2>1. row = <<>>
    BY <1>1, <1>2 DEF RowIds
  <2>2. row \in Seq(IdsOf(list)) /\ IsInjective(row)
    BY <2>1 DEF IsInjective
  <2>3. QED
    BY <1>1, <1>2, <2>1, <2>2
<1>3. CASE target \in IdsOf(list)
  <2>1. PICK packed : packed = Pack(list)
    OBVIOUS
  <2>2. DOMAIN packed = DOMAIN list /\ \A i \in DOMAIN list : packed[i].id = list[i].id
    BY <2>1 DEF Pack
  <2>3. PICK places : places = {i \in DOMAIN packed :
                                  packed[i].rowIndex = ModuleOf(packed, target).rowIndex}
    OBVIOUS
  <2>4. row = OrderOf(Only(packed, places))
    BY <1>1, <1>3, <2>1, <2>3 DEF RowIds
  <2>5. DOMAIN list = 1..Len(list) /\ Len(list) \in Nat
    OBVIOUS
  <2> DEFINE Packed == {packed[i] : i \in DOMAIN list}
  <2>6. packed \in Seq(Packed)
    <3>1. packed \in [1..Len(list) -> Packed]
      BY <2>1, <2>2, <2>5 DEF Pack
    <3> HIDE DEF Packed
    <3>2. QED
      BY <2>5, <3>1
  <2>7. PICK only : only = Only(packed, places)
    OBVIOUS
  <2>8. PICK p : p = Ascending(places)
    OBVIOUS
  <2> HIDE DEF Packed
  <2>16. places \in SUBSET DOMAIN packed
    BY <2>3
  <2>9. /\ only \in Seq(Packed) /\ p \in [DOMAIN only -> places]
        /\ \A i, j \in DOMAIN only : i < j => p[i] < p[j]
        /\ \A x \in places : \E n \in DOMAIN only : p[n] = x
        /\ \A n \in DOMAIN only : only[n] = packed[p[n]]
    BY <2>16, <2>6, <2>7, <2>8, OnlyPicks
  <2>10. places \subseteq DOMAIN list
    BY <2>2, <2>3
  <2>11. DOMAIN only = 1..Len(only) /\ Len(only) \in Nat /\ DOMAIN row = DOMAIN only
         /\ \A n \in DOMAIN only : p[n] \in DOMAIN list /\ row[n] = list[p[n]].id
    BY <2>2, <2>4, <2>7, <2>9, <2>10 DEF OrderOf
  <2>12. row \in Seq(IdsOf(list))
    <3>1. \A n \in 1..Len(only) : row[n] \in IdsOf(list)
      BY <2>11 DEF IdsOf
    <3>2. row = [n \in 1..Len(only) |-> row[n]]
      BY <2>4, <2>7, <2>11 DEF OrderOf
    <3>3. QED
      BY <2>11, <3>1, <3>2
  <2>13. target \in ToSet(row)
    <3>1. target \in IdsOf(packed)
      BY <1>3, <2>2 DEF IdsOf
    <3>2. PositionOf(packed, target) \in DOMAIN packed
          /\ packed[PositionOf(packed, target)].id = target
      BY <2>2, <2>5, <3>1, PositionIs
    <3>3. PositionOf(packed, target) \in places
      BY <2>3, <3>2 DEF ModuleOf
    <3>4. PICK n \in DOMAIN only : p[n] = PositionOf(packed, target)
      BY <2>9, <3>3
    <3>5. row[n] = target
      BY <2>2, <2>11, <3>2, <3>4
    <3>6. QED
      BY <2>11, <3>4, <3>5 DEF ToSet
  <2>14. ASSUME IsInjective(OrderOf(list))
         PROVE  IsInjective(row)
    <3>1. \A i, j \in DOMAIN list : list[i].id = list[j].id => i = j
      BY <2>14 DEF IsInjective, OrderOf
    <3>2. \A i, j \in DOMAIN only : i < j \/ i = j \/ j < i
      BY <2>11
    <3>3. \A i \in DOMAIN only : p[i] \in Nat
      BY <2>5, <2>11
    <3>4. \A i, j \in DOMAIN only : i < j => p[i] # p[j]
      BY <2>9, <3>3
    <3>5. QED
      BY <2>11, <3>1, <3>2, <3>4 DEF IsInjective
  <2>15. QED
    BY <1>1, <1>3, <2>12, <2>13, <2>14
<1>4. QED
  BY <1>2, <1>3

LEMMA InsertedSet ==
  ASSUME NEW T, NEW list \in Seq(T), NEW at \in 1..(Len(list) + 1), NEW e \in T
  PROVE  /\ ToSet(InsertAt(list, at, e)) = ToSet(list) \cup {e}
         /\ IsInjective(list) /\ e \notin ToSet(list) => IsInjective(InsertAt(list, at, e))
<1>1. PICK new : new = InsertAt(list, at, e)
  OBVIOUS
<1>2. PICK n \in Nat : n = Len(list) /\ DOMAIN list = 1..n
  OBVIOUS
<1>3. /\ DOMAIN new = 1..(n + 1)
      /\ \A k \in 1..(n + 1) : new[k] = IF k < at THEN list[k]
                                        ELSE IF k = at THEN e ELSE list[k - 1]
  <2>1. /\ InsertAt(list, at, e) \in Seq(T)
        /\ Len(InsertAt(list, at, e)) = Len(list) + 1
        /\ \A k \in 1..(Len(list) + 1) :
             InsertAt(list, at, e)[k] = IF k < at THEN list[k]
                                        ELSE IF k = at THEN e ELSE list[k - 1]
    BY InsertAtIs
  <2>2. new \in Seq(T) /\ Len(new) = n + 1
    BY <1>1, <1>2, <2>1
  <2>3. QED
    BY <1>1, <1>2, <2>1, <2>2
<1>4. at \in 1..(n + 1)
  BY <1>2
<1>5. ToSet(new) \subseteq ToSet(list) \cup {e}
  <2>1. \A k \in 1..(n + 1) : /\ k < at => k \in 1..n
                              /\ k > at => k - 1 \in 1..n
                              /\ k < at \/ k = at \/ k > at
    BY <1>4
  <2>2. QED
    BY <1>2, <1>3, <2>1 DEF ToSet
<1>6. e \in ToSet(new)
  BY <1>3, <1>4 DEF ToSet
<1>7. ASSUME NEW i \in 1..n
      PROVE  list[i] \in ToSet(new)
  <2>1. CASE i < at
    <3>1. i \in 1..(n + 1) /\ new[i] = list[i]
      BY <1>3, <2>1
    <3>2. QED
      BY <1>3, <3>1 DEF ToSet
  <2>2. CASE ~(i < at)
    <3>1. i + 1 \in 1..(n + 1) /\ new[i + 1] = list[(i + 1) - 1] /\ (i + 1) - 1 = i
      BY <1>3, <1>4, <2>2
    <3>2. QED
      BY <1>3, <3>1 DEF ToSet
  <2>3. QED
    BY <2>1, <2>2
<1>8. ASSUME IsInjective(list), e \notin ToSet(list)
      PROVE  IsInjective(new)
  <2>1. /\ \A i, j \in 1..n : list[i] = list[j] => i = j
        /\ \A i \in 1..n : list[i] # e
    BY <1>2, <1>8 DEF IsInjective, ToSet
  <2>2. \A i, j \in 1..(n + 1) : i < j => new[i] # new[j]
    <3>1. SUFFICES ASSUME NEW i \in 1..(n + 1), NEW j \in 1..(n + 1), i < j
                   PROVE  new[i] # new[j]
      OBVIOUS
    <3>2. CASE j < at
      <4>1. i \in 1..n /\ j \in 1..n /\ i # j /\ new[i] = list[i] /\ new[j] = list[j]
        BY <1>3, <1>4, <3>1, <3>2
      <4>2. QED
        BY <2>1, <4>1
    <3>3. CASE j = at
      <4>1. i \in 1..n /\ new[i] = list[i] /\ new[j] = e
        BY <1>3, <1>4, <3>1, <3>3
      <4>2. QED
        BY <2>1, <4>1
    <3>4. CASE j > at
      <4>1. j - 1 \in 1..n /\ new[j] = list[j - 1]
        BY <1>3, <1>4, <3>4
      <4>2. CASE i < at
        <5>1. i \in 1..n /\ new[i] = list[i] /\ i # j - 1
          BY <1>3, <1>4, <3>4, <4>2
        <5>2. QED
          BY <2>1, <4>1, <5>1
      <4>3. CASE i = at
        <5>1. new[i] = e
          BY <1>3, <4>3
        <5>2. QED
          BY <2>1, <4>1, <5>1
      <4>4. CASE i > at
        <5>1. i - 1 \in 1..n /\ new[i] = list[i - 1] /\ i - 1 # j - 1
          BY <1>3, <1>4, <3>1, <4>4
        <5>2. QED
          BY <2>1, <4>1, <5>1
      <4>5. QED
        BY <1>4, <4>2, <4>3, <4>4
    <3>5. QED
      BY <1>4, <3>2, <3>3, <3>4
  <2>3. \A i, j \in 1..(n + 1) : i < j \/ i = j \/ j < i
    OBVIOUS
  <2>4. QED
    BY <1>3, <2>2, <2>3 DEF IsInjective
<1>9. ToSet(list) \subseteq ToSet(new)
  BY <1>2, <1>7 DEF ToSet
<1>10. QED
  BY <1>1, <1>5, <1>6, <1>8, <1>9

LEMMA OnlyOthers ==
  ASSUME NEW T, NEW list \in Seq(T), NEW e,
         NEW places \in SUBSET DOMAIN list, \A i \in DOMAIN list : i \in places <=> list[i] # e
  PROVE  LET new == Only(list, places)
         IN /\ new \in Seq(T)
            /\ ToSet(new) = ToSet(list) \ {e}
            /\ IsInjective(list) => IsInjective(new)
<1>1. \A i \in places : i \in DOMAIN list /\ list[i] # e
  OBVIOUS
<1>2. PICK new : new = Only(list, places)
  OBVIOUS
<1>3. PICK p : p = Ascending(places)
  OBVIOUS
<1>5. /\ new \in Seq(T) /\ p \in [DOMAIN new -> places]
      /\ \A i, j \in DOMAIN new : i < j => p[i] < p[j]
      /\ \A x \in places : \E n \in DOMAIN new : p[n] = x
      /\ \A n \in DOMAIN new : new[n] = list[p[n]]
  BY <1>2, <1>3, OnlyPicks
<1>6. /\ \A n \in DOMAIN new : p[n] \in DOMAIN list /\ p[n] \in Nat /\ list[p[n]] # e
      /\ DOMAIN new = 1..Len(new) /\ Len(new) \in Nat
  BY <1>1, <1>5
<1>7. ToSet(new) = ToSet(list) \ {e}
  <2>1. \A i \in DOMAIN list : list[i] # e => \E n \in DOMAIN new : p[n] = i
    BY <1>1, <1>5
  <2>2. QED
    BY <1>5, <1>6, <2>1 DEF ToSet
<1>8. IsInjective(list) => IsInjective(new)
  <2>1. \A i, j \in DOMAIN new : i < j \/ i = j \/ j < i
    BY <1>6
  <2>2. \A i, j \in DOMAIN new : i < j => p[i] # p[j]
    BY <1>5, <1>6
  <2>3. QED
    BY <1>5, <1>6, <2>1, <2>2 DEF IsInjective
<1>9. QED
  BY <1>1, <1>2, <1>5, <1>7, <1>8

\* The ids that share the row after a drop, in their order.
SharedIds(list, source, target, placement) ==
  LET targetRow == RowIds(list, target)
      row == Only(targetRow, {i \in DOMAIN targetRow : targetRow[i] # source})
      place == PlaceOf(row, target)
  IN IF row = <<>> THEN <<>>
     ELSE InsertAt(row, IF placement = "after" THEN place + 1 ELSE place, source)

LEMMA SharedIdsAre ==
  ASSUME NEW list \in Seq(Modules), NEW source, NEW target, source # target, NEW placement
  PROVE  LET shared == SharedIds(list, source, target, placement)
         IN /\ shared \in Seq(IdsOf(list) \cup {source})
            /\ target \notin IdsOf(list) => shared = <<>>
            /\ target \in IdsOf(list) =>
                 /\ shared # <<>>
                 /\ ToSet(shared) = ToSet(RowIds(list, target)) \cup {source}
                 /\ IsInjective(OrderOf(list)) => IsInjective(shared)
            /\ MoveToSharedRow(list, source, target, placement) =
                 IF shared = <<>> THEN MoveModule(list, source, target, placement)
                 ELSE Rebalance(MoveModule(list, source, target, placement), shared)
<1> DEFINE T == IdsOf(list) \cup {source}
<1>1. PICK targetRow : targetRow = RowIds(list, target)
  OBVIOUS
<1>2. PICK row : row = Only(targetRow, {i \in DOMAIN targetRow : targetRow[i] # source})
  OBVIOUS
<1>3. PICK at : at = IF placement = "after" THEN PlaceOf(row, target) + 1 ELSE PlaceOf(row, target)
  OBVIOUS
<1>4. PICK shared : shared = SharedIds(list, source, target, placement)
  OBVIOUS
<1>5. shared = IF row = <<>> THEN <<>> ELSE InsertAt(row, at, source)
  BY <1>1, <1>2, <1>3, <1>4 DEF SharedIds
<1>6. MoveToSharedRow(list, source, target, placement) =
        IF row = <<>> THEN MoveModule(list, source, target, placement)
        ELSE Rebalance(MoveModule(list, source, target, placement), InsertAt(row, at, source))
  BY <1>1, <1>2, <1>3 DEF MoveToSharedRow
<1>7. /\ targetRow \in Seq(T)
      /\ target \notin IdsOf(list) => targetRow = <<>>
      /\ target \in IdsOf(list) => target \in ToSet(targetRow)
      /\ IsInjective(OrderOf(list)) => IsInjective(targetRow)
  <2>1. targetRow \in Seq(IdsOf(list))
    BY <1>1, RowIdsAre
  <2>2. targetRow \in Seq(T)
    BY <2>1, SeqMonotonic
  <2>3. QED
    BY <1>1, <2>2, RowIdsAre
<1> HIDE DEF T
<1>8. /\ row \in Seq(T) /\ ToSet(row) = ToSet(targetRow) \ {source}
      /\ IsInjective(targetRow) => IsInjective(row)
  <2>1. PICK places : places = {i \in DOMAIN targetRow : targetRow[i] # source}
    OBVIOUS
  <2>2. row = Only(targetRow, places)
    BY <1>2, <2>1
  <2>3. places \in SUBSET DOMAIN targetRow
        /\ \A i \in DOMAIN targetRow : i \in places <=> targetRow[i] # source
    BY <2>1
  <2>4. targetRow \in Seq(T)
    BY <1>7
  <2>5. PICK new : new = Only(targetRow, places)
    OBVIOUS
  <2>6. /\ new \in Seq(T) /\ ToSet(new) = ToSet(targetRow) \ {source}
        /\ IsInjective(targetRow) => IsInjective(new)
    BY <2>3, <2>4, <2>5, OnlyOthers
  <2>7. QED
    BY <2>2, <2>5, <2>6
<1>9. source \in T
  BY DEF T
<1>10. CASE target \notin IdsOf(list)
  <2>1. ToSet(row) = {}
    BY <1>7, <1>8, <1>10 DEF ToSet
  <2>2. row = <<>>
    BY <1>8, <2>1 DEF ToSet
  <2>3. shared = <<>> /\ shared \in Seq(T)
    BY <1>5, <2>2
  <2>4. QED
    BY <1>4, <1>6, <1>10, <2>2, <2>3 DEF T
<1>11. CASE target \in IdsOf(list)
  <2>1. target \in ToSet(row)
    BY <1>7, <1>8, <1>11
  <2>2. PlaceOf(row, target) \in 1..Len(row) /\ Len(row) \in Nat /\ row # <<>>
    BY <1>8, <2>1, FirstPlace DEF ToSet
  <2>3. at \in 1..(Len(row) + 1)
    BY <1>3, <2>2
  <2>4. shared = InsertAt(row, at, source)
    BY <1>5, <2>2
  <2>5. shared \in Seq(T) /\ Len(shared) = Len(row) + 1
    BY <1>8, <1>9, <2>3, <2>4, InsertAtIs
  <2>6. ToSet(shared) = ToSet(targetRow) \cup {source}
    BY <1>8, <1>9, <2>3, <2>4, InsertedSet
  <2>7. IsInjective(OrderOf(list)) => IsInjective(shared)
    <3>1. source \notin ToSet(row)
      BY <1>8
    <3>2. IsInjective(row) => IsInjective(InsertAt(row, at, source))
      BY <1>8, <1>9, <2>3, <3>1, InsertedSet
    <3>3. QED
      BY <1>7, <1>8, <2>4, <3>2
  <2>8. shared # <<>>
    BY <2>2, <2>5
  <2>9. QED
    BY <1>1, <1>4, <1>6, <1>11, <2>2, <2>4, <2>5, <2>6, <2>7, <2>8 DEF T
<1>12. QED
  BY <1>10, <1>11

\* A drop into a row moves the module and keeps every other in its order; only
\* widths of the row change.
LEMMA SharedRowMoved ==
  ASSUME NEW list \in Seq(Modules), NEW source, NEW target, source # target, NEW placement,
         IsInjective(OrderOf(list))
  PROVE  LET new == MoveToSharedRow(list, source, target, placement)
             moved == MoveModule(list, source, target, placement)
         IN /\ new \in Seq(Modules)
            /\ DOMAIN new = DOMAIN list /\ DOMAIN moved = DOMAIN list /\ moved \in Seq(Modules)
            /\ \A i \in DOMAIN list : new[i].id = moved[i].id
<1>1. PICK new : new = MoveToSharedRow(list, source, target, placement)
  OBVIOUS
<1>2. PICK moved : moved = MoveModule(list, source, target, placement)
  OBVIOUS
<1>3. PICK shared : shared = SharedIds(list, source, target, placement)
  OBVIOUS
<1>4. /\ shared \in Seq(IdsOf(list) \cup {source})
      /\ new = IF shared = <<>> THEN moved ELSE Rebalance(moved, shared)
  BY <1>1, <1>2, <1>3, SharedIdsAre
<1>5. moved \in Seq(Modules) /\ Len(moved) = Len(list)
  BY <1>2, ModuleMoved
<1>6. DOMAIN moved = DOMAIN list
  BY <1>5
<1>7. CASE shared = <<>>
  BY <1>1, <1>2, <1>4, <1>5, <1>6, <1>7
<1>8. CASE shared # <<>>
  <2>1. new = Rebalance(moved, shared)
    BY <1>4, <1>8
  <2>2. /\ new \in Seq(Modules) /\ DOMAIN new = DOMAIN moved
        /\ \A i \in DOMAIN moved : new[i].id = moved[i].id
    <3>1. PICK r : r = Rebalance(moved, shared)
      OBVIOUS
    <3>2. /\ r \in Seq(Modules) /\ DOMAIN r = DOMAIN moved
          /\ \A i \in DOMAIN moved : r[i].id = moved[i].id
      BY <1>4, <1>5, <3>1, RebalanceIs
    <3>3. QED
      BY <2>1, <3>1, <3>2
  <2>3. QED
    BY <1>1, <1>2, <1>5, <1>6, <2>2
<1>9. QED
  BY <1>7, <1>8

-----------------------------------------------------------------------------
(* Ids and stored layouts. *)

LEMMA IdsAreFinite ==
  ASSUME NEW list \in Seq(Modules)
  PROVE  IdsOf(list) \in SUBSET (Nat \ {0}) /\ IsFiniteSet(IdsOf(list))
<1>1. IdsOf(list) \in SUBSET (Nat \ {0})
  BY ModuleFields DEF IdsOf
<1>2. DOMAIN list = 1..Len(list) /\ Len(list) \in Nat
  OBVIOUS
<1>3. IsFiniteSet(1..Len(list))
  BY <1>2, FS_Interval
<1>4. OrderOf(list) \in Surjection(1..Len(list), IdsOf(list))
  BY <1>2 DEF Surjection, OrderOf, IdsOf
<1>5. IsFiniteSet(IdsOf(list))
  BY <1>3, <1>4, FS_Surjection
<1>6. QED
  BY <1>1, <1>5

LEMMA SmallestIs ==
  ASSUME NEW ids \in SUBSET Nat, IsFiniteSet(ids)
  PROVE  /\ SmallestNextId(ids) \in Nat \ {0}
         /\ \A id \in ids : id < SmallestNextId(ids)
         /\ \A next \in Nat \ {0} : (\A id \in ids : id < next) => SmallestNextId(ids) <= next
<1>1. CASE ids = {}
  BY <1>1 DEF SmallestNextId
<1>2. CASE ids # {}
  <2>1. PICK c : c = Cardinality(ids)
    OBVIOUS
  <2>2. PICK order : order = Ascending(ids)
    OBVIOUS
  <2>3. /\ c \in Nat /\ order \in [1..c -> ids]
        /\ \A i, j \in 1..c : i < j => order[i] < order[j]
        /\ \A x \in ids : \E n \in 1..c : order[n] = x
    BY <2>1, <2>2, AscendingSet
  <2>4. c \in 1..c
    <3>1. PICK x \in ids : TRUE
      BY <1>2
    <3>2. PICK n \in 1..c : order[n] = x
      BY <2>3
    <3>3. QED
      BY <2>3, <3>2
  <2>5. order[c] \in ids /\ \A x \in ids : order[c] >= x
    <3>1. \A n \in 1..c : n < c \/ n = c
      BY <2>3
    <3>2. \A n \in 1..c : order[n] \in Nat
      BY <2>3
    <3>3. \A n \in 1..c : order[n] <= order[c]
      BY <2>3, <2>4, <3>1, <3>2
    <3>4. QED
      BY <2>3, <2>4, <3>2, <3>3
  <2>6. PICK m : m = Max(ids)
    OBVIOUS
  <2>7. m \in ids /\ \A x \in ids : m >= x
    BY <2>5, <2>6 DEF Max
  <2>8. SmallestNextId(ids) = m + 1
    BY <1>2, <2>6 DEF SmallestNextId
  <2>9. m \in Nat /\ \A x \in ids : x \in Nat /\ x <= m
    BY <2>7
  <2>10. QED
    BY <2>7, <2>8, <2>9
<1>3. QED
  BY <1>1, <1>2

LEMMA NextIs ==
  ASSUME NEW ids \in SUBSET Nat, IsFiniteSet(ids), NEW next \in Nat
  PROVE  /\ NextIdAfter(next, ids) \in Nat \ {0}
         /\ \A id \in ids : id < NextIdAfter(next, ids)
         /\ next # 0 /\ (\A id \in ids : id < next) => NextIdAfter(next, ids) = next
<1>1. PICK least : least = SmallestNextId(ids)
  OBVIOUS
<1>2. /\ least \in Nat \ {0}
      /\ \A id \in ids : id < least
      /\ next # 0 /\ (\A id \in ids : id < next) => least <= next
  BY <1>1, SmallestIs
<1>3. PICK m : m = Max({next, least})
  OBVIOUS
<1>4. m = IF next >= least THEN next ELSE least
  <2>1. \E x \in {next, least} : \A y \in {next, least} : x >= y
    BY <1>2
  <2>2. m \in {next, least} /\ m >= next /\ m >= least
    BY <1>3, <2>1 DEF Max
  <2>3. QED
    BY <1>2, <2>2
<1>5. NextIdAfter(next, ids) = m
  BY <1>1, <1>3 DEF NextIdAfter
<1>6. \A id \in ids : id \in Nat
  OBVIOUS
<1>7. \A id \in ids : id < m
  BY <1>2, <1>4, <1>6
<1>8. QED
  BY <1>2, <1>4, <1>5, <1>7

LEMMA BlockIs ==
  ASSUME NEW block \in Blocks
  PROVE  /\ BlockModule(block) \in Modules
         /\ BlockModule(block).id = block.id
         /\ block \in Modules => BlockModule(block) = block
<1>1. CASE block \in [id : Nat \ {0}, columns : Int]
  <2>1. "size" \notin DOMAIN block /\ block.id \in Nat \ {0} /\ block.columns \in Int
    BY <1>1
  <2>2. BlockModule(block) = [id |-> block.id, columns |-> Clamp(block.columns)]
    BY <2>1 DEF BlockModule
  <2>3. Clamp(block.columns) \in Widths
    BY <2>1, ClampIs
  <2>4. block \in Modules => BlockModule(block) = block
    <3>1. SUFFICES ASSUME block \in Modules PROVE BlockModule(block) = block
      OBVIOUS
    <3>2. block = [id |-> block.id, columns |-> block.columns] /\ block.columns \in Widths
      BY <3>1 DEF Modules
    <3>3. Clamp(block.columns) = block.columns
      BY <2>1, <3>2, ClampIs
    <3>4. QED
      BY <2>2, <3>2, <3>3
  <2>5. QED
    BY <2>1, <2>2, <2>3, <2>4 DEF Modules
<1>2. CASE block \in [id : Nat \ {0}, size : Sizes]
  <2>1. "size" \in DOMAIN block /\ block.id \in Nat \ {0} /\ block.size \in Sizes
    BY <1>2
  <2>2. BlockModule(block) = [id |-> block.id, columns |-> LegacyColumns(block.size)]
    BY <2>1 DEF BlockModule
  <2>3. LegacyColumns(block.size) \in Widths
    BY <2>1 DEF LegacyColumns, Sizes, Widths, MinColumns, GridColumns
  <2>4. block \notin Modules
    BY <2>1 DEF Modules
  <2>5. QED
    BY <2>2, <2>3, <2>4, <2>1 DEF Modules
<1>3. QED
  BY <1>1, <1>2 DEF Blocks

\* The restored order lists every id that has a block once.
LEMMA RestoredOrderIs ==
  ASSUME NEW layout \in Seq(Nat), NEW ids \in SUBSET Nat, IsFiniteSet(ids)
  PROVE  /\ RestoredOrder(layout, ids) \in Seq(ids)
         /\ IsInjective(RestoredOrder(layout, ids))
         /\ IsInjective(layout) /\ ToSet(layout) = ids => RestoredOrder(layout, ids) = layout
<1>1. PICK places : places = {i \in DOMAIN layout :
        layout[i] \in ids /\ \A j \in 1..(i - 1) : layout[j] # layout[i]}
  OBVIOUS
<1>2. PICK first : first = Only(layout, places)
  OBVIOUS
<1>3. PICK rest : rest = ids \ ToSet(layout)
  OBVIOUS
<1>4. PICK last : last = Ascending(rest)
  OBVIOUS
<1>5. PICK p : p = Ascending(places)
  OBVIOUS
<1>6. RestoredOrder(layout, ids) = first \o last
  BY <1>1, <1>2, <1>3, <1>4 DEF RestoredOrder
<1>7. places \in SUBSET DOMAIN layout
      /\ \A i \in places : layout[i] \in ids /\ \A j \in 1..(i - 1) : layout[j] # layout[i]
  BY <1>1
<1>8. /\ first \in Seq(Nat) /\ p \in [DOMAIN first -> places]
      /\ \A i, j \in DOMAIN first : i < j => p[i] < p[j]
      /\ \A n \in DOMAIN first : first[n] = layout[p[n]]
  BY <1>2, <1>5, <1>7, OnlyPicks
<1>9. DOMAIN first = 1..Len(first) /\ Len(first) \in Nat
      /\ \A n \in DOMAIN first : p[n] \in places /\ p[n] \in DOMAIN layout /\ p[n] \in Nat \ {0}
  <2>1. DOMAIN layout = 1..Len(layout) /\ Len(layout) \in Nat
    OBVIOUS
  <2>2. \A i \in places : i \in DOMAIN layout /\ i \in Nat \ {0}
    BY <1>7, <2>1
  <2>3. QED
    BY <1>8, <2>2
<1>10. first \in Seq(ids)
  <2>1. \A n \in 1..Len(first) : first[n] \in ids
    BY <1>7, <1>8, <1>9
  <2>2. QED
    BY <1>8, <1>9, <2>1
<1>11. \A i, j \in DOMAIN first : i < j => first[i] # first[j]
  <2>1. SUFFICES ASSUME NEW i \in DOMAIN first, NEW j \in DOMAIN first, i < j
                 PROVE  first[i] # first[j]
    OBVIOUS
  <2>2. p[i] < p[j] /\ p[i] \in Nat \ {0} /\ p[j] \in Nat \ {0} /\ p[j] \in places
    BY <1>8, <1>9, <2>1
  <2>3. p[i] \in 1..(p[j] - 1)
    BY <2>2
  <2>4. QED
    BY <1>7, <1>8, <2>2, <2>3
<1>12. IsFiniteSet(rest) /\ rest \in SUBSET Int
  <2>1. rest \in SUBSET ids
    BY <1>3
  <2>2. IsFiniteSet(rest)
    BY <2>1, FS_Subset
  <2>3. rest \in SUBSET Int
    BY <2>1
  <2>4. QED
    BY <2>2, <2>3
<1>13. PICK c : c = Cardinality(rest)
  OBVIOUS
<1>14. /\ c \in Nat /\ last \in [1..c -> rest]
       /\ \A i, j \in 1..c : i < j => last[i] < last[j]
  BY <1>4, <1>12, <1>13, AscendingSet
<1>15. last \in Seq(ids) /\ Len(last) = c /\ DOMAIN last = 1..c
  <2>1. last \in [1..c -> ids]
    BY <1>3, <1>14
  <2>2. QED
    BY <1>14, <2>1
<1>16. PICK a \in Nat : a = Len(first)
  BY <1>9
<1>17. PICK all : all = first \o last
  OBVIOUS
<1>18. /\ all \in Seq(ids) /\ Len(all) = a + c
       /\ \A i \in 1..(a + c) : all[i] = IF i <= a THEN first[i] ELSE last[i - a]
  BY <1>10, <1>15, <1>16, <1>17, ConcatProperties
<1>19. \A i, j \in 1..(a + c) : i < j => all[i] # all[j]
  <2>1. SUFFICES ASSUME NEW i \in 1..(a + c), NEW j \in 1..(a + c), i < j
                 PROVE  all[i] # all[j]
    OBVIOUS
  <2>2. CASE j <= a
    <3>1. i \in DOMAIN first /\ j \in DOMAIN first /\ all[i] = first[i] /\ all[j] = first[j]
      BY <1>9, <1>14, <1>16, <1>18, <2>1, <2>2
    <3>2. QED
      BY <1>11, <2>1, <3>1
  <2>3. CASE i <= a /\ ~(j <= a)
    <3>1. i \in DOMAIN first /\ j - a \in 1..c /\ all[i] = first[i] /\ all[j] = last[j - a]
      BY <1>9, <1>14, <1>16, <1>18, <2>1, <2>3
    <3>2. first[i] \in ToSet(layout)
      BY <1>8, <1>9, <3>1 DEF ToSet
    <3>3. last[j - a] \notin ToSet(layout)
      BY <1>3, <1>14, <3>1
    <3>4. QED
      BY <3>1, <3>2, <3>3
  <2>4. CASE ~(i <= a)
    <3>1. i - a \in 1..c /\ j - a \in 1..c /\ i - a < j - a
          /\ all[i] = last[i - a] /\ all[j] = last[j - a]
      BY <1>14, <1>16, <1>18, <2>1, <2>4
    <3>2. last[i - a] < last[j - a]
      BY <1>14, <3>1
    <3>3. last[i - a] \in Nat /\ last[j - a] \in Nat
      BY <1>3, <1>14, <3>1
    <3>4. QED
      BY <3>1, <3>2, <3>3
  <2>5. QED
    BY <2>1, <2>2, <2>3, <2>4, <1>14, <1>16
<1>20. IsInjective(all)
  <2>1. DOMAIN all = 1..(a + c) /\ \A i, j \in 1..(a + c) : i < j \/ i = j \/ j < i
    BY <1>14, <1>16, <1>18
  <2>2. QED
    BY <1>19, <2>1 DEF IsInjective
<1>21. ASSUME IsInjective(layout), ToSet(layout) = ids
       PROVE  all = layout
  <2>1. places = DOMAIN layout
    <3>1. \A i \in DOMAIN layout : layout[i] \in ids /\ \A j \in 1..(i - 1) : layout[j] # layout[i]
      <4>1. SUFFICES ASSUME NEW i \in DOMAIN layout
                     PROVE  layout[i] \in ids /\ \A j \in 1..(i - 1) : layout[j] # layout[i]
        OBVIOUS
      <4>2. \A j \in 1..(i - 1) : j \in DOMAIN layout /\ j # i
        OBVIOUS
      <4>3. layout[i] \in ids
        BY <1>21 DEF ToSet
      <4>4. QED
        BY <1>21, <4>2, <4>3 DEF IsInjective
    <3>2. QED
      BY <1>1, <3>1
  <2>2. first = layout
    BY <1>2, <2>1, OnlyAll
  <2>3. rest = {}
    BY <1>3, <1>21
  <2>4. c = 0
    BY <1>13, <2>3, FS_EmptySet
  <2>5. last = <<>>
    BY <1>15, <2>4
  <2>6. QED
    BY <1>17, <2>2, <2>5, ConcatEmptySeq
<1>22. QED
  BY <1>6, <1>17, <1>18, <1>20, <1>21

\* What a stored layout restores to is a list of modules with different ids,
\* all below the next id.
LEMMA RestoreIs ==
  ASSUME NEW layout \in Layouts, Restore(layout) # Nothing
  PROVE  /\ Restore(layout).modules \in Seq(Modules)
         /\ IsInjective(OrderOf(Restore(layout).modules))
         /\ Restore(layout).nextModuleId \in Nat \ {0}
         /\ \A id \in IdsOf(Restore(layout).modules) : id < Restore(layout).nextModuleId
<1>1. layout.format # "unreadable" /\ IsInjective(OrderOf(layout.blocks))
  BY DEF Restore
<1>2. /\ layout.blocks \in Seq(Blocks) /\ layout.nextModuleId \in Nat
      /\ layout.format # "legacy" => layout.layout \in Seq(Nat)
  <2>1. CASE layout \in [format : {"legacy"}, nextModuleId : Nat, blocks : Seq(Blocks)]
    BY <2>1
  <2>2. CASE layout \in [format : {"v1", "v2"}, nextModuleId : Nat, blocks : Seq(Blocks),
                         layout : Seq(Nat \ {0})]
    <3>1. layout.layout \in Seq(Nat \ {0}) /\ layout.blocks \in Seq(Blocks)
          /\ layout.nextModuleId \in Nat
      BY <2>2
    <3>2. layout.layout \in Seq(Nat)
      BY <3>1, SeqMonotonic
    <3>3. QED
      BY <3>1, <3>2
  <2>3. QED
    BY <1>1, <2>1, <2>2 DEF Layouts
<1>3. PICK blocks : blocks = [i \in DOMAIN layout.blocks |-> BlockModule(layout.blocks[i])]
  OBVIOUS
<1>4. /\ blocks \in Seq(Modules) /\ DOMAIN blocks = DOMAIN layout.blocks
      /\ \A i \in DOMAIN blocks : blocks[i].id = layout.blocks[i].id
  <2>1. PICK raw \in Seq(Blocks) : raw = layout.blocks
    BY <1>2
  <2>2. DOMAIN raw = 1..Len(raw) /\ Len(raw) \in Nat /\ \A i \in DOMAIN raw : raw[i] \in Blocks
    OBVIOUS
  <2>3. blocks = [i \in 1..Len(raw) |-> BlockModule(raw[i])]
    BY <1>3, <2>1, <2>2
  <2>4. \A i \in 1..Len(raw) : blocks[i] \in Modules /\ blocks[i].id = raw[i].id
    BY <2>2, <2>3, BlockIs
  <2>5. blocks \in [1..Len(raw) -> Modules]
    BY <2>3, <2>4
  <2>6. DOMAIN blocks = 1..Len(raw) /\ blocks \in Seq(Modules)
    <3>1. PICK m \in Nat : m = Len(raw)
      BY <2>2
    <3>2. blocks \in [1..m -> Modules]
      BY <2>5, <3>1
    <3>3. QED
      BY ONLY <3>1, <3>2
  <2>7. QED
    BY <2>1, <2>2, <2>4, <2>6
<1>5. PICK ids : ids = IdsOf(blocks)
  OBVIOUS
<1>6. IsInjective(OrderOf(blocks))
  <2>1. OrderOf(blocks) = OrderOf(layout.blocks)
    BY <1>4 DEF OrderOf
  <2>2. QED
    BY <1>1, <2>1
<1>7. ids \in SUBSET Nat /\ IsFiniteSet(ids)
  BY <1>4, <1>5, IdsAreFinite
<1>8. PICK order : order = IF layout.format = "legacy" THEN OrderOf(blocks)
                           ELSE RestoredOrder(layout.layout, ids)
  OBVIOUS
<1>9. order \in Seq(ids) /\ IsInjective(order)
  <2>1. OrderOf(blocks) \in Seq(ids)
    <3>1. DOMAIN blocks = 1..Len(blocks) /\ Len(blocks) \in Nat
      BY <1>4
    <3>2. \A i \in DOMAIN blocks : blocks[i].id \in ids
      BY <1>5 DEF IdsOf
    <3>3. OrderOf(blocks) \in [1..Len(blocks) -> ids]
      BY <3>1, <3>2 DEF OrderOf
    <3>4. QED
      BY <3>1, <3>3
  <2>2. QED
    BY <1>2, <1>6, <1>7, <1>8, <2>1, RestoredOrderIs
<1>10. PICK modules : modules = [i \in DOMAIN order |-> ModuleOf(blocks, order[i])]
  OBVIOUS
<1>11. PICK next : next = NextIdAfter(layout.nextModuleId, ids)
  OBVIOUS
<1>12. Restore(layout) = [modules |-> modules, nextModuleId |-> next]
  BY <1>1, <1>3, <1>5, <1>8, <1>10, <1>11 DEF Restore
<1>13. /\ DOMAIN order = 1..Len(order) /\ Len(order) \in Nat /\ DOMAIN modules = DOMAIN order
       /\ \A i \in DOMAIN order : order[i] \in ids /\ modules[i] \in Modules
                                  /\ modules[i].id = order[i]
  <2>1. \A i \in DOMAIN order : order[i] \in ids
    BY <1>9
  <2>2. QED
    BY <1>4, <1>5, <1>9, <1>10, <2>1, ModuleIs
<1>14. modules \in Seq(Modules)
  <2>1. modules \in [1..Len(order) -> Modules]
    BY <1>10, <1>13
  <2>2. QED
    BY <1>13, <2>1
<1>15. IsInjective(OrderOf(modules))
  BY <1>9, <1>13 DEF IsInjective, OrderOf
<1>16. IdsOf(modules) \subseteq ids
  BY <1>13 DEF IdsOf
<1>17. next \in Nat \ {0} /\ \A id \in ids : id < next
  BY <1>2, <1>7, <1>11, NextIs
<1>18. QED
  BY <1>12, <1>14, <1>15, <1>16, <1>17

\* What is saved can be stored, and restores to exactly the modules and the
\* next id that were saved.
LEMMA SavedIsRestored ==
  ASSUME NEW modules \in Seq(Modules), NEW next \in Nat \ {0},
         IsInjective(OrderOf(modules)), \A id \in IdsOf(modules) : id < next
  PROVE  /\ Serialize(modules, next) \in Layouts
         /\ Restore(Serialize(modules, next)) = [modules |-> modules, nextModuleId |-> next]
<1>1. PICK ids : ids = IdsOf(modules)
  OBVIOUS
<1>2. ids \in SUBSET Nat /\ ids \in SUBSET (Nat \ {0}) /\ IsFiniteSet(ids)
  BY <1>1, IdsAreFinite
<1>3. PICK sorted : sorted = Ascending(ids)
  OBVIOUS
<1>4. PICK c : c = Cardinality(ids)
  OBVIOUS
<1>5. /\ c \in Nat /\ sorted \in [1..c -> ids]
      /\ \A i, j \in 1..c : i < j => sorted[i] < sorted[j]
      /\ \A x \in ids : \E n \in 1..c : sorted[n] = x
  <2>1. ids \in SUBSET Int
    BY <1>2
  <2>2. QED
    BY <1>2, <1>3, <1>4, <2>1, AscendingSet
<1>6. PICK blocks : blocks = [i \in DOMAIN sorted |-> ModuleOf(modules, sorted[i])]
  OBVIOUS
<1>7. PICK order : order = OrderOf(modules)
  OBVIOUS
<1>8. NextIdAfter(next, ids) = next
  BY <1>1, <1>2, NextIs
<1>9. Serialize(modules, next) =
        [format |-> "v2", nextModuleId |-> next, layout |-> order, blocks |-> blocks]
  <2>1. Serialize(modules, next) =
          [format |-> "v2",
           nextModuleId |-> NextIdAfter(next, IdsOf(Normalize(modules))),
           layout |-> OrderOf(Normalize(modules)),
           blocks |-> [i \in DOMAIN Ascending(IdsOf(Normalize(modules))) |->
                        ModuleOf(Normalize(modules), Ascending(IdsOf(Normalize(modules)))[i])]]
    BY DEF Serialize
  <2>2. QED
    BY <1>1, <1>3, <1>6, <1>7, <1>8, <2>1, NormalizeKeeps
<1>10. /\ DOMAIN blocks = 1..c
       /\ \A i \in 1..c : blocks[i] \in Modules /\ blocks[i].id = sorted[i] /\ sorted[i] \in ids
                          /\ blocks[i] = ModuleOf(modules, sorted[i])
  <2>1. DOMAIN sorted = 1..c /\ \A i \in 1..c : sorted[i] \in ids
    BY <1>5
  <2>2. QED
    BY <1>1, <1>6, <2>1, ModuleIs
<1>11. blocks \in Seq(Modules)
  <2>1. blocks \in [1..c -> Modules]
    BY <1>6, <1>10
  <2>2. QED
    BY <1>5, <2>1
<1>12. \A i, j \in 1..c : sorted[i] = sorted[j] => i = j
  <2>1. \A i, j \in 1..c : i < j \/ i = j \/ j < i
    BY <1>5
  <2>2. \A i \in 1..c : sorted[i] \in Nat
    BY <1>2, <1>5
  <2>3. \A i, j \in 1..c : i < j => sorted[i] # sorted[j]
    BY <1>5, <2>2
  <2>4. QED
    BY <2>1, <2>3
<1>13. IsInjective(OrderOf(blocks))
  BY <1>10, <1>12 DEF IsInjective, OrderOf
<1>14. IdsOf(blocks) = ids
  BY <1>5, <1>10 DEF IdsOf
<1>15. /\ DOMAIN modules = 1..Len(modules) /\ Len(modules) \in Nat
       /\ \A i \in DOMAIN modules : modules[i].id \in ids /\ modules[i].id \in Nat \ {0}
  BY <1>1, ModuleFields
<1>16. order \in Seq(Nat \ {0}) /\ order \in Seq(Nat) /\ ToSet(order) = ids
       /\ DOMAIN order = DOMAIN modules /\ IsInjective(order)
  <2>1. order \in [1..Len(modules) -> Nat \ {0}]
    BY <1>7, <1>15 DEF OrderOf
  <2>2. order \in [1..Len(modules) -> Nat]
    BY <1>7, <1>15 DEF OrderOf
  <2>3. DOMAIN order = DOMAIN modules /\ ToSet(order) = ids
    BY <1>1, <1>7 DEF OrderOf, ToSet, IdsOf
  <2>4. QED
    BY <1>7, <1>15, <2>1, <2>2, <2>3
<1>17. PICK layout : layout = Serialize(modules, next)
  OBVIOUS
<1>18. blocks \in Seq(Blocks)
  <2>1. Modules \subseteq Blocks
    BY DEF Modules, Blocks, Widths, MinColumns, GridColumns
  <2>2. QED
    BY <1>11, <2>1, SeqMonotonic
<1>19. /\ layout.format = "v2" /\ layout.nextModuleId = next /\ layout.layout = order
       /\ layout.blocks = blocks /\ layout \in Layouts
  <2>1. layout.format = "v2" /\ layout.nextModuleId = next /\ layout.layout = order
        /\ layout.blocks = blocks
    BY <1>9, <1>17
  <2>2. layout \in [format : {"v1", "v2"}, nextModuleId : Nat, blocks : Seq(Blocks),
                    layout : Seq(Nat \ {0})]
    BY <1>9, <1>16, <1>17, <1>18
  <2>3. layout \in Layouts
    BY <2>2 DEF Layouts
  <2>4. QED
    BY <2>1, <2>3
<1>20. [i \in DOMAIN layout.blocks |-> BlockModule(layout.blocks[i])] = blocks
  <2>1. \A i \in DOMAIN blocks : BlockModule(blocks[i]) = blocks[i]
    <3>1. \A i \in DOMAIN blocks : blocks[i] \in Modules /\ blocks[i] \in Blocks
      <4>1. Modules \subseteq Blocks
        BY DEF Modules, Blocks, Widths, MinColumns, GridColumns
      <4>2. QED
        BY <1>10, <4>1
    <3>2. QED
      BY <3>1, BlockIs
  <2>2. [i \in DOMAIN blocks |-> BlockModule(blocks[i])] = [i \in DOMAIN blocks |-> blocks[i]]
    BY <2>1
  <2>3. [i \in DOMAIN blocks |-> blocks[i]] = blocks
    BY <1>6
  <2>4. QED
    BY <1>19, <2>2, <2>3
<1>21. RestoredOrder(order, ids) = order
  BY <1>2, <1>16, RestoredOrderIs
<1>22. Restore(layout) = [modules |-> [i \in DOMAIN order |-> ModuleOf(blocks, order[i])],
                          nextModuleId |-> next]
  <2>1. PICK restored : restored = [i \in DOMAIN layout.blocks |-> BlockModule(layout.blocks[i])]
    OBVIOUS
  <2>2. restored = blocks
    BY <1>20, <2>1
  <2>3. PICK sequence : sequence = IF layout.format = "legacy" THEN OrderOf(restored)
                                   ELSE RestoredOrder(layout.layout, IdsOf(restored))
    OBVIOUS
  <2>4. sequence = order
    BY <1>14, <1>19, <1>21, <2>2, <2>3
  <2>5. Restore(layout) = [modules |-> [i \in DOMAIN sequence |-> ModuleOf(restored, sequence[i])],
                           nextModuleId |-> NextIdAfter(layout.nextModuleId, IdsOf(restored))]
    BY <1>13, <1>19, <2>1, <2>3 DEF Restore
  <2>6. QED
    BY <1>8, <1>14, <1>19, <2>2, <2>4, <2>5
<1>23. \A i \in DOMAIN modules : ModuleOf(blocks, order[i]) = modules[i]
  <2>1. SUFFICES ASSUME NEW i \in DOMAIN modules
                 PROVE  ModuleOf(blocks, order[i]) = modules[i]
    OBVIOUS
  <2>2. order[i] = modules[i].id /\ order[i] \in ids
    BY <1>7, <1>15 DEF OrderOf
  <2>3. PICK n \in 1..c : sorted[n] = order[i]
    BY <1>5, <2>2
  <2>4. n \in DOMAIN blocks /\ blocks[n].id = order[i] /\ blocks[n] = ModuleOf(modules, order[i])
    BY <1>10, <2>3
  <2>5. ModuleOf(blocks, order[i]) = blocks[n]
    BY <1>11, <1>13, <1>14, <2>2, <2>4, ModuleIs
  <2>6. ModuleOf(modules, order[i]) = modules[i]
    BY <1>1, <2>2, ModuleIs
  <2>7. QED
    BY <2>4, <2>5, <2>6
<1>24. [i \in DOMAIN order |-> ModuleOf(blocks, order[i])] = modules
  <2>1. [i \in DOMAIN order |-> ModuleOf(blocks, order[i])] = [i \in DOMAIN modules |-> modules[i]]
    BY <1>16, <1>23
  <2>2. QED
    BY <1>15, <2>1
<1>25. QED
  BY <1>17, <1>19, <1>22, <1>24

-----------------------------------------------------------------------------
(* Rows. *)

\* Where the row of the module at i starts, from where that of the one before
\* it does.
RowStep(h, list, i) ==
  IF i = 1 THEN 1 ELSE IF Fits(list, h[i - 1], i) THEN h[i - 1] ELSE i

AreRows(h, list, places) == h = [i \in places |-> RowStep(h, list, i)]

LEMMA RowStartsAre ==
  ASSUME NEW list
  PROVE  RowStarts(list) = CHOOSE h : AreRows(h, list, DOMAIN list)
  BY DEF RowStarts, AreRows, RowStep

LEMMA RowsExist ==
  ASSUME NEW list, NEW e \in Nat
  PROVE  \E h : AreRows(h, list, 1..e)
<1> DEFINE Defined(n) == \E h : AreRows(h, list, 1..n)
           B == {n \in Nat : ~Defined(n)}
<1>1. Defined(0)
  <2> DEFINE h == [i \in 1..0 |-> 1]
  <2>1. h = [i \in 1..0 |-> RowStep(h, list, i)]
    OBVIOUS
  <2> HIDE DEF h
  <2>2. QED
    BY <2>1 DEF AreRows
<1>2. ASSUME NEW m \in Nat, Defined(m)
      PROVE  Defined(m + 1)
  <2>1. PICK h : AreRows(h, list, 1..m)
    BY <1>2
  <2> DEFINE k == [i \in 1..(m + 1) |-> RowStep(h, list, i)]
  <2>2. \A i \in 1..m : k[i] = h[i]
    BY <2>1 DEF AreRows
  <2>3. \A i \in 1..(m + 1) : i = 1 \/ i - 1 \in 1..m
    OBVIOUS
  <2> HIDE DEF k
  <2>4. \A i \in 1..(m + 1) : RowStep(k, list, i) = RowStep(h, list, i)
    BY <2>2, <2>3 DEF RowStep
  <2>5. k = [i \in 1..(m + 1) |-> RowStep(k, list, i)]
    BY <2>4 DEF k
  <2>6. QED
    BY <2>5 DEF AreRows
<1> HIDE DEF Defined
<1>3. B = {}
  <2>1. SUFFICES ASSUME B # {} PROVE FALSE
    OBVIOUS
  <2>2. PICK n \in B : \A k \in B : n <= k
    <3>1. B \in SUBSET Nat
      OBVIOUS
    <3>2. QED
      BY <2>1, <3>1, LeastNumber
  <2>3. n # 0 /\ n \in Nat /\ ~Defined(n)
    BY <1>1
  <2>4. n - 1 \in Nat /\ ~(n <= n - 1) /\ n = (n - 1) + 1
    BY <2>3
  <2>5. n - 1 \notin B
    BY <2>2, <2>4
  <2>6. Defined((n - 1) + 1)
    BY <1>2, <2>4, <2>5
  <2>7. QED
    BY <2>3, <2>4, <2>6
<1>4. QED
  BY <1>3 DEF Defined

LEMMA StartsStep ==
  ASSUME NEW list, NEW n \in Nat, DOMAIN list = 1..n
  PROVE  /\ DOMAIN RowStarts(list) = 1..n
         /\ \A i \in 1..n : RowStarts(list)[i] = RowStep(RowStarts(list), list, i)
<1>1. PICK start : start = RowStarts(list)
  OBVIOUS
<1>2. PICK places : places = DOMAIN list
  OBVIOUS
<1>3. \E h : AreRows(h, list, places)
  BY <1>2, RowsExist
<1>4. start = CHOOSE h : AreRows(h, list, places)
  BY <1>1, <1>2, RowStartsAre
<1>5. AreRows(start, list, places)
  BY <1>3, <1>4
<1>6. QED
  BY <1>1, <1>2, <1>5 DEF AreRows

\* The columns of some modules in a row of the list.
LEMMA BetweenAdds ==
  ASSUME NEW list \in Seq(Modules), NEW n \in Nat, DOMAIN list = 1..n,
         NEW from \in Nat \ {0}, NEW to \in 0..n
  PROVE  /\ ColumnsBetween(list, from, to) \in Int
         /\ from > to => ColumnsBetween(list, from, to) = 0
         /\ from <= to => ColumnsBetween(list, from, to) =
                            ColumnsBetween(list, from, to - 1) + list[to].columns
<1>1. PICK w : w = WidthsOf(list)
  OBVIOUS
<1>2. \A i \in 1..n : w[i] = list[i].columns /\ w[i] \in Int
  BY <1>1, ModuleFields DEF WidthsOf
<1>3. /\ ColumnsBetween(list, from, to) = SumFunctionOnSet(w, from..to)
      /\ ColumnsBetween(list, from, to - 1) = SumFunctionOnSet(w, from..(to - 1))
  BY <1>1 DEF ColumnsBetween
<1>4. IsFiniteSet(from..to) /\ \A i \in from..to : w[i] \in Int
  <2>1. IsFiniteSet(from..to)
    BY FS_Interval
  <2>2. \A i \in from..to : i \in 1..n
    OBVIOUS
  <2>3. QED
    BY <1>2, <2>1, <2>2
<1>5. /\ SumFunctionOnSet(w, from..to) \in Int
      /\ from..to = {} => SumFunctionOnSet(w, from..to) = 0
      /\ \A x \in from..to :
           SumFunctionOnSet(w, from..to) = w[x] + SumFunctionOnSet(w, (from..to) \ {x})
  BY <1>4, SumAdds
<1>6. CASE from > to
  <2>1. from..to = {}
    BY <1>6
  <2>2. ~(from <= to)
    BY <1>6
  <2>3. QED
    BY <1>3, <1>5, <2>1, <2>2
<1>7. CASE from <= to
  <2>1. to \in from..to /\ (from..to) \ {to} = from..(to - 1) /\ to \in 1..n
    BY <1>7
  <2>2. SumFunctionOnSet(w, from..to) = w[to] + SumFunctionOnSet(w, from..(to - 1))
    BY <1>5, <2>1
  <2>3. IsFiniteSet(from..(to - 1)) /\ \A i \in from..(to - 1) : w[i] \in Int
    <3>1. IsFiniteSet(from..(to - 1))
      BY FS_Interval
    <3>2. \A i \in from..(to - 1) : i \in 1..n
      OBVIOUS
    <3>3. QED
      BY <1>2, <3>1, <3>2
  <2>4. SumFunctionOnSet(w, from..(to - 1)) \in Int
    BY <2>3, SumAdds
  <2>5. ~(from > to)
    BY <1>7
  <2>6. QED
    BY <1>2, <1>3, <1>5, <2>1, <2>2, <2>4, <2>5
<1>8. QED
  BY <1>6, <1>7

\* A row is the modules from its start on, as long as they fit.
IsRow(start, list, i) ==
  /\ start[i] \in 1..i
  /\ \A j \in start[i]..i : start[j] = start[i]
  /\ ColumnsBetween(list, start[i], i) <= GridColumns

LEMMA RowsFill ==
  ASSUME NEW list \in Seq(Modules), NEW n \in Nat, DOMAIN list = 1..n,
         NEW start, \A i \in 1..n : start[i] = RowStep(start, list, i)
  PROVE  \A i \in 1..n : IsRow(start, list, i)
<1> DEFINE B == {i \in 1..n : ~IsRow(start, list, i)}
<1>1. SUFFICES ASSUME B # {} PROVE FALSE
  OBVIOUS
<1>2. PICK i \in B : \A j \in B : i <= j
  <2>1. B \in SUBSET Nat
    OBVIOUS
  <2>2. QED
    BY <1>1, <2>1, LeastNumber
<1>3. i \in 1..n /\ ~IsRow(start, list, i) /\ start[i] = RowStep(start, list, i)
  OBVIOUS
<1>4. ASSUME start[i] = i PROVE FALSE
  <2>1. start[i] \in 1..i /\ \A j \in start[i]..i : start[j] = start[i]
    BY <1>3, <1>4
  <2>2. /\ ColumnsBetween(list, i, i) = ColumnsBetween(list, i, i - 1) + list[i].columns
        /\ ColumnsBetween(list, i, i - 1) = 0
    <3>1. i \in Nat \ {0} /\ i \in 0..n /\ i - 1 \in 0..n /\ i <= i /\ i > i - 1
      BY <1>3
    <3>2. QED
      BY <3>1, BetweenAdds
  <2>3. list[i].columns \in Widths
    BY <1>3, ModuleFields
  <2>4. ColumnsBetween(list, i, i) <= GridColumns
    BY <2>2, <2>3 DEF Widths, MinColumns, GridColumns
  <2>5. QED
    BY <1>3, <1>4, <2>1, <2>4 DEF IsRow
<1>5. i # 1 /\ Fits(list, start[i - 1], i) /\ start[i] = start[i - 1]
  BY <1>3, <1>4 DEF RowStep
<1>6. PICK k \in 1..n : k = i - 1
  BY <1>3, <1>5
<1>7. IsRow(start, list, k)
  <2>1. ~(i <= k)
    BY <1>3, <1>6
  <2>2. k \notin B
    BY <1>2, <2>1
  <2>3. QED
    BY <2>2
<1>8. start[i] = start[k] /\ start[k] \in 1..k /\ \A j \in start[k]..k : start[j] = start[k]
  BY <1>5, <1>6, <1>7 DEF IsRow
<1>9. start[i] \in 1..i /\ \A j \in start[i]..i : start[j] = start[i]
  <2>1. \A j \in start[k]..i : j \in start[k]..k \/ j = i
    BY <1>3, <1>6, <1>8
  <2>2. start[i] \in 1..i
    BY <1>3, <1>6, <1>8
  <2>3. QED
    BY <1>8, <2>1, <2>2
<1>10. ColumnsBetween(list, start[i], i) <= GridColumns
  BY <1>5 DEF Fits
<1>11. QED
  BY <1>3, <1>9, <1>10 DEF IsRow

\* Where a module of the list starts a row, and where it joins the one before.
LEMMA RowsJoin ==
  ASSUME NEW list \in Seq(Modules), NEW n \in Nat, DOMAIN list = 1..n,
         NEW start, \A i \in 1..n : start[i] = RowStep(start, list, i)
  PROVE  /\ \A i, j \in 1..n : i <= j => start[i] <= start[j]
         /\ \A i \in 1..n : i > 1 =>
              \/ start[i] = start[i - 1]
              \/ /\ start[i] = i
                 /\ ColumnsBetween(list, start[i - 1], i) > GridColumns
<1>1. \A i \in 1..n : start[i] \in 1..i /\ \A j \in start[i]..i : start[j] = start[i]
  BY RowsFill DEF IsRow
<1>2. ASSUME NEW i \in 1..n, NEW j \in 1..n, i <= j PROVE start[i] <= start[j]
  <2>1. start[i] \in 1..i /\ start[j] \in 1..j
    BY <1>1
  <2>2. CASE start[j] <= i
    <3>1. i \in start[j]..j
      BY <1>2, <2>1, <2>2
    <3>2. start[i] = start[j]
      BY <1>1, <3>1
    <3>3. QED
      BY <2>1, <3>2
  <2>3. CASE ~(start[j] <= i)
    BY <2>1, <2>3
  <2>4. QED
    BY <2>2, <2>3
<1>3. ASSUME NEW i \in 1..n, i > 1, start[i] # start[i - 1]
      PROVE  start[i] = i /\ ColumnsBetween(list, start[i - 1], i) > GridColumns
  <2>1. start[i] = i /\ ~Fits(list, start[i - 1], i)
    BY <1>3 DEF RowStep
  <2>2. PICK c : c = ColumnsBetween(list, start[i - 1], i)
    OBVIOUS
  <2>3. c \in Int
    <3>1. i - 1 \in 1..n
      BY <1>3
    <3>2. start[i - 1] \in Nat \ {0} /\ i \in 0..n
      BY <1>1, <3>1
    <3>3. QED
      BY <2>2, <3>2, BetweenAdds
  <2>4. ~(c <= GridColumns)
    BY <2>1, <2>2 DEF Fits
  <2>5. c > GridColumns
    BY <2>3, <2>4 DEF GridColumns
  <2>6. QED
    BY <2>1, <2>2, <2>5
<1>4. QED
  BY <1>2, <1>3

\* The number of rows that start no later than that of a module.
RowsUpTo(start, i) == Cardinality({start[j] : j \in 1..i})

LEMMA RowsCount ==
  ASSUME NEW n \in Nat, NEW start, \A i \in 1..n : start[i] \in 1..i,
         \A i, j \in 1..n : i <= j => start[i] <= start[j]
  PROVE  /\ \A i \in 1..n : RowsUpTo(start, i) \in Nat
         /\ \A i \in 1..n : i > 1 /\ start[i] = i =>
              RowsUpTo(start, i) = RowsUpTo(start, i - 1) + 1
         /\ \A i, j \in 1..n : start[i] = start[j] <=> RowsUpTo(start, i) = RowsUpTo(start, j)
<1> DEFINE R(i) == {start[j] : j \in 1..i}
<1>1. ASSUME NEW i \in 1..n PROVE IsFiniteSet(R(i)) /\ Cardinality(R(i)) \in Nat
  <2>1. R(i) \in SUBSET (1..i)
    <3>1. \A j \in 1..i : j \in 1..n /\ start[j] \in 1..j
      OBVIOUS
    <3>2. \A j \in 1..i : start[j] \in 1..i
      BY <3>1
    <3>3. QED
      BY <3>2
  <2>2. IsFiniteSet(1..i)
    BY FS_Interval
  <2> HIDE DEF R
  <2>3. IsFiniteSet(R(i))
    BY <2>1, <2>2, FS_Subset
  <2>4. QED
    BY <2>3, FS_CardinalityType
<1>2. ASSUME NEW i \in 1..n, i > 1, start[i] = i
      PROVE  Cardinality(R(i)) = Cardinality(R(i - 1)) + 1
  <2>1. i - 1 \in 1..n
    BY <1>2
  <2>2. R(i) = R(i - 1) \cup {i}
    <3>1. \A j \in 1..i : j \in 1..(i - 1) \/ j = i
      OBVIOUS
    <3>2. \A j \in 1..(i - 1) : j \in 1..i
      OBVIOUS
    <3>3. i \in 1..i
      OBVIOUS
    <3>4. QED
      BY <1>2, <3>1, <3>2, <3>3
  <2>3. i \notin R(i - 1)
    <3>1. \A j \in 1..(i - 1) : j \in 1..n /\ start[j] \in 1..j
      BY <1>2
    <3>2. \A j \in 1..(i - 1) : start[j] # i
      BY <3>1
    <3>3. QED
      BY <3>2
  <2>4. IsFiniteSet(R(i - 1))
    BY <1>1, <2>1
  <2> HIDE DEF R
  <2>5. QED
    BY <2>2, <2>3, <2>4, FS_AddElement
<1>3. ASSUME NEW i \in 1..n, NEW j \in 1..n, i <= j, start[i] = start[j]
      PROVE  R(i) = R(j)
  <2>1. \A k \in 1..i : k \in 1..j
    BY <1>3
  <2>2. ASSUME NEW k \in 1..j PROVE start[k] \in R(i)
    <3>1. CASE k \in 1..i
      BY <3>1
    <3>2. CASE k \notin 1..i
      <4>1. k \in 1..n /\ i <= k /\ k <= j
        BY <3>2
      <4>2. start[i] <= start[k] /\ start[k] <= start[j]
        BY <4>1
      <4>3. start[k] \in Int /\ start[i] \in Int
        <5>1. start[k] \in 1..k /\ start[i] \in 1..i
          BY <4>1
        <5>2. QED
          BY <5>1
      <4>4. start[k] = start[i] /\ i \in 1..i
        BY <1>3, <4>2, <4>3
      <4>5. QED
        BY <4>4
    <3>3. QED
      BY <3>1, <3>2
  <2>3. QED
    BY <2>1, <2>2
<1>4. ASSUME NEW i \in 1..n, NEW j \in 1..n, i <= j, start[i] # start[j]
      PROVE  Cardinality(R(i)) # Cardinality(R(j))
  <2>1. R(i) \in SUBSET R(j)
    <3>1. \A k \in 1..i : k \in 1..j
      BY <1>4
    <3>2. QED
      BY <3>1
  <2>2. start[j] \in R(j)
    <3>1. j \in 1..j
      OBVIOUS
    <3>2. QED
      BY <3>1
  <2>3. start[j] \notin R(i)
    <3>1. ASSUME NEW k \in 1..i PROVE start[k] # start[j]
      <4>1. k \in 1..n /\ k <= i
        OBVIOUS
      <4>2. start[k] <= start[i] /\ start[i] <= start[j]
        BY <1>4, <4>1
      <4>3. start[k] \in Int /\ start[i] \in Int /\ start[j] \in Int
        <5>1. start[k] \in 1..k /\ start[i] \in 1..i /\ start[j] \in 1..j
          BY <4>1
        <5>2. QED
          BY <5>1
      <4>4. QED
        BY <1>4, <4>2, <4>3
    <3>2. QED
      BY <3>1
  <2>4. IsFiniteSet(R(j))
    BY <1>1
  <2> HIDE DEF R
  <2>5. R(i) # R(j)
    BY <2>2, <2>3
  <2>6. QED
    BY <2>1, <2>4, <2>5, FS_Subset
<1>5. \A i, j \in 1..n : i <= j \/ j <= i
  OBVIOUS
<1> HIDE DEF R
<1>6. \A i, j \in 1..n : start[i] = start[j] <=> Cardinality(R(i)) = Cardinality(R(j))
  BY <1>3, <1>4, <1>5
<1>7. \A i \in 1..n : Cardinality(R(i)) = RowsUpTo(start, i)
  BY DEF R, RowsUpTo
<1>8. \A i \in 1..n : i > 1 => Cardinality(R(i - 1)) = RowsUpTo(start, i - 1)
  BY DEF R, RowsUpTo
<1>9. QED
  BY <1>1, <1>2, <1>6, <1>7, <1>8

LEMMA BetweenIsNat ==
  ASSUME NEW list \in Seq(Modules), NEW n \in Nat, DOMAIN list = 1..n,
         NEW from \in Nat \ {0}, NEW to \in 0..n
  PROVE  ColumnsBetween(list, from, to) >= 0
<1> DEFINE Below(k) == ColumnsBetween(list, from, k) < 0
           B == {k \in 0..n : Below(k)}
<1>1. \A k \in 0..n : ColumnsBetween(list, from, k) \in Int
  BY BetweenAdds
<1>2. SUFFICES ASSUME B # {} PROVE FALSE
  <2>1. ~Below(to)
    OBVIOUS
  <2>2. QED
    BY <1>1, <2>1
<1>3. PICK k \in B : \A i \in B : k <= i
  <2>1. B \in SUBSET Nat
    OBVIOUS
  <2> HIDE DEF B
  <2>2. QED
    BY <1>2, <2>1, LeastNumber
<1>4. k \in 0..n /\ Below(k)
  OBVIOUS
<1>5. CASE from > k
  <2>1. ColumnsBetween(list, from, k) = 0
    BY <1>4, <1>5, BetweenAdds
  <2>2. QED
    BY <1>4, <2>1
<1>6. CASE from <= k
  <2>1. k - 1 \in 0..n /\ k \in 1..n /\ ~(k <= k - 1)
    BY <1>4, <1>6
  <2>2. ColumnsBetween(list, from, k) = ColumnsBetween(list, from, k - 1) + list[k].columns
    BY <1>4, <1>6, BetweenAdds
  <2>3. ~Below(k - 1)
    BY <1>3, <2>1
  <2>4. list[k].columns \in Widths
    BY <2>1, ModuleFields
  <2>5. ColumnsBetween(list, from, k - 1) \in Int /\ ColumnsBetween(list, from, k - 1) >= 0
    BY <1>1, <2>1, <2>3
  <2>6. ColumnsBetween(list, from, k) \in Int /\ ColumnsBetween(list, from, k) < 0
    BY <1>1, <1>4
  <2>7. list[k].columns \in Int /\ list[k].columns >= 0
    BY <2>4 DEF Widths, MinColumns, GridColumns
  <2>8. QED
    BY ONLY <2>2, <2>5, <2>6, <2>7
<1>7. QED
  BY <1>4, <1>5, <1>6

\* No other module shares the row.
Alone(start, n, i) == \A j \in (1..n) \ {i} : start[j] # start[i]

LEMMA PackIs ==
  ASSUME NEW list \in Seq(Modules), NEW n \in Nat, DOMAIN list = 1..n,
         NEW start, start = RowStarts(list)
  PROVE  /\ DOMAIN Pack(list) = 1..n
         /\ \A i \in 1..n :
              /\ Pack(list)[i].rowIndex = RowsUpTo(start, i) - 1
              /\ Pack(list)[i].columnStart = IF Alone(start, n, i) THEN 1
                                             ELSE 1 + ColumnsBetween(list, start[i], i - 1)
              /\ Pack(list)[i].columnSpan = IF Alone(start, n, i) THEN GridColumns
                                            ELSE list[i].columns
<1>1. Normalize(list) = list
  BY NormalizeKeeps
<1>2. PICK packed : packed = Pack(list)
  OBVIOUS
<1>3. packed = [i \in 1..n |->
                 [id |-> list[i].id,
                  columnStart |-> IF Alone(start, n, i) THEN 1
                                  ELSE 1 + ColumnsBetween(list, start[i], i - 1),
                  columnSpan |-> IF Alone(start, n, i) THEN GridColumns ELSE list[i].columns,
                  rowIndex |-> RowsUpTo(start, i) - 1]]
  BY <1>1, <1>2 DEF Pack, Alone, RowsUpTo
<1>4. QED
  BY <1>2, <1>3

\* Where the columns of a module end.
EndOf(packed, i) == packed[i].columnStart + packed[i].columnSpan

LEMMA PackedFits ==
  ASSUME NEW list \in Seq(Modules), NEW n \in Nat, DOMAIN list = 1..n, NEW i \in 1..n
  PROVE  /\ Pack(list)[i].columnStart >= 1 /\ EndOf(Pack(list), i) <= GridColumns + 1
         /\ i > 1 =>
              \/ /\ Pack(list)[i].rowIndex = Pack(list)[i - 1].rowIndex
                 /\ Pack(list)[i].columnStart = EndOf(Pack(list), i - 1)
              \/ /\ Pack(list)[i].rowIndex = Pack(list)[i - 1].rowIndex + 1
                 /\ Pack(list)[i].columnStart = 1
                 /\ \E first \in Nat \ {0} :
                      /\ {j \in 1..n : Pack(list)[j].rowIndex = Pack(list)[i - 1].rowIndex}
                           = first..(i - 1)
                      /\ ColumnsBetween(list, first, i - 1) + list[i].columns > GridColumns
<1>1. PICK start : start = RowStarts(list)
  OBVIOUS
<1>2. PICK packed : packed = Pack(list)
  OBVIOUS
<1>3. \A k \in 1..n :
        /\ packed[k].rowIndex = RowsUpTo(start, k) - 1
        /\ packed[k].columnStart = IF Alone(start, n, k) THEN 1
                                   ELSE 1 + ColumnsBetween(list, start[k], k - 1)
        /\ packed[k].columnSpan = IF Alone(start, n, k) THEN GridColumns ELSE list[k].columns
  BY <1>1, <1>2, PackIs
<1>4. \A k \in 1..n : start[k] = RowStep(start, list, k)
  BY <1>1, StartsStep
<1>5. \A k \in 1..n : /\ start[k] \in 1..k
                      /\ \A j \in start[k]..k : start[j] = start[k]
                      /\ ColumnsBetween(list, start[k], k) <= GridColumns
  BY <1>4, RowsFill DEF IsRow
<1>6. /\ \A k, j \in 1..n : k <= j => start[k] <= start[j]
      /\ \A k \in 1..n : k > 1 =>
           \/ start[k] = start[k - 1]
           \/ /\ start[k] = k
              /\ ColumnsBetween(list, start[k - 1], k) > GridColumns
  BY <1>4, RowsJoin
<1>7. /\ \A k \in 1..n : RowsUpTo(start, k) \in Nat
      /\ \A k \in 1..n : k > 1 /\ start[k] = k =>
           RowsUpTo(start, k) = RowsUpTo(start, k - 1) + 1
      /\ \A k, j \in 1..n : start[k] = start[j] <=> RowsUpTo(start, k) = RowsUpTo(start, j)
  <2>1. (\A k \in 1..n : start[k] \in 1..k) /\ (\A k, j \in 1..n : k <= j => start[k] <= start[j])
    BY <1>5, <1>6
  <2>2. QED
    BY <2>1, RowsCount
<1>8. ASSUME NEW k \in 1..n
      PROVE  /\ list[k].columns \in Int
             /\ ColumnsBetween(list, start[k], k - 1) \in Nat
             /\ ColumnsBetween(list, start[k], k) =
                  ColumnsBetween(list, start[k], k - 1) + list[k].columns
  <2>1. start[k] \in Nat \ {0} /\ start[k] <= k /\ k \in 0..n /\ k - 1 \in 0..n
    <3>1. start[k] \in 1..k
      BY <1>5
    <3>2. QED
      BY <3>1
  <2>2. /\ ColumnsBetween(list, start[k], k - 1) \in Int
        /\ ColumnsBetween(list, start[k], k - 1) >= 0
    BY <2>1, BetweenAdds, BetweenIsNat
  <2>3. ColumnsBetween(list, start[k], k) =
          ColumnsBetween(list, start[k], k - 1) + list[k].columns
    BY <2>1, BetweenAdds
  <2>4. list[k].columns \in Int
    BY ModuleFields
  <2>5. QED
    BY <2>2, <2>3, <2>4
<1>9. \A k \in 1..n : ~Alone(start, n, k) =>
        EndOf(packed, k) = 1 + ColumnsBetween(list, start[k], k)
  <2>1. ASSUME NEW k \in 1..n, ~Alone(start, n, k)
        PROVE  EndOf(packed, k) = 1 + ColumnsBetween(list, start[k], k)
    <3>1. EndOf(packed, k) = (1 + ColumnsBetween(list, start[k], k - 1)) + list[k].columns
      BY <1>3, <2>1 DEF EndOf
    <3>2. QED
      BY <1>8, <3>1
  <2>2. QED
    BY <2>1
<1>10. packed[i].columnStart >= 1 /\ EndOf(packed, i) <= GridColumns + 1
  <2>1. CASE Alone(start, n, i)
    <3>1. packed[i].columnStart = 1 /\ packed[i].columnSpan = GridColumns
      BY <1>3, <2>1
    <3>2. QED
      BY <3>1 DEF EndOf, GridColumns
  <2>2. CASE ~Alone(start, n, i)
    <3>1. EndOf(packed, i) = 1 + ColumnsBetween(list, start[i], i)
      BY <1>9, <2>2
    <3>2. /\ ColumnsBetween(list, start[i], i) \in Int
          /\ ColumnsBetween(list, start[i], i) <= GridColumns
      <4>1. ColumnsBetween(list, start[i], i) <= GridColumns
        BY <1>5
      <4>2. /\ list[i].columns \in Int
            /\ ColumnsBetween(list, start[i], i - 1) \in Nat
            /\ ColumnsBetween(list, start[i], i) =
                 ColumnsBetween(list, start[i], i - 1) + list[i].columns
        BY <1>8
      <4>3. QED
        BY <4>1, <4>2
    <3>3. packed[i].columnStart = 1 + ColumnsBetween(list, start[i], i - 1)
      BY <1>3, <2>2
    <3>4. packed[i].columnStart >= 1
      BY <1>8, <3>3
    <3>5. QED
      BY <3>1, <3>2, <3>4 DEF GridColumns
  <2>3. QED
    BY <2>1, <2>2
<1>11. ASSUME i > 1, start[i] = start[i - 1]
       PROVE  /\ packed[i].rowIndex = packed[i - 1].rowIndex
              /\ packed[i].columnStart = EndOf(packed, i - 1)
  <2>1. PICK k \in 1..n : k = i - 1
    BY <1>11
  <2>2. start[i] = start[k] /\ i # k
    BY <1>11, <2>1
  <2>3. ~Alone(start, n, i) /\ ~Alone(start, n, k)
    BY <2>2 DEF Alone
  <2>4. RowsUpTo(start, i) = RowsUpTo(start, k)
    BY <1>7, <2>2
  <2>5. packed[i].rowIndex = packed[k].rowIndex
    BY <1>3, <2>4
  <2>6. packed[i].columnStart = 1 + ColumnsBetween(list, start[k], k)
    BY <1>3, <2>1, <2>2, <2>3
  <2>7. EndOf(packed, k) = 1 + ColumnsBetween(list, start[k], k)
    BY <1>9, <2>3
  <2>8. QED
    BY <2>1, <2>5, <2>6, <2>7
<1>12. ASSUME i > 1, start[i] # start[i - 1]
       PROVE  /\ packed[i].rowIndex = packed[i - 1].rowIndex + 1
              /\ packed[i].columnStart = 1
              /\ \E first \in Nat \ {0} :
                   /\ {j \in 1..n : packed[j].rowIndex = packed[i - 1].rowIndex} = first..(i - 1)
                   /\ ColumnsBetween(list, first, i - 1) + list[i].columns > GridColumns
  <2>1. PICK k \in 1..n : k = i - 1
    BY <1>12
  <2>2. start[i] = i /\ ColumnsBetween(list, start[k], i) > GridColumns
    BY <1>6, <1>12, <2>1
  <2>3. PICK first \in 1..k : first = start[k]
    BY <1>5
  <2>4. first \in Nat \ {0} /\ first <= k /\ k < i /\ i - 1 = k
    BY <1>12, <2>1, <2>3
  <2>5. packed[i].rowIndex = packed[k].rowIndex + 1
    <3>1. RowsUpTo(start, i) = RowsUpTo(start, k) + 1
      BY <1>7, <1>12, <2>1, <2>2
    <3>2. packed[i].rowIndex = RowsUpTo(start, i) - 1 /\ packed[k].rowIndex = RowsUpTo(start, k) - 1
      BY <1>3
    <3>3. RowsUpTo(start, k) \in Nat
      BY <1>7
    <3>4. QED
      BY <3>1, <3>2, <3>3
  <2>6. packed[i].columnStart = 1
    <3>1. ColumnsBetween(list, i, i - 1) = 0
      <4>1. i \in Nat \ {0} /\ i - 1 \in 0..n /\ i > i - 1
        OBVIOUS
      <4>2. QED
        BY <4>1, BetweenAdds
    <3>2. QED
      BY <1>3, <2>2, <3>1
  <2>7. \A j \in 1..n : packed[j].rowIndex = packed[k].rowIndex <=> start[j] = first
    <3>1. ASSUME NEW j \in 1..n
          PROVE  packed[j].rowIndex = packed[k].rowIndex <=> start[j] = first
      <4>1. /\ packed[j].rowIndex = RowsUpTo(start, j) - 1
            /\ packed[k].rowIndex = RowsUpTo(start, k) - 1
        BY <1>3
      <4>2. RowsUpTo(start, j) \in Nat /\ RowsUpTo(start, k) \in Nat
        BY <1>7
      <4>3. packed[j].rowIndex = packed[k].rowIndex <=> RowsUpTo(start, j) = RowsUpTo(start, k)
        BY <4>1, <4>2
      <4>4. QED
        BY <1>7, <2>3, <4>3
    <3>2. QED
      BY <3>1
  <2>8. \A j \in 1..n : start[j] = first <=> j \in first..k
    <3>1. ASSUME NEW j \in 1..n, j \in first..k PROVE start[j] = first
      BY <1>5, <2>3, <3>1
    <3>2. ASSUME NEW j \in 1..n, start[j] = first PROVE j \in first..k
      <4>1. first <= j
        <5>1. start[j] \in 1..j
          BY <1>5
        <5>2. QED
          BY <3>2, <5>1
      <4>2. ~(i <= j)
        <5>1. i <= j => start[i] <= start[j]
          BY <1>6
        <5>2. QED
          BY <2>2, <2>4, <3>2, <5>1
      <4>3. QED
        BY <2>4, <4>1, <4>2
    <3>3. QED
      BY <3>1, <3>2
  <2>9. {j \in 1..n : packed[j].rowIndex = packed[k].rowIndex} = first..k
    <3>1. \A j \in first..k : j \in 1..n
      OBVIOUS
    <3>2. QED
      BY <2>7, <2>8, <3>1
  <2>10. ColumnsBetween(list, first, k) + list[i].columns > GridColumns
    <3>1. i \in 0..n /\ first <= i
      BY <2>4
    <3>2. ColumnsBetween(list, first, i) = ColumnsBetween(list, first, i - 1) + list[i].columns
      BY <2>4, <3>1, BetweenAdds
    <3>3. QED
      BY <2>2, <2>3, <2>4, <3>2
  <2>11. QED
    BY <2>1, <2>4, <2>5, <2>6, <2>9, <2>10
<1>13. QED
  BY <1>2, <1>10, <1>11, <1>12
=============================================================================
