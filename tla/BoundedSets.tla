---------------------------- MODULE BoundedSets ----------------------------
(***************************************************************************)
(* The greatest member of a bounded set of numbers, for the definitions    *)
(* that choose it (max(id), ORDER BY ... DESC LIMIT 1, the latest result), *)
(* and the n-th member of a finite set in an order, for those that list.   *)
(***************************************************************************)
EXTENDS Sequences, Selection, FiniteSetTheorems, WellFoundedInduction, TLAPS

\* A bounded, non-empty set of numbers has a greatest member: the least of its
\* upper bounds.
LEMMA Greatest ==
  ASSUME NEW S \in SUBSET Nat, S # {}, NEW n \in Nat, \A s \in S : s <= n
  PROVE  \E m \in S : \A s \in S : s <= m
<1> DEFINE Bounds == {b \in Nat : \A s \in S : s <= b}
<1>1. IsWellFoundedOn(OpToRel(<, Nat), Nat)
  BY NatLessThanWellFounded
<1>2. PICK m \in Bounds : \A b \in Bounds : ~(<<b, m>> \in OpToRel(<, Nat))
  <2>1. n \in Bounds
    OBVIOUS
  <2> HIDE DEF Bounds
  <2>2. Bounds \subseteq Nat
    BY DEF Bounds
  <2>3. QED
    BY <1>1, <2>1, <2>2, WFMin
<1>3. \A b \in Bounds : ~(b < m)
  BY <1>2 DEF OpToRel
<1>4. m \in S
  <2> SUFFICES ASSUME m \notin S PROVE FALSE
    OBVIOUS
  <2>1. \A s \in S : s < m
    OBVIOUS
  <2>2. m > 0
    <3>1. PICK s \in S : s < m
      BY <2>1
    <3>2. QED
      BY <3>1
  <2>3. m - 1 \in Bounds
    BY <2>1, <2>2
  <2>4. QED
    BY <1>3, <2>2, <2>3
<1>5. QED
  BY <1>4

\* CHOOSE finds the greatest of a bounded set.
LEMMA ChosenGreatest ==
  ASSUME NEW S \in SUBSET Nat, S # {}, NEW n \in Nat, \A s \in S : s <= n
  PROVE  LET m == CHOOSE i \in S : \A j \in S : j <= i
         IN m \in S /\ \A j \in S : j <= m
<1>1. \E m \in S : \A j \in S : j <= m
  BY Greatest
<1>2. QED
  BY <1>1

-----------------------------------------------------------------------------
(* Ranks.                                                                  *)

\* In a finite set that R orders, every rank is somebody's, and nobody else's.
LEMMA Ranks ==
  ASSUME NEW S, IsFiniteSet(S), NEW R,
         \A i \in S : <<i, i>> \notin R,
         \A i, j, k \in S : <<i, j>> \in R /\ <<j, k>> \in R => <<i, k>> \in R,
         \A i, j \in S : i = j \/ <<i, j>> \in R \/ <<j, i>> \in R
  PROVE  /\ \A i, j \in S : <<i, j>> \in R =>
              Cardinality({k \in S : <<k, i>> \in R}) < Cardinality({k \in S : <<k, j>> \in R})
         /\ \A i \in S : Cardinality({k \in S : <<k, i>> \in R}) + 1 \in 1..Cardinality(S)
         /\ \A n \in 1..Cardinality(S) :
              \E i \in S : Cardinality({k \in S : <<k, i>> \in R}) = n - 1
<1> DEFINE Below(i) == {k \in S : <<k, i>> \in R}
           rank == [i \in S |-> Cardinality(Below(i))]
           N == Cardinality(S)
<1>1. ASSUME NEW i \in S
      PROVE  /\ Below(i) \subseteq S /\ i \notin Below(i)
             /\ IsFiniteSet(Below(i)) /\ Cardinality(Below(i)) \in Nat
  <2>1. Below(i) \subseteq S /\ i \notin Below(i)
    OBVIOUS
  <2> HIDE DEF Below
  <2>2. QED
    BY <2>1, FS_Subset, FS_CardinalityType
<1>2. N \in Nat
  BY FS_CardinalityType
<1>3. ASSUME NEW i \in S, NEW j \in S, <<i, j>> \in R
      PROVE  Cardinality(Below(i)) < Cardinality(Below(j))
  <2>1. Below(i) \subseteq Below(j) /\ i \in Below(j) /\ i \notin Below(i)
    BY <1>3
  <2>2. Cardinality(Below(i)) \in Nat /\ Cardinality(Below(j)) \in Nat /\ IsFiniteSet(Below(j))
    BY <1>1
  <2> HIDE DEF Below
  <2>3. Cardinality(Below(i)) <= Cardinality(Below(j)) /\ Cardinality(Below(j)) # Cardinality(Below(i))
    BY <2>1, <2>2, FS_Subset
  <2>4. QED
    BY <2>2, <2>3
<1>4. ASSUME NEW i \in S PROVE Cardinality(Below(i)) \in 0..(N - 1)
  <2>1. Below(i) \subseteq S /\ i \notin Below(i) /\ Cardinality(Below(i)) \in Nat
    BY <1>1
  <2> HIDE DEF Below
  <2>2. Cardinality(Below(i)) <= N /\ Cardinality(Below(i)) # N
    BY <2>1, FS_Subset
  <2>3. QED
    BY <1>2, <2>1, <2>2
<1>5. rank \in Injection(S, 0..(N - 1))
  <2>1. rank \in [S -> 0..(N - 1)]
    BY <1>4
  <2>2. ASSUME NEW i \in S, NEW j \in S, rank[i] = rank[j] PROVE i = j
    <3>1. Cardinality(Below(i)) = Cardinality(Below(j))
      BY <2>2
    <3>2. Cardinality(Below(i)) \in Nat /\ Cardinality(Below(j)) \in Nat
      BY <1>1
    <3>3. <<i, j>> \notin R /\ <<j, i>> \notin R
      <4> HIDE DEF Below
      <4>1. QED
        BY <1>3, <3>1, <3>2
    <3>4. QED
      BY <3>3
  <2> HIDE DEF rank
  <2>3. QED
    BY <2>1, <2>2 DEF Injection, IsInjective
<1>6. rank \in Surjection(S, 0..(N - 1))
  <2>1. IsFiniteSet(0..(N - 1)) /\ Cardinality(0..(N - 1)) = N
    <3> HIDE DEF N
    <3>1. 0 \in Int /\ N - 1 \in Int
      BY <1>2
    <3>2. IsFiniteSet(0..(N - 1))
          /\ Cardinality(0..(N - 1)) = IF 0 > N - 1 THEN 0 ELSE (N - 1) - 0 + 1
      BY <3>1, FS_Interval, Zenon
    <3>3. QED
      BY <1>2, <3>2
  <2> HIDE DEF rank
  <2>2. QED
    BY <1>5, <2>1, FS_Injection, Zenon
<1>7. ASSUME NEW n \in 1..N PROVE \E i \in S : Cardinality(Below(i)) = n - 1
  <2>1. n - 1 \in 0..(N - 1)
    BY <1>2
  <2>2. \E i \in S : rank[i] = n - 1
    <3> HIDE DEF rank
    <3>1. QED
      BY <1>6, <2>1 DEF Surjection
  <2>3. QED
    BY <2>2
<1>8. \A i \in S : Cardinality(Below(i)) + 1 \in 1..N
  BY <1>2, <1>4
<1>9. QED
  BY <1>3, <1>7, <1>8

\* The places of a set of numbers are its members, from the least up.
LEMMA PlacesInOrder ==
  ASSUME NEW P \in SUBSET Nat, IsFiniteSet(P)
  PROVE  /\ \A n \in 1..Cardinality(P) :
              Place(P, n) \in P /\ Cardinality({j \in P : j < Place(P, n)}) = n - 1
         /\ \A m, n \in 1..Cardinality(P) : m < n => Place(P, m) < Place(P, n)
         /\ \A i \in P : \E n \in 1..Cardinality(P) : Place(P, n) = i
<1> DEFINE R == {p \in P \X P : p[1] < p[2]}
           Below(i) == {j \in P : j < i}
<1>1. ASSUME NEW i \in P PROVE {k \in P : <<k, i>> \in R} = Below(i)
  OBVIOUS
<1>2. /\ \A i \in P : <<i, i>> \notin R
      /\ \A i, j, k \in P : <<i, j>> \in R /\ <<j, k>> \in R => <<i, k>> \in R
      /\ \A i, j \in P : i = j \/ <<i, j>> \in R \/ <<j, i>> \in R
      /\ \A i, j \in P : <<i, j>> \in R <=> i < j
  OBVIOUS
<1> HIDE DEF R
<1>3. /\ \A i, j \in P : <<i, j>> \in R =>
           Cardinality({k \in P : <<k, i>> \in R}) < Cardinality({k \in P : <<k, j>> \in R})
      /\ \A i \in P : Cardinality({k \in P : <<k, i>> \in R}) + 1 \in 1..Cardinality(P)
      /\ \A n \in 1..Cardinality(P) :
           \E i \in P : Cardinality({k \in P : <<k, i>> \in R}) = n - 1
  BY <1>2, Ranks
<1>4. /\ \A i, j \in P : i < j => Cardinality(Below(i)) < Cardinality(Below(j))
      /\ \A i \in P : Cardinality(Below(i)) + 1 \in 1..Cardinality(P)
      /\ \A n \in 1..Cardinality(P) : \E i \in P : Cardinality(Below(i)) = n - 1
  <2>1. \A i \in P : Cardinality({k \in P : <<k, i>> \in R}) = Cardinality(Below(i))
    BY <1>1
  <2> HIDE DEF Below
  <2>2. ASSUME NEW i \in P, NEW j \in P, i < j
        PROVE  Cardinality(Below(i)) < Cardinality(Below(j))
    <3>1. <<i, j>> \in R
      BY <1>2, <2>2
    <3>2. Cardinality({k \in P : <<k, i>> \in R}) < Cardinality({k \in P : <<k, j>> \in R})
      BY <1>3, <3>1, Zenon
    <3>3. QED
      BY <2>1, <3>2
  <2>3. ASSUME NEW i \in P PROVE Cardinality(Below(i)) + 1 \in 1..Cardinality(P)
    BY <1>3, <2>1
  <2>4. ASSUME NEW n \in 1..Cardinality(P) PROVE \E i \in P : Cardinality(Below(i)) = n - 1
    BY <1>3, <2>1
  <2>5. QED
    BY <2>2, <2>3, <2>4
<1>5. \A i \in P : Cardinality(Below(i)) \in Nat
  <2> SUFFICES ASSUME NEW i \in P PROVE Cardinality(Below(i)) \in Nat
    OBVIOUS
  <2>1. Below(i) \subseteq P
    OBVIOUS
  <2> HIDE DEF Below
  <2>2. QED
    BY <2>1, FS_Subset, FS_CardinalityType
<1>6. ASSUME NEW n \in 1..Cardinality(P)
      PROVE  Place(P, n) \in P /\ Cardinality(Below(Place(P, n))) = n - 1
  <2>1. Place(P, n) = CHOOSE i \in P : Cardinality(Below(i)) = n - 1
    BY DEF Place
  <2> HIDE DEF Below
  <2>2. QED
    BY <1>4, <2>1
<1>7. Cardinality(P) \in Nat
  BY FS_CardinalityType
<1>8. ASSUME NEW m \in 1..Cardinality(P), NEW n \in 1..Cardinality(P), m < n
      PROVE  Place(P, m) < Place(P, n)
  <2>1. Place(P, m) \in Nat /\ Place(P, n) \in Nat /\ Place(P, m) \in P /\ Place(P, n) \in P
    BY <1>6
  <2>2. Cardinality(Below(Place(P, m))) < Cardinality(Below(Place(P, n)))
    <3> HIDE DEF Below
    <3>1. QED
      BY <1>6, <1>7, <1>8
  <2> HIDE DEF Below
  <2>3. ~(Place(P, n) < Place(P, m)) /\ Place(P, m) # Place(P, n)
    BY <1>4, <1>5, <2>1, <2>2
  <2>4. QED
    BY <2>1, <2>3
<1>9. ASSUME NEW i \in P PROVE \E n \in 1..Cardinality(P) : Place(P, n) = i
  <2> DEFINE n == Cardinality(Below(i)) + 1
  <2>1. n \in 1..Cardinality(P) /\ n - 1 = Cardinality(Below(i))
    <3> HIDE DEF Below
    <3>1. QED
      BY <1>4, <1>5
  <2>2. Place(P, n) \in P /\ Cardinality(Below(Place(P, n))) = Cardinality(Below(i))
    <3> HIDE DEF n, Below
    <3>1. QED
      BY <1>6, <2>1
  <2>3. Place(P, n) = i
    <3> HIDE DEF n, Below
    <3>1. ASSUME NEW k \in P, Cardinality(Below(k)) = Cardinality(Below(i))
          PROVE  k = i
      <4>1. ~(k < i) /\ ~(i < k)
        BY <1>4, <1>5, <3>1
      <4>2. k \in Nat /\ i \in Nat
        OBVIOUS
      <4>3. QED
        BY <4>1, <4>2
    <3>2. QED
      BY <2>2, <3>1
  <2>4. QED
    BY <2>1, <2>3
<1>10. QED
  BY <1>6, <1>8, <1>9

\* A selection of a sequence is one of its members, as many as there are places.
LEMMA KeptSeq ==
  ASSUME NEW S, NEW s \in Seq(S), NEW P \in SUBSET DOMAIN s
  PROVE  /\ IsFiniteSet(P) /\ Cardinality(P) \in Nat /\ Cardinality(P) <= Len(s)
         /\ Kept(s, P) \in [1..Cardinality(P) -> S]
         /\ Kept(s, P) \in Seq(S) /\ Len(Kept(s, P)) = Cardinality(P)
         /\ \A n \in 1..Cardinality(P) :
              Place(P, n) \in P /\ Kept(s, P)[n] = s[Place(P, n)]
<1>1. P \in SUBSET Nat /\ \A i \in P : i <= Len(s)
  OBVIOUS
<1>2. IsFiniteSet(P) /\ Cardinality(P) <= Len(s) /\ Cardinality(P) \in Nat
  <2>1. IsFiniteSet(1..Len(s)) /\ Cardinality(1..Len(s)) = Len(s)
    <3>1. 1 \in Int /\ Len(s) \in Int /\ Len(s) \in Nat
      OBVIOUS
    <3>2. IsFiniteSet(1..Len(s))
          /\ Cardinality(1..Len(s)) = IF 1 > Len(s) THEN 0 ELSE Len(s) - 1 + 1
      BY <3>1, FS_Interval, Zenon
    <3>3. QED
      BY <3>1, <3>2
  <2>2. P \subseteq 1..Len(s)
    OBVIOUS
  <2>3. QED
    BY <2>1, <2>2, FS_Subset, FS_CardinalityType
<1>3. \A n \in 1..Cardinality(P) : Place(P, n) \in P
  BY <1>1, <1>2, PlacesInOrder
<1>4. Kept(s, P) \in [1..Cardinality(P) -> S]
      /\ \A n \in 1..Cardinality(P) : Kept(s, P)[n] = s[Place(P, n)]
  BY <1>3 DEF Kept
<1>5. QED
  BY <1>2, <1>3, <1>4

\* The selection of a longer sequence begins with that of a shorter one.
LEMMA KeptGrows ==
  ASSUME NEW S, NEW s \in Seq(S), NEW t \in Seq(S), Len(s) <= Len(t),
         \A i \in DOMAIN s : t[i] = s[i],
         NEW P \in SUBSET DOMAIN s, NEW Q \in SUBSET DOMAIN t, P = Q \cap DOMAIN s
  PROVE  /\ Len(Kept(s, P)) <= Len(Kept(t, Q))
         /\ \A n \in DOMAIN Kept(s, P) : Kept(t, Q)[n] = Kept(s, P)[n]
<1>1. /\ IsFiniteSet(P) /\ Cardinality(P) \in Nat /\ Kept(s, P) \in [1..Cardinality(P) -> S]
      /\ Len(Kept(s, P)) = Cardinality(P)
      /\ \A n \in 1..Cardinality(P) : Place(P, n) \in P /\ Kept(s, P)[n] = s[Place(P, n)]
  BY KeptSeq
<1>2. /\ IsFiniteSet(Q) /\ Cardinality(Q) \in Nat
      /\ Len(Kept(t, Q)) = Cardinality(Q)
      /\ \A n \in 1..Cardinality(Q) : Place(Q, n) \in Q /\ Kept(t, Q)[n] = t[Place(Q, n)]
  BY KeptSeq
<1>3. P \subseteq Q /\ P \in SUBSET Nat /\ Q \in SUBSET Nat
  OBVIOUS
<1>4. Cardinality(P) <= Cardinality(Q)
  BY <1>2, <1>3, FS_Subset
<1>5. ASSUME NEW n \in 1..Cardinality(P) PROVE Place(Q, n) = Place(P, n)
  <2>1. n \in 1..Cardinality(Q)
    BY <1>1, <1>2, <1>4
  <2>2. Place(P, n) \in P /\ Cardinality({j \in P : j < Place(P, n)}) = n - 1
    BY <1>1, <1>3, PlacesInOrder
  <2>3. PICK m \in 1..Cardinality(Q) : Place(Q, m) = Place(P, n)
    BY <1>2, <1>3, <2>2, PlacesInOrder
  <2>4. Cardinality({j \in Q : j < Place(Q, m)}) = m - 1
    BY <1>2, <1>3, PlacesInOrder
  <2>5. {j \in Q : j < Place(P, n)} = {j \in P : j < Place(P, n)}
    <3>1. Place(P, n) \in DOMAIN s /\ Place(P, n) \in Nat /\ Place(P, n) <= Len(s)
      BY <2>2
    <3>2. ASSUME NEW j \in Q, j < Place(P, n) PROVE j \in P
      <4>1. j \in 1..Len(t)
        OBVIOUS
      <4>2. j \in DOMAIN s
        BY <3>1, <3>2, <4>1
      <4>3. QED
        BY <4>2
    <3>3. QED
      BY <1>3, <3>2
  <2>6. m - 1 = n - 1
    BY <2>2, <2>3, <2>4, <2>5
  <2>7. m = n
    BY <1>1, <1>2, <2>6
  <2>8. QED
    BY <2>3, <2>7
<1>6. ASSUME NEW n \in 1..Cardinality(P) PROVE Kept(t, Q)[n] = Kept(s, P)[n]
  <2>1. n \in 1..Cardinality(Q)
    BY <1>1, <1>2, <1>4
  <2>2. Kept(t, Q)[n] = t[Place(P, n)]
    BY <1>2, <1>5, <2>1
  <2>3. QED
    BY <1>1, <2>2
<1>7. QED
  BY <1>1, <1>2, <1>4, <1>6

LEMMA KeptFrom ==
  ASSUME NEW S, NEW s \in Seq(S), NEW P \in SUBSET DOMAIN s
  PROVE  Kept(s, P) \in Seq(S) /\ \A n \in DOMAIN Kept(s, P) : \E i \in P : Kept(s, P)[n] = s[i]
<1>1. /\ Kept(s, P) \in Seq(S) /\ Len(Kept(s, P)) = Cardinality(P)
      /\ \A n \in 1..Cardinality(P) : Place(P, n) \in P /\ Kept(s, P)[n] = s[Place(P, n)]
  BY KeptSeq
<1>2. DOMAIN Kept(s, P) = 1..Cardinality(P)
  BY <1>1
<1>3. QED
  BY <1>1, <1>2

LEMMA KeptDistinct ==
  ASSUME NEW S, NEW s \in Seq(S), NEW P \in SUBSET DOMAIN s,
         \A i, j \in DOMAIN s : s[i] = s[j] => i = j
  PROVE  \A m, n \in DOMAIN Kept(s, P) : Kept(s, P)[m] = Kept(s, P)[n] => m = n
<1>1. /\ IsFiniteSet(P) /\ Cardinality(P) \in Nat /\ P \in SUBSET Nat
      /\ DOMAIN Kept(s, P) = 1..Cardinality(P)
      /\ \A n \in 1..Cardinality(P) : Place(P, n) \in P /\ Kept(s, P)[n] = s[Place(P, n)]
  BY KeptSeq
<1>2. ASSUME NEW m \in 1..Cardinality(P), NEW n \in 1..Cardinality(P),
             Place(P, m) = Place(P, n)
      PROVE  m = n
  <2>1. \A k \in 1..Cardinality(P) :
          Place(P, k) \in P /\ Cardinality({j \in P : j < Place(P, k)}) = k - 1
    BY <1>1, PlacesInOrder
  <2>2. m - 1 = n - 1
    BY <1>2, <2>1
  <2>3. QED
    BY <1>1, <2>2
<1>3. QED
  BY <1>1, <1>2
=============================================================================
