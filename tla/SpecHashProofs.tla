--------------------------- MODULE SpecHashProofs ---------------------------
(***************************************************************************)
(* Theorems about SpecHash: the hash does not depend on the order in which *)
(* the keys of maps are handed out, and it tells apart what deployments do *)
(* unless a value holds one of the texts written between values.           *)
(***************************************************************************)
EXTENDS SpecHash, TextProofs, FiniteSetTheorems, FunctionTheorems

----------------------------------------------------------------------------
(* The order of sort.Strings.                                              *)

Rank(a) == CHOOSE i \in DOMAIN Alphabet : Alphabet[i] = a

Agree(t, u, k) == \A j \in 1..k : t[j] = u[j]

LEMMA WordsProperty ==
    ASSUME NEW t \in Words
    PROVE  /\ t \in Texts
           /\ Len(t) \in Nat /\ DOMAIN t = 1..Len(t)
           /\ \A i \in DOMAIN t : Rank(t[i]) \in Nat /\ Alphabet[Rank(t[i])] = t[i]
<1>1. DOMAIN Alphabet \subseteq Nat /\ \A i \in DOMAIN Alphabet : Alphabet[i] \in STRING
  BY SpecHashAssumption
<1>2. ToSet(Alphabet) \subseteq STRING
  BY <1>1 DEF ToSet
<1>3. t \in Texts
  BY <1>2, SeqMonotonic DEF Words, Texts
<1>4. Len(t) \in Nat /\ DOMAIN t = 1..Len(t)
  BY DEF Words
<1>5. ASSUME NEW i \in DOMAIN t
      PROVE  Rank(t[i]) \in DOMAIN Alphabet /\ Alphabet[Rank(t[i])] = t[i]
  <2>1. t[i] \in ToSet(Alphabet)
    BY <1>5 DEF Words
  <2>2. \E k \in DOMAIN Alphabet : Alphabet[k] = t[i]
    BY <2>1 DEF ToSet
  <2>3. QED
    BY <2>2 DEF Rank
<1>6. QED
  BY <1>1, <1>3, <1>4, <1>5

(* A word is less at the first difference, or as a proper prefix.          *)
LEMMA LessProperty ==
    ASSUME NEW t \in Words, NEW u \in Words
    PROVE  Less(t, u) <=>
             \/ \E k \in DOMAIN t \cap DOMAIN u :
                   Agree(t, u, k - 1) /\ Rank(t[k]) < Rank(u[k])
             \/ Len(t) < Len(u) /\ Agree(t, u, Len(t))
<1> DEFINE common == {i \in DOMAIN t \cap DOMAIN u : t[i] # u[i]}
<1>1. /\ Len(t) \in Nat /\ DOMAIN t = 1..Len(t)
      /\ Len(u) \in Nat /\ DOMAIN u = 1..Len(u)
      /\ \A i \in DOMAIN t : Rank(t[i]) \in Nat
      /\ \A i \in DOMAIN u : Rank(u[i]) \in Nat
  BY WordsProperty
<1>2. Less(t, u) <=> IF common = {} THEN Len(t) < Len(u)
                     ELSE Rank(t[Min(common)]) < Rank(u[Min(common)])
  BY DEF Less, Rank
<1>3. \A k : k \in common <=> k \in DOMAIN t /\ k \in DOMAIN u /\ t[k] # u[k]
  OBVIOUS
<1>4. ASSUME NEW k \in DOMAIN t \cap DOMAIN u, Rank(t[k]) < Rank(u[k])
      PROVE  k \in common
  BY <1>1, <1>4
<1> HIDE DEF common
<1>5. CASE common = {}
  <2>1. Len(t) < Len(u) => Agree(t, u, Len(t))
    BY <1>1, <1>3, <1>5 DEF Agree
  <2>2. QED
    BY <1>2, <1>4, <1>5, <2>1
<1>6. CASE common # {}
  <2> DEFINE m == Min(common)
  <2>1. common \in SUBSET Nat
    BY <1>1, <1>3
  <2>2. m \in common /\ \A k \in common : m <= k
    BY <1>6, <2>1, MinProperty
  <2> HIDE DEF m
  <2>3. m \in DOMAIN t \cap DOMAIN u /\ t[m] # u[m] /\ m \in Nat
    BY <1>3, <2>1, <2>2
  <2>4. Agree(t, u, m - 1)
    <3> SUFFICES ASSUME NEW j \in 1..m - 1
                 PROVE  t[j] = u[j]
      BY DEF Agree
    <3>1. j \in DOMAIN t /\ j \in DOMAIN u /\ ~(m <= j)
      BY <1>1, <2>3
    <3>2. QED
      BY <1>3, <2>2, <3>1
  <2>5. ASSUME NEW k \in DOMAIN t \cap DOMAIN u, Agree(t, u, k - 1),
               Rank(t[k]) < Rank(u[k])
        PROVE  k = m
    <3>1. m <= k /\ k \in Nat
      BY <1>1, <1>4, <2>2, <2>5
    <3>2. ~(m < k)
      BY <1>1, <2>3, <2>5, <3>1 DEF Agree
    <3>3. QED
      BY <2>3, <3>1, <3>2
  <2>6. ~(Len(t) < Len(u) /\ Agree(t, u, Len(t)))
    BY <1>1, <2>3 DEF Agree
  <2>7. Less(t, u) <=> Rank(t[m]) < Rank(u[m])
    BY <1>2, <1>6 DEF m
  <2>8. QED
    BY <2>3, <2>4, <2>5, <2>6, <2>7
<1>7. QED
  BY <1>5, <1>6

LEMMA LessIsStrict ==
    ASSUME NEW t \in Words
    PROVE  ~Less(t, t)
<1>1. \A i \in DOMAIN t : Rank(t[i]) \in Nat
  BY WordsProperty
<1>2. Len(t) \in Nat
  BY WordsProperty
<1>3. QED
  BY <1>1, <1>2, LessProperty

LEMMA LessIsTotal ==
    ASSUME NEW t \in Words, NEW u \in Words, t # u
    PROVE  Less(t, u) \/ Less(u, t)
<1> DEFINE common == {i \in DOMAIN t \cap DOMAIN u : t[i] # u[i]}
           other  == {i \in DOMAIN u \cap DOMAIN t : u[i] # t[i]}
           m      == Min(common)
<1>1. /\ Len(t) \in Nat /\ DOMAIN t = 1..Len(t)
      /\ Len(u) \in Nat /\ DOMAIN u = 1..Len(u)
      /\ \A i \in DOMAIN t : Rank(t[i]) \in Nat /\ Alphabet[Rank(t[i])] = t[i]
      /\ \A i \in DOMAIN u : Rank(u[i]) \in Nat /\ Alphabet[Rank(u[i])] = u[i]
  BY WordsProperty
<1>2. other = common
  OBVIOUS
<1>3. Less(t, u) <=> IF common = {} THEN Len(t) < Len(u)
                     ELSE Rank(t[m]) < Rank(u[m])
  BY DEF Less, Rank
<1>4. Less(u, t) <=> IF other = {} THEN Len(u) < Len(t)
                     ELSE Rank(u[Min(other)]) < Rank(t[Min(other)])
  BY DEF Less, Rank
<1>5. CASE common = {}
  <2>1. Len(t) # Len(u)
    <3> SUFFICES ASSUME Len(t) = Len(u)
                 PROVE  FALSE
      OBVIOUS
    <3>1. \A i \in 1..Len(t) : t[i] = u[i]
      BY <1>1, <1>5
    <3>2. t = u
      BY <3>1, SeqEqual DEF Words
    <3>3. QED
      BY <3>2
  <2>2. other = {}
    BY <1>2, <1>5
  <2> HIDE DEF common, other, m
  <2>3. Less(t, u) <=> Len(t) < Len(u)
    BY <1>3, <1>5
  <2>4. Less(u, t) <=> Len(u) < Len(t)
    BY <1>4, <2>2
  <2>5. Len(t) < Len(u) \/ Len(u) < Len(t)
    <3>1. Len(t) \in Nat /\ Len(u) \in Nat
      BY <1>1
    <3>2. QED
      BY <2>1, <3>1
  <2>6. QED
    BY <2>3, <2>4, <2>5
<1>6. CASE common # {}
  <2>1. common \in SUBSET Nat
    BY <1>1
  <2>2. m \in common
    BY <1>6, <2>1, MinProperty
  <2>3. m \in DOMAIN t /\ m \in DOMAIN u /\ t[m] # u[m]
    BY <2>2
  <2> HIDE DEF m, common, other
  <2>4. Rank(t[m]) # Rank(u[m])
    BY <1>1, <2>3
  <2>5. Less(u, t) <=> Rank(u[m]) < Rank(t[m])
    BY <1>2, <1>4, <1>6 DEF m
  <2>6. QED
    BY <1>1, <1>3, <1>6, <2>3, <2>4, <2>5
<1>7. QED
  BY <1>5, <1>6

LEMMA LessIsTransitive ==
    ASSUME NEW t \in Words, NEW u \in Words, NEW v \in Words,
           Less(t, u), Less(u, v)
    PROVE  Less(t, v)
<1>1. /\ Len(t) \in Nat /\ DOMAIN t = 1..Len(t)
      /\ Len(u) \in Nat /\ DOMAIN u = 1..Len(u)
      /\ Len(v) \in Nat /\ DOMAIN v = 1..Len(v)
      /\ \A i \in DOMAIN t : Rank(t[i]) \in Nat
      /\ \A i \in DOMAIN u : Rank(u[i]) \in Nat
      /\ \A i \in DOMAIN v : Rank(v[i]) \in Nat
  BY WordsProperty
<1>2. CASE \E k \in DOMAIN t \cap DOMAIN u :
              Agree(t, u, k - 1) /\ Rank(t[k]) < Rank(u[k])
  <2>1. PICK k \in DOMAIN t \cap DOMAIN u :
              Agree(t, u, k - 1) /\ Rank(t[k]) < Rank(u[k])
    BY <1>2
  <2>2. CASE \E l \in DOMAIN u \cap DOMAIN v :
                Agree(u, v, l - 1) /\ Rank(u[l]) < Rank(v[l])
    <3>1. PICK l \in DOMAIN u \cap DOMAIN v :
                Agree(u, v, l - 1) /\ Rank(u[l]) < Rank(v[l])
      BY <2>2
    <3> DEFINE n == IF k <= l THEN k ELSE l
    <3>2. n \in DOMAIN t \cap DOMAIN v
      BY <1>1
    <3>3. Agree(t, v, n - 1)
      BY <1>1, <2>1, <3>1 DEF Agree
    <3>4. Rank(t[n]) < Rank(v[n])
      <4>1. CASE k < l
        <5>1. u[k] = v[k]
          BY <1>1, <3>1, <4>1 DEF Agree
        <5>2. QED
          BY <1>1, <2>1, <4>1, <5>1
      <4>2. CASE k = l
        BY <1>1, <2>1, <3>1, <4>2
      <4>3. CASE l < k
        <5>1. t[l] = u[l]
          BY <1>1, <2>1, <4>3 DEF Agree
        <5>2. QED
          BY <1>1, <3>1, <4>3, <5>1
      <4>4. QED
        BY <1>1, <4>1, <4>2, <4>3
    <3> HIDE DEF n
    <3>5. QED
      BY <3>2, <3>3, <3>4, LessProperty
  <2>3. CASE Len(u) < Len(v) /\ Agree(u, v, Len(u))
    <3>1. k \in DOMAIN t \cap DOMAIN v /\ Agree(t, v, k - 1)
      BY <1>1, <2>1, <2>3 DEF Agree
    <3>2. Rank(t[k]) < Rank(v[k])
      BY <1>1, <2>1, <2>3 DEF Agree
    <3>3. QED
      BY <3>1, <3>2, LessProperty
  <2>4. QED
    BY <2>2, <2>3, LessProperty
<1>3. CASE Len(t) < Len(u) /\ Agree(t, u, Len(t))
  <2>1. CASE \E l \in DOMAIN u \cap DOMAIN v :
                Agree(u, v, l - 1) /\ Rank(u[l]) < Rank(v[l])
    <3>1. PICK l \in DOMAIN u \cap DOMAIN v :
                Agree(u, v, l - 1) /\ Rank(u[l]) < Rank(v[l])
      BY <2>1
    <3>2. CASE l <= Len(t)
      <4>1. l \in DOMAIN t \cap DOMAIN v /\ Agree(t, v, l - 1) /\ t[l] = u[l]
        BY <1>1, <1>3, <3>1, <3>2 DEF Agree
      <4>2. QED
        BY <3>1, <4>1, LessProperty
    <3>3. CASE Len(t) < l
      <4>1. Len(t) < Len(v) /\ Agree(t, v, Len(t))
        BY <1>1, <1>3, <3>1, <3>3 DEF Agree
      <4>2. QED
        BY <4>1, LessProperty
    <3>4. QED
      BY <1>1, <3>2, <3>3
  <2>2. CASE Len(u) < Len(v) /\ Agree(u, v, Len(u))
    <3>1. Len(t) < Len(v) /\ Agree(t, v, Len(t))
      BY <1>1, <1>3, <2>2 DEF Agree
    <3>2. QED
      BY <3>1, LessProperty
  <2>3. QED
    BY <2>1, <2>2, LessProperty
<1>4. QED
  BY <1>2, <1>3, LessProperty

----------------------------------------------------------------------------
(* sort.Strings: a rearrangement in which everything stands after what is  *)
(* less.                                                                   *)

Precedes(s, j, i) == Less(s[j], s[i]) \/ (s[j] = s[i] /\ j < i)

Preceding(s, i) == {j \in DOMAIN s : Precedes(s, j, i)}

Place(s, i) == Cardinality(Preceding(s, i)) + 1

LEMMA PrecedesIsOrder ==
    ASSUME NEW s \in Seq(Words)
    PROVE  /\ \A i \in DOMAIN s : ~Precedes(s, i, i)
           /\ \A i, j \in DOMAIN s : i # j => Precedes(s, i, j) \/ Precedes(s, j, i)
           /\ \A i, j, k \in DOMAIN s :
                 Precedes(s, i, j) /\ Precedes(s, j, k) => Precedes(s, i, k)
<1>1. /\ DOMAIN s = 1..Len(s) /\ Len(s) \in Nat
      /\ \A i \in DOMAIN s : s[i] \in Words /\ i \in Nat
  OBVIOUS
<1>2. ASSUME NEW i \in DOMAIN s
      PROVE  ~Precedes(s, i, i)
  BY <1>1, LessIsStrict DEF Precedes
<1>3. ASSUME NEW i \in DOMAIN s, NEW j \in DOMAIN s, i # j
      PROVE  Precedes(s, i, j) \/ Precedes(s, j, i)
  <2>1. s[i] \in Words /\ s[j] \in Words /\ (i < j \/ j < i)
    BY <1>1, <1>3
  <2>2. s[i] = s[j] \/ Less(s[i], s[j]) \/ Less(s[j], s[i])
    BY <2>1, LessIsTotal
  <2>3. QED
    BY <2>1, <2>2 DEF Precedes
<1>4. ASSUME NEW i \in DOMAIN s, NEW j \in DOMAIN s, NEW k \in DOMAIN s,
             Precedes(s, i, j), Precedes(s, j, k)
      PROVE  Precedes(s, i, k)
  <2>1. s[i] \in Words /\ s[j] \in Words /\ s[k] \in Words
    BY <1>1
  <2>2. i \in Nat /\ j \in Nat /\ k \in Nat
    BY <1>1
  <2>3. Less(s[i], s[j]) /\ Less(s[j], s[k]) => Less(s[i], s[k])
    BY <2>1, LessIsTransitive
  <2>4. QED
    BY <1>4, <2>2, <2>3 DEF Precedes
<1>5. QED
  BY <1>2, <1>3, <1>4

LEMMA PlaceProperty ==
    ASSUME NEW s \in Seq(Words)
    PROVE  /\ \A i \in DOMAIN s : Place(s, i) \in DOMAIN s
           /\ \A i, j \in DOMAIN s : Precedes(s, j, i) => Place(s, j) < Place(s, i)
           /\ \A i, j \in DOMAIN s : Place(s, j) < Place(s, i) => Precedes(s, j, i)
           /\ \A i, j \in DOMAIN s : Place(s, j) = Place(s, i) => j = i
           /\ \A k \in DOMAIN s : \E i \in DOMAIN s : Place(s, i) = k
<1> DEFINE n == Len(s)
<1>1. DOMAIN s = 1..n /\ n \in Nat
  OBVIOUS
<1> HIDE DEF n
<1>2. IsFiniteSet(1..n) /\ Cardinality(1..n) = n
  BY <1>1, FS_Interval
<1>3. ASSUME NEW i \in 1..n
      PROVE  /\ IsFiniteSet(Preceding(s, i)) /\ Preceding(s, i) \subseteq 1..n
             /\ Place(s, i) \in 1..n
  <2>1. Preceding(s, i) \subseteq (1..n) \ {i}
    BY <1>1, PrecedesIsOrder DEF Preceding
  <2>2. IsFiniteSet((1..n) \ {i}) /\ Cardinality((1..n) \ {i}) = n - 1
    BY <1>2, FS_RemoveElement
  <2>3. /\ IsFiniteSet(Preceding(s, i))
        /\ Cardinality(Preceding(s, i)) <= n - 1
    BY <2>1, <2>2, FS_Subset
  <2>4. Cardinality(Preceding(s, i)) \in Nat
    BY <2>3, FS_CardinalityType
  <2>5. QED
    BY <1>1, <2>1, <2>3, <2>4 DEF Place
<1>4. ASSUME NEW i \in 1..n, NEW j \in 1..n, Precedes(s, j, i)
      PROVE  Place(s, j) < Place(s, i)
  <2>1. Preceding(s, j) \subseteq Preceding(s, i)
    BY <1>1, <1>4, PrecedesIsOrder DEF Preceding
  <2>2. j \in Preceding(s, i) /\ j \notin Preceding(s, j)
    BY <1>1, <1>4, PrecedesIsOrder DEF Preceding
  <2>3. IsFiniteSet(Preceding(s, i)) /\ IsFiniteSet(Preceding(s, j))
    BY <1>3
  <2>4. /\ Cardinality(Preceding(s, j)) <= Cardinality(Preceding(s, i))
        /\ Cardinality(Preceding(s, j)) # Cardinality(Preceding(s, i))
    BY <2>1, <2>2, <2>3, FS_Subset
  <2>5. Cardinality(Preceding(s, j)) \in Nat /\ Cardinality(Preceding(s, i)) \in Nat
    BY <2>3, FS_CardinalityType
  <2>6. QED
    BY <2>4, <2>5 DEF Place
<1>5. \A i \in 1..n : Place(s, i) \in 1..n /\ Place(s, i) \in Nat
  BY <1>3
<1>6. ASSUME NEW i \in 1..n, NEW j \in 1..n, Place(s, j) = Place(s, i)
      PROVE  j = i
  <2>1. ~(Place(s, j) < Place(s, i)) /\ ~(Place(s, i) < Place(s, j))
    BY <1>5, <1>6
  <2>2. ~Precedes(s, j, i) /\ ~Precedes(s, i, j)
    BY <1>4, <2>1
  <2>3. QED
    BY <1>1, <2>2, PrecedesIsOrder
<1>7. ASSUME NEW i \in 1..n, NEW j \in 1..n, Place(s, j) < Place(s, i)
      PROVE  Precedes(s, j, i)
  <2>1. ~(Place(s, i) < Place(s, j)) /\ i # j
    BY <1>5, <1>7
  <2>2. ~Precedes(s, i, j)
    BY <1>4, <2>1
  <2>3. QED
    BY <1>1, <2>1, <2>2, PrecedesIsOrder
<1> DEFINE f == [i \in 1..n |-> Place(s, i)]
<1>8. f \in Injection(1..n, 1..n)
  BY <1>3, <1>6 DEF Injection, IsInjective
<1>9. f \in Surjection(1..n, 1..n)
  BY <1>2, <1>8, FS_Injection
<1>10. \A k \in 1..n : \E i \in 1..n : Place(s, i) = k
  BY <1>9 DEF Surjection
<1>11. QED
  BY <1>1, <1>3, <1>4, <1>6, <1>7, <1>10

(* The rearrangement: where the text comes from that is put k-th.          *)
From(s) == [k \in DOMAIN s |-> CHOOSE i \in DOMAIN s : Place(s, i) = k]

LEMMA SortedProperty ==
    ASSUME NEW s \in Seq(Words)
    PROVE  /\ Sorted(s) \in Seq(Words)
           /\ Len(Sorted(s)) = Len(s)
           /\ From(s) \in Bijection(DOMAIN s, DOMAIN s)
           /\ \A k \in DOMAIN s : Sorted(s)[k] = s[From(s)[k]]
           /\ \A k, l \in DOMAIN s : k < l => Precedes(s, From(s)[k], From(s)[l])
<1> DEFINE n == Len(s)
           f == From(s)
<1>1. DOMAIN s = 1..n /\ n \in Nat /\ \A i \in 1..n : s[i] \in Words
  OBVIOUS
<1>2. f = [k \in 1..n |-> CHOOSE i \in 1..n : Place(s, i) = k]
  BY <1>1 DEF From
<1>3. Sorted(s) = [k \in 1..n |-> s[f[k]]]
  BY <1>1, <1>2 DEF Sorted, Place, Preceding, Precedes
<1> HIDE DEF n, f
<1>4. \A k \in 1..n : f[k] \in 1..n /\ Place(s, f[k]) = k
  BY <1>1, <1>2, PlaceProperty
<1>5. \A i \in 1..n : Place(s, i) \in 1..n /\ f[Place(s, i)] = i
  BY <1>1, <1>4, PlaceProperty
<1>6. f \in [1..n -> 1..n]
  BY <1>2, <1>4
<1>7. f \in Injection(1..n, 1..n)
  BY <1>4, <1>6 DEF Injection, IsInjective
<1>8. f \in Surjection(1..n, 1..n)
  BY <1>5, <1>6 DEF Surjection
<1>9. f \in Bijection(1..n, 1..n)
  BY <1>7, <1>8 DEF Bijection
<1>10. Sorted(s) \in [1..n -> Words]
  BY <1>1, <1>3, <1>4
<1>11. Sorted(s) \in Seq(Words) /\ Len(Sorted(s)) = n
  BY <1>1, <1>10
<1>12. \A k, l \in 1..n : k < l => Precedes(s, f[k], f[l])
  BY <1>1, <1>4, PlaceProperty
<1>13. QED
  BY <1>1, <1>3, <1>9, <1>11, <1>12 DEF n, f

(* The keys of a map in whatever order range hands them out.               *)
LEMMA OrderProperty ==
    ASSUME NEW K, IsFiniteSet(K), \A k \in K : k \in Words, NEW s \in SetToSeqs(K)
    PROVE  /\ s \in Seq(Words)
           /\ Len(s) = Cardinality(K)
           /\ \A i, j \in DOMAIN s : s[i] = s[j] => i = j
           /\ \A x : x \in K <=> \E i \in DOMAIN s : s[i] = x
<1> DEFINE n == Cardinality(K)
<1>1. n \in Nat
  BY FS_CardinalityType
<1>2. s \in [1..n -> K] /\ \A i, j \in 1..n : i # j => s[i] # s[j]
  BY DEF SetToSeqs
<1>3. IsFiniteSet(1..n) /\ Cardinality(1..n) = n
  BY <1>1, FS_Interval
<1> HIDE DEF n
<1>4. s \in Injection(1..n, K)
  BY <1>2 DEF Injection, IsInjective
<1>5. s \in Surjection(1..n, K)
  BY <1>3, <1>4, FS_Injection DEF n
<1>6. s \in Seq(Words) /\ Len(s) = n
  BY <1>1, <1>2
<1>7. \A x \in K : \E i \in 1..n : s[i] = x
  BY <1>5 DEF Surjection
<1>8. DOMAIN s = 1..n
  BY <1>2
<1>9. QED
  BY <1>2, <1>6, <1>7, <1>8 DEF n

(* What a sorted sequence without repetitions is made of.                  *)
LEMMA SortedKeys ==
    ASSUME NEW K, IsFiniteSet(K), \A k \in K : k \in Words, NEW s \in SetToSeqs(K)
    PROVE  /\ Sorted(s) \in Seq(Words)
           /\ Len(Sorted(s)) = Cardinality(K)
           /\ \A x : x \in K <=> \E i \in DOMAIN Sorted(s) : Sorted(s)[i] = x
           /\ \A i, j \in DOMAIN Sorted(s) : i < j => Less(Sorted(s)[i], Sorted(s)[j])
<1> DEFINE a == Sorted(s)
           f == From(s)
<1>1. /\ s \in Seq(Words)
      /\ Len(s) = Cardinality(K)
      /\ \A i, j \in DOMAIN s : s[i] = s[j] => i = j
      /\ \A x : x \in K <=> \E i \in DOMAIN s : s[i] = x
  BY OrderProperty
<1>2. /\ a \in Seq(Words)
      /\ Len(a) = Len(s)
      /\ f \in Bijection(DOMAIN s, DOMAIN s)
      /\ \A k \in DOMAIN s : a[k] = s[f[k]]
      /\ \A k, l \in DOMAIN s : k < l => Precedes(s, f[k], f[l])
  BY <1>1, SortedProperty
<1> HIDE DEF a, f
<1>3. DOMAIN a = DOMAIN s /\ DOMAIN s = 1..Len(s) /\ Len(s) \in Nat
  BY <1>1, <1>2
<1>4. /\ \A k \in DOMAIN s : f[k] \in DOMAIN s
      /\ \A k \in DOMAIN s : \E i \in DOMAIN s : f[i] = k
      /\ \A k, l \in DOMAIN s : f[k] = f[l] => k = l
  BY <1>2 DEF Bijection, Injection, Surjection, IsInjective
<1>5. \A x : x \in K <=> \E i \in DOMAIN a : a[i] = x
  <2>1. ASSUME NEW x, NEW i \in DOMAIN s, s[i] = x
        PROVE  \E k \in DOMAIN a : a[k] = x
    <3>1. PICK k \in DOMAIN s : f[k] = i
      BY <1>4
    <3>2. a[k] = x
      BY <1>2, <2>1, <3>1
    <3>3. QED
      BY <1>3, <3>2
  <2>2. ASSUME NEW x, NEW k \in DOMAIN a, a[k] = x
        PROVE  \E i \in DOMAIN s : s[i] = x
    <3>1. f[k] \in DOMAIN s /\ s[f[k]] = x
      BY <1>2, <1>3, <1>4, <2>2
    <3>2. QED
      BY <3>1
  <2>3. QED
    BY <1>1, <2>1, <2>2
<1>6. ASSUME NEW i \in DOMAIN a, NEW j \in DOMAIN a, i < j
      PROVE  Less(a[i], a[j])
  <2>1. i \in DOMAIN s /\ j \in DOMAIN s /\ i # j
    BY <1>3, <1>6
  <2>2. Precedes(s, f[i], f[j])
    BY <1>2, <1>6, <2>1
  <2>3. f[i] \in DOMAIN s /\ f[j] \in DOMAIN s /\ f[i] # f[j]
    BY <1>4, <2>1
  <2>4. s[f[i]] # s[f[j]]
    BY <1>1, <2>3
  <2>5. QED
    BY <1>2, <2>1, <2>2, <2>4 DEF Precedes
<1>7. QED
  BY <1>1, <1>2, <1>5, <1>6 DEF a

(* Where two sorted arrangements of the same keys first differ, the key of *)
(* the one stands later in the other, so each would be less.               *)
LEMMA SortedBefore ==
    ASSUME NEW a \in Seq(Words), NEW b \in Seq(Words), Len(a) = Len(b),
           \A i \in DOMAIN a : \E j \in DOMAIN b : b[j] = a[i],
           \A i, j \in DOMAIN a : i < j => Less(a[i], a[j]),
           \A i, j \in DOMAIN b : i < j => Less(b[i], b[j]),
           NEW m \in DOMAIN a, a[m] # b[m], \A i \in 1..m - 1 : a[i] = b[i]
    PROVE  Less(b[m], a[m])
<1>1. DOMAIN a = 1..Len(a) /\ DOMAIN b = 1..Len(a) /\ Len(a) \in Nat
  OBVIOUS
<1>2. PICK j \in DOMAIN b : b[j] = a[m]
  OBVIOUS
<1>3. ASSUME j < m
      PROVE  FALSE
  <2>1. a[j] = a[m]
    <3>1. j \in 1..m - 1
      BY <1>1, <1>3
    <3>2. QED
      BY <1>2, <3>1
  <2>2. Less(a[j], a[m])
    BY <1>1, <1>3
  <2>3. a[m] \in Words
    OBVIOUS
  <2>4. QED
    BY <2>1, <2>2, <2>3, LessIsStrict
<1>4. j # m
  BY <1>2
<1>5. m < j
  BY <1>1, <1>3, <1>4
<1>6. QED
  BY <1>1, <1>2, <1>5

LEMMA SortedOnce ==
    ASSUME NEW K, IsFiniteSet(K), \A k \in K : k \in Words,
           NEW s \in SetToSeqs(K), NEW t \in SetToSeqs(K)
    PROVE  Sorted(s) = Sorted(t)
<1> DEFINE a == Sorted(s)
           b == Sorted(t)
           D == {i \in DOMAIN a : a[i] # b[i]}
<1>1. /\ a \in Seq(Words)
      /\ Len(a) = Cardinality(K)
      /\ \A x : x \in K <=> \E i \in DOMAIN a : a[i] = x
      /\ \A i, j \in DOMAIN a : i < j => Less(a[i], a[j])
  BY SortedKeys
<1>2. /\ b \in Seq(Words)
      /\ Len(b) = Cardinality(K)
      /\ \A x : x \in K <=> \E i \in DOMAIN b : b[i] = x
      /\ \A i, j \in DOMAIN b : i < j => Less(b[i], b[j])
  BY SortedKeys
<1> HIDE DEF a, b
<1>3. DOMAIN a = 1..Len(a) /\ DOMAIN b = 1..Len(a) /\ Len(a) \in Nat
  BY <1>1, <1>2
<1>4. CASE D = {}
  <2>1. \A i \in 1..Len(a) : a[i] = b[i]
    BY <1>3, <1>4
  <2>2. a = b
    BY <1>1, <1>2, <2>1, SeqEqual
  <2>3. QED
    BY <2>2 DEF a, b
<1>5. CASE D # {}
  <2>1. D \in SUBSET Nat
    BY <1>3
  <2>2. Min(D) \in D /\ \A i \in D : Min(D) <= i
    BY <1>5, <2>1, MinProperty
  <2> DEFINE m == Min(D)
  <2>3. m \in DOMAIN a /\ m \in DOMAIN b /\ a[m] # b[m]
    BY <1>3, <2>2
  <2>4. \A i \in D : m <= i
    BY <2>2
  <2> HIDE DEF m
  <2>5. ASSUME NEW i \in 1..m - 1
        PROVE  a[i] = b[i]
    <3>1. i \in DOMAIN a /\ ~(m <= i)
      BY <1>3, <2>3
    <3>2. QED
      BY <2>4, <3>1
  <2>6. Less(b[m], a[m])
    BY <1>1, <1>2, <2>3, <2>5, SortedBefore
  <2>7. Less(a[m], b[m])
    BY <1>1, <1>2, <2>3, <2>5, SortedBefore
  <2>8. a[m] \in Words /\ b[m] \in Words
    BY <1>1, <1>2, <2>3
  <2>9. QED
    BY <2>6, <2>7, <2>8, LessIsTransitive, LessIsStrict
<1>6. QED
  BY <1>4, <1>5

----------------------------------------------------------------------------
(* Lists of texts, each followed by a comma.                               *)

IsFlattening(f, s) ==
    /\ f \in [1..Len(s) -> Texts]
    /\ f[1] = s[1]
    /\ \A i \in 2..Len(s) : f[i] = f[i - 1] \o s[i]

LEMMA FlatteningExists ==
    ASSUME NEW s \in Seq(Texts), Len(s) > 0
    PROVE  \E f : IsFlattening(f, s)
<1> DEFINE n == Len(s)
           T == {k \in 0..n - 1 : \E f \in [1..k + 1 -> Texts] :
                    /\ f[1] = s[1]
                    /\ \A i \in 2..k + 1 : f[i] = f[i - 1] \o s[i]}
<1>1. n \in Nat /\ n - 1 \in Nat /\ \A i \in 1..n : s[i] \in Texts
  OBVIOUS
<1> HIDE DEF n
<1>2. 0 \in T
  <2> DEFINE f == [i \in 1..0 + 1 |-> s[1]]
  <2>1. f \in [1..0 + 1 -> Texts] /\ f[1] = s[1]
    BY <1>1
  <2>2. \A i \in 2..0 + 1 : f[i] = f[i - 1] \o s[i]
    OBVIOUS
  <2> HIDE DEF f
  <2>3. \E g \in [1..0 + 1 -> Texts] :
           /\ g[1] = s[1]
           /\ \A i \in 2..0 + 1 : g[i] = g[i - 1] \o s[i]
    BY <2>1, <2>2
  <2>4. 0 \in 0..n - 1
    BY <1>1
  <2>5. QED
    BY <2>3, <2>4
<1>3. ASSUME NEW k \in 0..(n - 1) - 1, k \in T
      PROVE  k + 1 \in T
  <2>1. PICK f \in [1..k + 1 -> Texts] :
                /\ f[1] = s[1]
                /\ \A i \in 2..k + 1 : f[i] = f[i - 1] \o s[i]
    BY <1>3
  <2>2. k \in Nat /\ k + 1 \in 0..n - 1 /\ (k + 1) + 1 \in 1..n /\ k + 1 \in 1..k + 1
    BY <1>1
  <2> DEFINE m == (k + 1) + 1
             g == [i \in 1..m |-> IF i = m THEN f[k + 1] \o s[m] ELSE f[i]]
  <2>3. f[k + 1] \o s[m] \in Texts
    BY <1>1, <2>1, <2>2, Joined
  <2>4. \A i \in 1..m : i = m \/ i \in 1..k + 1
    BY <2>2
  <2>5. g \in [1..m -> Texts]
    BY <2>1, <2>3, <2>4
  <2>6. g[1] = s[1]
    BY <2>1, <2>2
  <2>7. ASSUME NEW i \in 2..m
        PROVE  g[i] = g[i - 1] \o s[i]
    <3>1. CASE i = m
      <4>1. i - 1 = k + 1 /\ i - 1 \in 1..m /\ i - 1 # m /\ m \in 1..m
        BY <2>2, <3>1
      <4>2. g[m] = f[k + 1] \o s[m]
        BY <4>1
      <4>3. g[i - 1] = f[k + 1]
        BY <4>1
      <4>4. QED
        BY <3>1, <4>2, <4>3
    <3>2. CASE i # m
      <4>1. i \in 2..k + 1 /\ i \in 1..m /\ i - 1 \in 1..m /\ i - 1 # m
        BY <2>2, <3>2
      <4>2. g[i] = f[i] /\ g[i - 1] = f[i - 1]
        BY <3>2, <4>1
      <4>3. QED
        BY <2>1, <4>1, <4>2
    <3>3. QED
      BY <3>1, <3>2
  <2> HIDE DEF g
  <2>8. QED
    BY <2>2, <2>5, <2>6, <2>7
<1>4. n - 1 \in T
  <2> HIDE DEF T
  <2>1. n - 1 \in 0..n - 1
    BY <1>1
  <2>2. \A k \in 0..n - 1 : k \in T
    BY <1>1, <1>2, <1>3, CountingUp
  <2>3. QED
    BY <2>1, <2>2
<1>5. (n - 1) + 1 = n
  BY <1>1
<1>6. QED
  BY <1>4, <1>5 DEF IsFlattening, n

(* FlattenSeq by its defining equation.                                    *)
LEMMA FlattenSeqIs ==
    ASSUME NEW s \in Seq(Texts), NEW f, IsFlattening(f, s), Len(s) > 0
    PROVE  FlattenSeq(s) = f[Len(s)]
<1> DEFINE n == Len(s)
           Eq(g) == g = [i \in 1..n |-> IF i = 1 THEN s[i] ELSE g[i - 1] \o s[i]]
           flatten == CHOOSE g : Eq(g)
<1>1. n \in Nat /\ n # 0 /\ \A i \in 1..n : s[i] \in Texts
  OBVIOUS
<1>2. FlattenSeq(s) = flatten[n]
  BY <1>1 DEF FlattenSeq
<1> HIDE DEF n
<1>3. /\ f \in [1..n -> Texts]
      /\ f[1] = s[1]
      /\ \A i \in 2..n : f[i] = f[i - 1] \o s[i]
  BY DEF IsFlattening, n
<1>4. Eq(f)
  <2>1. ASSUME NEW i \in 1..n
        PROVE  f[i] = IF i = 1 THEN s[i] ELSE f[i - 1] \o s[i]
    <3>1. i = 1 \/ i \in 2..n
      BY <1>1
    <3>2. QED
      BY <1>3, <3>1
  <2>2. QED
    BY <1>3, <2>1
<1>5. Eq(flatten)
  BY <1>4
<1>6. flatten = f
  <2> DEFINE g == flatten
             T == {k \in 0..n - 1 : g[k + 1] = f[k + 1]}
  <2>1. g = [i \in 1..n |-> IF i = 1 THEN s[i] ELSE g[i - 1] \o s[i]]
    BY <1>5
  <2> HIDE DEF g
  <2>2. DOMAIN g = 1..n /\ \A i \in 1..n : g[i] = IF i = 1 THEN s[i] ELSE g[i - 1] \o s[i]
    BY <2>1
  <2>3. 0 \in T
    <3>1. 1 \in 1..n /\ 0 \in 0..n - 1
      BY <1>1
    <3>2. g[1] = s[1]
      BY <2>2, <3>1
    <3>3. QED
      BY <1>3, <3>1, <3>2
  <2>4. ASSUME NEW k \in 0..(n - 1) - 1, k \in T
        PROVE  k + 1 \in T
    <3>1. /\ k + 1 \in 0..n - 1 /\ (k + 1) + 1 \in 1..n /\ (k + 1) + 1 # 1
          /\ (k + 1) + 1 \in 2..n /\ ((k + 1) + 1) - 1 = k + 1
      BY <1>1
    <3>2. f[(k + 1) + 1] = f[k + 1] \o s[(k + 1) + 1]
      BY <1>3, <3>1
    <3>3. g[(k + 1) + 1] = g[k + 1] \o s[(k + 1) + 1]
      BY <2>2, <3>1
    <3>4. QED
      BY <2>4, <3>1, <3>2, <3>3
  <2> HIDE DEF T
  <2>5. n - 1 \in Nat
    BY <1>1
  <2>6. \A k \in 0..n - 1 : k \in T
    BY <2>3, <2>4, <2>5, CountingUp
  <2>7. ASSUME NEW i \in 1..n
        PROVE  g[i] = f[i]
    <3>1. i - 1 \in 0..n - 1 /\ (i - 1) + 1 = i
      BY <1>1
    <3>2. QED
      BY <2>6, <3>1 DEF T
  <2>8. g = f
    <3>1. g = [i \in 1..n |-> g[i]]
      BY <2>1, <2>2
    <3>2. f = [i \in 1..n |-> f[i]]
      BY <1>3
    <3>3. QED
      BY <2>7, <3>1, <3>2
  <2>9. QED
    BY <2>8 DEF g
<1>7. QED
  BY <1>2, <1>6 DEF n

Prefix(s, k) == [i \in 1..k |-> s[i]]

Comma == <<",">>

Terminated(s) == [i \in DOMAIN s |-> s[i] \o Comma]

LEMMA PrefixType ==
    ASSUME NEW S, NEW s \in Seq(S), NEW k \in 0..Len(s)
    PROVE  /\ Prefix(s, k) \in Seq(S)
           /\ Len(Prefix(s, k)) = k
           /\ DOMAIN Prefix(s, k) = 1..k
           /\ \A i \in 1..k : Prefix(s, k)[i] = s[i] /\ s[i] \in S
<1>1. Len(s) \in Nat /\ k \in Nat
  OBVIOUS
<1>2. \A i \in 1..k : s[i] \in S
  BY <1>1
<1>3. Prefix(s, k) \in [1..k -> S]
  BY <1>2 DEF Prefix
<1>4. Prefix(s, k) \in Seq(S) /\ Len(Prefix(s, k)) = k
  BY <1>1, <1>3
<1>5. QED
  BY <1>2, <1>4 DEF Prefix

LEMMA CommaText ==
    /\ Comma \in Texts /\ Len(Comma) = 1
    /\ \A c : Has(Comma, c) <=> c = Comma[1]
<1>1. "," \in STRING
  BY TokensAssumption, Zenon
<1>2. QED
  BY <1>1, OneTokenText, Zenon DEF Comma

LEMMA TerminatedType ==
    ASSUME NEW s \in Seq(Texts)
    PROVE  /\ Terminated(s) \in Seq(Texts)
           /\ Len(Terminated(s)) = Len(s)
           /\ \A i \in 1..Len(s) : Terminated(s)[i] = s[i] \o Comma
<1> DEFINE n == Len(s)
           e == [i \in 1..n |-> s[i] \o Comma]
<1>1. Comma \in Texts
  BY CommaText
<1>2. DOMAIN s = 1..n /\ n \in Nat /\ \A i \in 1..n : s[i] \in Texts
  OBVIOUS
<1>3. Terminated(s) = e
  BY <1>2 DEF Terminated
<1> HIDE DEF n
<1>4. \A i \in 1..n : s[i] \o Comma \in Texts
  BY <1>1, <1>2, Joined
<1>5. e \in [1..n -> Texts] /\ \A i \in 1..n : e[i] = s[i] \o Comma
  BY <1>4
<1> HIDE DEF e
<1>6. e \in Seq(Texts) /\ Len(e) = n
  BY <1>2, <1>5
<1>7. QED
  BY <1>3, <1>5, <1>6 DEF n

LEMMA ListedIs ==
    ASSUME NEW s \in Seq(Texts), Len(s) > 0
    PROVE  \E f : /\ IsFlattening(f, Terminated(s))
                  /\ \A k \in 1..Len(s) : Listed(Prefix(s, k)) = f[k]
<1> DEFINE n == Len(s)
           e == Terminated(s)
<1>1. n \in Nat
  OBVIOUS
<1>2. e \in Seq(Texts) /\ Len(e) = n /\ \A i \in 1..n : e[i] = s[i] \o Comma
  BY TerminatedType
<1> HIDE DEF e
<1>3. PICK f : IsFlattening(f, e)
  BY <1>2, FlatteningExists
<1>4. ASSUME NEW k \in 1..n
      PROVE  Listed(Prefix(s, k)) = f[k]
  <2> DEFINE p == Prefix(e, k)
             q == Prefix(s, k)
             g == [i \in 1..k |-> f[i]]
  <2>1. k \in 0..n /\ k \in Nat /\ k > 0
    BY <1>1
  <2>2. /\ p \in Seq(Texts) /\ Len(p) = k
        /\ \A i \in 1..k : p[i] = e[i]
    BY <1>2, <2>1, PrefixType
  <2>3. /\ DOMAIN q = 1..k
        /\ \A i \in 1..k : q[i] = s[i]
    BY <2>1, PrefixType
  <2>4. \A i \in 1..n : e[i] = s[i] \o Comma
    BY <1>2
  <2>5. Listed(q) = FlattenSeq(Terminated(q))
    BY DEF Listed, Terminated, Comma
  <2>6. Terminated(q) = [i \in DOMAIN q |-> q[i] \o Comma]
    BY DEF Terminated
  <2>7. p = [i \in 1..k |-> e[i]]
    BY DEF Prefix
  <2> HIDE DEF n, p, q
  <2>8. \A i \in 1..k : i \in 1..n
    BY <1>1, <1>4
  <2>9. Terminated(q) = p
    <3>1. \A i \in 1..k : q[i] \o Comma = e[i]
      BY <2>3, <2>4, <2>8, Zenon
    <3>2. QED
      BY <2>3, <2>6, <2>7, <3>1, Zenon
  <2>10. /\ f \in [1..n -> Texts]
         /\ f[1] = e[1]
         /\ \A i \in 2..n : f[i] = f[i - 1] \o e[i]
    BY <1>2, <1>3 DEF IsFlattening
  <2>11. IsFlattening(g, p)
    <3>1. g \in [1..k -> Texts]
      BY <2>8, <2>10
    <3>2. 1 \in 1..k
      BY <2>1
    <3>3. g[1] = p[1]
      BY <2>2, <2>10, <3>2
    <3>4. ASSUME NEW i \in 2..k
          PROVE  g[i] = g[i - 1] \o p[i]
      <4>1. i \in 1..k /\ i - 1 \in 1..k /\ i \in 2..n
        BY <1>1, <1>4, <2>1
      <4>2. g[i] = f[i] /\ g[i - 1] = f[i - 1]
        BY <4>1
      <4>3. f[i] = f[i - 1] \o e[i] /\ p[i] = e[i]
        BY <2>2, <2>10, <4>1
      <4> HIDE DEF g
      <4>4. QED
        BY <4>2, <4>3, Zenon
    <3> HIDE DEF g
    <3>5. QED
      BY <2>2, <3>1, <3>3, <3>4 DEF IsFlattening
  <2>12. FlattenSeq(p) = g[k]
    <3> HIDE DEF g
    <3>1. QED
      BY <2>1, <2>2, <2>11, FlattenSeqIs
  <2>13. g[k] = f[k]
    BY <2>1
  <2>14. QED
    BY <2>5, <2>9, <2>12, <2>13 DEF q
<1>5. QED
  BY <1>3, <1>4 DEF e, n

(* A list is a shorter one, a text and a comma.                            *)
LEMMA ListedStep ==
    ASSUME NEW s \in Seq(Texts)
    PROVE  /\ Listed(Prefix(s, 0)) = Empty
           /\ \A k \in 0..Len(s) : Listed(Prefix(s, k)) \in Texts
           /\ \A k \in 1..Len(s) :
                 Listed(Prefix(s, k)) = Listed(Prefix(s, k - 1)) \o s[k] \o Comma
           /\ Prefix(s, Len(s)) = s
<1> DEFINE n == Len(s)
           L(k) == Listed(Prefix(s, k))
<1>1. n \in Nat /\ DOMAIN s = 1..n /\ \A i \in 1..n : s[i] \in Texts
  OBVIOUS
<1>2. Prefix(s, n) = s
  <2>1. s = [i \in 1..n |-> s[i]]
    BY <1>1
  <2>2. QED
    BY <2>1 DEF Prefix
<1>3. L(0) = Empty
  <2> DEFINE e == Terminated(Prefix(s, 0))
  <2>1. 0 \in 0..Len(s)
    BY <1>1
  <2>2. DOMAIN Prefix(s, 0) = 1..0
    BY <2>1, PrefixType
  <2>3. e \in [1..0 -> {}]
    BY <2>2 DEF Terminated
  <2>4. L(0) = FlattenSeq(e)
    BY DEF Listed, Terminated, Comma
  <2> HIDE DEF e
  <2>5. e \in Seq({}) /\ Len(e) = 0
    BY <2>3
  <2>6. e = Empty
    BY <2>5, EmptySeq DEF Empty
  <2>7. FlattenSeq(<<>>) = <<>>
    BY DEF FlattenSeq
  <2>8. QED
    BY <2>4, <2>6, <2>7 DEF Empty
<1>4. CASE n = 0
  <2>1. \A k \in 0..n : k = 0
    BY <1>4
  <2>2. ~\E k \in 1..n : TRUE
    BY <1>4
  <2>3. QED
    BY <1>2, <1>3, <2>1, <2>2, EmptyText
<1>5. CASE n > 0
  <2>1. PICK f : /\ IsFlattening(f, Terminated(s))
                 /\ \A k \in 1..n : L(k) = f[k]
    BY <1>5, ListedIs
  <2>2. /\ Len(Terminated(s)) = n
        /\ \A i \in 1..n : Terminated(s)[i] = s[i] \o Comma
    BY TerminatedType
  <2> HIDE DEF n, L
  <2>3. /\ f \in [1..n -> Texts]
        /\ f[1] = s[1] \o Comma
        /\ \A i \in 2..n : f[i] = f[i - 1] \o (s[i] \o Comma)
    <3>1. 1 \in 1..n /\ \A i \in 2..n : i \in 1..n
      BY <1>1, <1>5
    <3>2. QED
      BY <2>1, <2>2, <3>1 DEF IsFlattening
  <2>4. ASSUME NEW k \in 0..n
        PROVE  L(k) \in Texts
    <3>1. CASE k = 0
      BY <1>3, <3>1, EmptyText
    <3>2. CASE k # 0
      <4>1. k \in 1..n
        BY <1>1, <3>2
      <4>2. QED
        BY <2>1, <2>3, <4>1
    <3>3. QED
      BY <3>1, <3>2
  <2>5. ASSUME NEW k \in 1..n
        PROVE  L(k) = L(k - 1) \o s[k] \o Comma
    <3>1. s[k] \in Texts
      BY <1>1
    <3>2. CASE k = 1
      <4>1. k - 1 = 0 /\ Empty \o s[k] = s[k]
        BY <3>1, <3>2, EmptyText
      <4>2. L(k) = s[k] \o Comma
        BY <2>1, <2>3, <3>2
      <4>3. L(k - 1) = Empty
        BY <1>3, <4>1
      <4>4. QED
        BY <4>1, <4>2, <4>3, Zenon
    <3>3. CASE k # 1
      <4>1. k \in 2..n /\ k - 1 \in 1..n
        BY <1>1, <3>3
      <4>2. L(k) = f[k] /\ L(k - 1) = f[k - 1]
        BY <2>1, <4>1
      <4>3. f[k] = f[k - 1] \o (s[k] \o Comma)
        BY <2>3, <4>1
      <4>4. f[k - 1] \in Texts /\ s[k] \in Texts /\ Comma \in Texts
        BY <2>3, <3>1, <4>1, CommaText
      <4>5. f[k - 1] \o (s[k] \o Comma) = f[k - 1] \o s[k] \o Comma
        BY <4>4, Associative, Zenon
      <4>6. QED
        BY <4>2, <4>3, <4>5, Zenon
    <3>4. QED
      BY <3>2, <3>3
  <2>6. QED
    BY <1>2, <1>3, <2>4, <2>5 DEF n, L
<1>6. QED
  BY <1>1, <1>4, <1>5

LEMMA ListedHas ==
    ASSUME NEW s \in Seq(Texts), NEW c, c # Comma[1], \A i \in 1..Len(s) : ~Has(s[i], c)
    PROVE  Listed(s) \in Texts /\ ~Has(Listed(s), c)
<1> DEFINE n == Len(s)
           L(k) == Listed(Prefix(s, k))
           T == {k \in 0..n : ~Has(L(k), c)}
<1>1. n \in Nat /\ \A i \in 1..n : s[i] \in Texts
  OBVIOUS
<1>2. /\ L(0) = Empty
      /\ \A k \in 0..n : L(k) \in Texts
      /\ \A k \in 1..n : L(k) = L(k - 1) \o s[k] \o Comma
      /\ L(n) = Listed(s)
  BY ListedStep
<1>3. \A i \in 1..n : ~Has(s[i], c)
  OBVIOUS
<1> HIDE DEF n, L
<1>4. 0 \in T
  BY <1>1, <1>2, EmptyText
<1>5. ASSUME NEW k \in 0..n - 1, k \in T
      PROVE  k + 1 \in T
  <2>1. k \in 0..n /\ k + 1 \in 1..n /\ k + 1 \in 0..n /\ (k + 1) - 1 = k
    BY <1>1
  <2>2. L(k + 1) = L(k) \o s[k + 1] \o Comma
    BY <1>2, <2>1
  <2>3. L(k) \in Texts /\ s[k + 1] \in Texts /\ ~Has(s[k + 1], c) /\ ~Has(L(k), c)
    BY <1>1, <1>2, <1>3, <1>5, <2>1
  <2>4. L(k) \o s[k + 1] \in Texts /\ ~Has(L(k) \o s[k + 1], c)
    BY <2>3, Joined, JoinedHas, Zenon
  <2>5. Comma \in Texts /\ ~Has(Comma, c)
    BY CommaText
  <2>6. ~Has(L(k) \o s[k + 1] \o Comma, c)
    BY <2>4, <2>5, JoinedHas, Zenon
  <2>7. QED
    BY <2>1, <2>2, <2>6
<1>6. n \in T
  <2> HIDE DEF T
  <2>1. \A k \in 0..n : k \in T
    BY <1>1, <1>4, <1>5, CountingUp
  <2>2. QED
    BY <1>1, <2>1
<1>7. n \in 0..n
  BY <1>1
<1>8. QED
  BY <1>2, <1>6, <1>7

LEMMA ListedEnds ==
    ASSUME NEW s \in Seq(Texts), NEW k \in 1..Len(s)
    PROVE  EndsWith(Listed(Prefix(s, k)), Comma[1])
<1> DEFINE L(i) == Listed(Prefix(s, i))
<1>1. k - 1 \in 0..Len(s) /\ s[k] \in Texts
  OBVIOUS
<1>2. /\ \A i \in 0..Len(s) : L(i) \in Texts
      /\ L(k) = L(k - 1) \o s[k] \o Comma
  BY ListedStep
<1> HIDE DEF L
<1>3. L(k - 1) \o s[k] \in Texts
  BY <1>1, <1>2, Joined
<1>4. EndsWith(L(k - 1) \o s[k] \o Comma, Comma[1])
  BY <1>3, CommaText, MarkerEnds
<1>5. QED
  BY <1>2, <1>4 DEF L

(* Texts without a comma can be read back from their list.                 *)
LEMMA ListedInjective ==
    ASSUME NEW s \in Seq(Texts), NEW t \in Seq(Texts),
           \A i \in 1..Len(s) : ~Has(s[i], Comma[1]),
           \A i \in 1..Len(t) : ~Has(t[i], Comma[1]),
           Listed(s) = Listed(t)
    PROVE  s = t
<1> DEFINE n == Len(s)
           m == Len(t)
           L(k) == Listed(Prefix(s, k))
           M(k) == Listed(Prefix(t, k))
           T == {k \in 0..n : \A l \in 0..m : L(k) = M(l) =>
                    k = l /\ \A i \in 1..k : s[i] = t[i]}
<1>1. /\ n \in Nat /\ \A i \in 1..n : s[i] \in Texts
      /\ m \in Nat /\ \A i \in 1..m : t[i] \in Texts
  OBVIOUS
<1>2. /\ L(0) = Empty
      /\ \A k \in 0..n : L(k) \in Texts
      /\ \A k \in 1..n : L(k) = L(k - 1) \o s[k] \o Comma
      /\ L(n) = Listed(s)
  BY ListedStep
<1>3. /\ M(0) = Empty
      /\ \A k \in 0..m : M(k) \in Texts
      /\ \A k \in 1..m : M(k) = M(k - 1) \o t[k] \o Comma
      /\ M(m) = Listed(t)
  BY ListedStep
<1>4. \A k \in 1..n : EndsWith(L(k), Comma[1])
  BY ListedEnds
<1>5. \A k \in 1..m : EndsWith(M(k), Comma[1])
  BY ListedEnds
<1>6. \A i \in 1..n : ~Has(s[i], Comma[1])
  OBVIOUS
<1>7. \A i \in 1..m : ~Has(t[i], Comma[1])
  OBVIOUS
<1>8. ~EndsWith(Empty, Comma[1])
  BY EmptyText DEF EndsWith
<1>9. L(n) = M(m)
  BY <1>2, <1>3
<1> HIDE DEF n, m, L, M
<1>10. 0 \in T
  <2>1. ASSUME NEW l \in 0..m, L(0) = M(l)
        PROVE  l = 0
    <3>1. l # 0 => l \in 1..m
      BY <1>1
    <3>2. QED
      BY <1>2, <1>5, <1>8, <2>1, <3>1
  <2>2. ~\E i \in 1..0 : TRUE
    OBVIOUS
  <2>3. QED
    BY <1>1, <2>1, <2>2
<1>11. ASSUME NEW k \in 0..n - 1, k \in T
       PROVE  k + 1 \in T
  <2>1. k \in 0..n /\ k + 1 \in 1..n /\ k + 1 \in 0..n /\ (k + 1) - 1 = k /\ k \in Nat
    BY <1>1
  <2>2. ASSUME NEW l \in 0..m, L(k + 1) = M(l)
        PROVE  k + 1 = l /\ \A i \in 1..k + 1 : s[i] = t[i]
    <3>1. l # 0
      BY <1>3, <1>4, <1>8, <2>1, <2>2
    <3>2. l \in 1..m /\ l - 1 \in 0..m /\ l \in Nat
      BY <1>1, <3>1
    <3>3. /\ L(k) \in Texts /\ s[k + 1] \in Texts /\ ~Has(s[k + 1], Comma[1])
          /\ M(l - 1) \in Texts /\ t[l] \in Texts /\ ~Has(t[l], Comma[1])
      BY <1>1, <1>2, <1>3, <1>6, <1>7, <2>1, <3>2
    <3>4. /\ L(k + 1) = L(k) \o s[k + 1] \o Comma
          /\ M(l) = M(l - 1) \o t[l] \o Comma
      BY <1>2, <1>3, <2>1, <3>2
    <3>5. L(k) \o s[k + 1] = M(l - 1) \o t[l]
      <4> DEFINE x == L(k) \o s[k + 1]
                 y == M(l - 1) \o t[l]
      <4>1. x \in Texts /\ y \in Texts /\ Comma \in Texts
        BY <3>3, Joined, CommaText
      <4>2. x \o Comma = y \o Comma
        BY <2>2, <3>4
      <4> HIDE DEF x, y
      <4>3. x = y
        BY <4>1, <4>2, ConcatSimplifications DEF Texts
      <4>4. QED
        BY <4>3 DEF x, y
    <3>6. L(k) = Empty \/ EndsWith(L(k), Comma[1])
      <4>1. k = 0 \/ k \in 1..n
        BY <2>1
      <4>2. QED
        BY <1>2, <1>4, <4>1
    <3>7. M(l - 1) = Empty \/ EndsWith(M(l - 1), Comma[1])
      <4>1. l - 1 = 0 \/ l - 1 \in 1..m
        BY <3>2
      <4>2. QED
        BY <1>3, <1>5, <4>1
    <3>8. L(k) = M(l - 1) /\ s[k + 1] = t[l]
      <4> DEFINE x == L(k)
                 y == M(l - 1)
                 e == s[k + 1]
                 f == t[l]
                 c == Comma[1]
      <4>1. /\ x \in Texts /\ e \in Texts /\ ~Has(e, c)
            /\ y \in Texts /\ f \in Texts /\ ~Has(f, c)
        BY <3>3
      <4>2. (x = Empty \/ EndsWith(x, c)) /\ (y = Empty \/ EndsWith(y, c))
        BY <3>6, <3>7
      <4>3. x \o e = y \o f
        BY <3>5
      <4> HIDE DEF x, y, e, f, c
      <4>4. x = y
        BY <4>1, <4>2, <4>3, CutIsUnique
      <4>5. e = f
        BY <4>1, <4>3, <4>4, ConcatSimplifications DEF Texts
      <4>6. QED
        BY <4>4, <4>5 DEF x, y, e, f
    <3>9. s[k + 1] = t[l]
      BY <3>8
    <3>10. k = l - 1 /\ \A i \in 1..k : s[i] = t[i]
      BY <1>11, <3>2, <3>8
    <3>11. k + 1 = l
      BY <2>1, <3>2, <3>10
    <3>12. \A i \in 1..k + 1 : i \in 1..k \/ i = k + 1
      BY <2>1
    <3>13. QED
      BY <3>9, <3>10, <3>11, <3>12
  <2>3. QED
    BY <2>1, <2>2
<1>12. n \in T
  <2> HIDE DEF T
  <2>1. \A k \in 0..n : k \in T
    BY <1>1, <1>10, <1>11, CountingUp
  <2>2. QED
    BY <1>1, <2>1
<1>13. n = m /\ \A i \in 1..n : s[i] = t[i]
  <2>1. m \in 0..m
    BY <1>1
  <2>2. QED
    BY <1>9, <1>12, <2>1
<1>14. QED
  BY <1>13, SeqEqual DEF n, m

----------------------------------------------------------------------------
(* A key and its value.                                                    *)

Equals == <<"=">>

LEMMA EqualsText ==
    /\ Equals \in Texts /\ Len(Equals) = 1
    /\ \A c : Has(Equals, c) <=> c = Equals[1]
<1>1. "=" \in STRING
  BY TokensAssumption, Zenon
<1>2. QED
  BY <1>1, OneTokenText, Zenon DEF Equals

LEMMA EarlierCut ==
    ASSUME NEW t \in Texts, NEW u \in Texts, NEW e \in Texts, NEW f \in Texts,
           ~Has(u, Equals[1]), t \o Equals \o e = u \o Equals \o f
    PROVE  ~(Len(t) < Len(u))
<1> SUFFICES ASSUME Len(t) < Len(u)
             PROVE  FALSE
  OBVIOUS
<1> DEFINE c == Equals[1]
           p == t \o Equals
           v == p \o e
           q == u \o Equals
           n == Len(t) + 1
<1>1. /\ p \in Texts /\ Len(p) = Len(t) + Len(Equals) /\ Len(t) \in Nat
      /\ \A i \in 1..Len(Equals) : p[Len(t) + i] = Equals[i]
  BY EqualsText, Joined
<1>2. /\ q \in Texts /\ Len(q) = Len(u) + Len(Equals) /\ Len(u) \in Nat
      /\ \A i \in 1..Len(u) : q[i] = u[i]
  BY EqualsText, Joined
<1>3. Len(Equals) = 1
  BY EqualsText
<1>4. v = q \o f
  OBVIOUS
<1> HIDE DEF p, q
<1>5. \A i \in 1..Len(p) : v[i] = p[i]
  BY <1>1, Joined
<1>6. \A i \in 1..Len(q) : v[i] = q[i]
  BY <1>2, <1>4, Joined
<1> HIDE DEF v
<1>7. n \in 1..Len(p) /\ n \in 1..Len(q) /\ n \in 1..Len(u) /\ 1 \in 1..Len(Equals)
  BY <1>1, <1>2, <1>3
<1>8. p[n] = c
  BY <1>1, <1>7
<1>9. u[n] = c
  BY <1>2, <1>5, <1>6, <1>7, <1>8
<1>10. DOMAIN u = 1..Len(u)
  BY DEF Texts
<1>11. QED
  BY <1>7, <1>9, <1>10 DEF Has

LEMMA FirstCutIsUnique ==
    ASSUME NEW t \in Texts, NEW u \in Texts, NEW e \in Texts, NEW f \in Texts,
           ~Has(t, Equals[1]), ~Has(u, Equals[1]), t \o Equals \o e = u \o Equals \o f
    PROVE  t = u /\ e = f
<1> DEFINE p == t \o Equals
           q == u \o Equals
<1>1. Len(t) \in Nat /\ Len(u) \in Nat
  BY DEF Texts
<1>2. ~(Len(t) < Len(u))
  BY EarlierCut
<1>3. ~(Len(u) < Len(t))
  <2>1. u \o Equals \o f = t \o Equals \o e
    OBVIOUS
  <2>2. QED
    BY <2>1, EarlierCut
<1>4. Len(t) = Len(u)
  BY <1>1, <1>2, <1>3
<1>5. /\ p \in Texts /\ Len(p) = Len(t) + Len(Equals)
      /\ \A i \in 1..Len(t) : p[i] = t[i]
  BY EqualsText, Joined
<1>6. /\ q \in Texts /\ Len(q) = Len(u) + Len(Equals)
      /\ \A i \in 1..Len(u) : q[i] = u[i]
  BY EqualsText, Joined
<1>7. p \o e = q \o f
  OBVIOUS
<1>8. Len(Equals) = 1
  BY EqualsText
<1> HIDE DEF p, q
<1> DEFINE v == p \o e
<1>9. \A i \in 1..Len(p) : v[i] = p[i]
  BY <1>5, Joined
<1>10. \A i \in 1..Len(q) : v[i] = q[i]
  BY <1>6, <1>7, Joined
<1> HIDE DEF v
<1>11. Len(p) = Len(q) /\ \A i \in 1..Len(p) : p[i] = q[i]
  BY <1>4, <1>5, <1>6, <1>9, <1>10
<1>12. p = q
  BY <1>5, <1>6, <1>11, SeqEqual DEF Texts
<1>13. \A i \in 1..Len(t) : t[i] = u[i]
  <2>1. \A i \in 1..Len(t) : p[i] = u[i]
    BY <1>4, <1>6, <1>12
  <2>2. QED
    BY <1>5, <2>1
<1>14. t = u
  BY <1>4, <1>13, SeqEqual DEF Texts
<1>15. e = f
  BY <1>5, <1>7, <1>12, ConcatSimplifications DEF Texts
<1>16. QED
  BY <1>14, <1>15

Assigned(s, v) == [i \in DOMAIN s |-> s[i] \o Equals \o v[s[i]]]

(* A map of texts none of which has a text that is written between them.   *)
PlainMap(v) ==
    /\ IsFiniteSet(DOMAIN v)
    /\ \A k \in DOMAIN v :
          /\ k \in Words /\ ~Has(k, Comma[1]) /\ ~Has(k, Equals[1])
          /\ v[k] \in Texts /\ ~Has(v[k], Comma[1])

LEMMA AssignedType ==
    ASSUME NEW s \in Seq(Words), NEW v,
           \A i \in 1..Len(s) : v[s[i]] \in Texts
    PROVE  /\ Assigned(s, v) \in Seq(Texts)
           /\ Len(Assigned(s, v)) = Len(s)
           /\ \A i \in 1..Len(s) : Assigned(s, v)[i] = s[i] \o Equals \o v[s[i]]
<1> DEFINE n == Len(s)
           e == [i \in 1..n |-> s[i] \o Equals \o v[s[i]]]
<1>1. DOMAIN s = 1..n /\ n \in Nat /\ \A i \in 1..n : s[i] \in Words
  OBVIOUS
<1>2. \A i \in 1..n : v[s[i]] \in Texts /\ s[i] \in Texts
  BY <1>1, WordsProperty
<1>3. Assigned(s, v) = e
  BY <1>1 DEF Assigned
<1> HIDE DEF n
<1>4. \A i \in 1..n : s[i] \o Equals \in Texts
  BY <1>2, EqualsText, Joined
<1>5. \A i \in 1..n : s[i] \o Equals \o v[s[i]] \in Texts
  BY <1>2, <1>4, Joined
<1>6. e \in [1..n -> Texts] /\ \A i \in 1..n : e[i] = s[i] \o Equals \o v[s[i]]
  BY <1>5
<1> HIDE DEF e
<1>7. e \in Seq(Texts) /\ Len(e) = n
  BY <1>1, <1>6
<1>8. QED
  BY <1>3, <1>6, <1>7 DEF n

LEMMA AssignedHas ==
    ASSUME NEW k \in Texts, NEW x \in Texts, NEW c, c # Equals[1], ~Has(k, c), ~Has(x, c)
    PROVE  ~Has(k \o Equals \o x, c)
<1>1. k \o Equals \in Texts /\ ~Has(k \o Equals, c)
  BY EqualsText, Joined, JoinedHas
<1>2. QED
  BY <1>1, JoinedHas

(* The maps with the same list of keys and values are the same.            *)
LEMMA AssignedInjective ==
    ASSUME NEW v, NEW w, PlainMap(v), PlainMap(w), Comma[1] # Equals[1],
           NEW a \in SetToSeqs(DOMAIN v), NEW b \in SetToSeqs(DOMAIN w),
           Listed(Assigned(Sorted(a), v)) = Listed(Assigned(Sorted(b), w))
    PROVE  DOMAIN v = DOMAIN w /\ \A k \in DOMAIN v : v[k] = w[k]
<1> DEFINE s == Sorted(a)
           t == Sorted(b)
           K == DOMAIN v
           J == DOMAIN w
<1>1. /\ IsFiniteSet(K)
      /\ \A k \in K : k \in Words /\ ~Has(k, Comma[1]) /\ ~Has(k, Equals[1])
      /\ \A k \in K : v[k] \in Texts /\ ~Has(v[k], Comma[1])
  BY DEF PlainMap
<1>2. /\ IsFiniteSet(J)
      /\ \A k \in J : k \in Words /\ ~Has(k, Comma[1]) /\ ~Has(k, Equals[1])
      /\ \A k \in J : w[k] \in Texts /\ ~Has(w[k], Comma[1])
  BY DEF PlainMap
<1> HIDE DEF K, J
<1>3. /\ s \in Seq(Words)
      /\ \A x : x \in K <=> \E i \in DOMAIN s : s[i] = x
  BY <1>1, SortedKeys DEF K
<1>4. /\ t \in Seq(Words)
      /\ \A x : x \in J <=> \E i \in DOMAIN t : t[i] = x
  BY <1>2, SortedKeys DEF J
<1>5. Listed(Assigned(s, v)) = Listed(Assigned(t, w))
  OBVIOUS
<1> HIDE DEF s, t
<1>6. DOMAIN s = 1..Len(s) /\ DOMAIN t = 1..Len(t)
  BY <1>3, <1>4
<1>7. \A i \in 1..Len(s) : s[i] \in K
  BY <1>3, <1>6
<1>8. \A i \in 1..Len(t) : t[i] \in J
  BY <1>4, <1>6
<1>9. /\ \A k \in K : k \in Texts
      /\ \A k \in J : k \in Texts
  BY <1>1, <1>2, WordsProperty
<1> DEFINE e == Assigned(s, v)
           f == Assigned(t, w)
<1>10. /\ e \in Seq(Texts) /\ Len(e) = Len(s)
       /\ \A i \in 1..Len(s) : e[i] = s[i] \o Equals \o v[s[i]]
  BY <1>1, <1>3, <1>7, AssignedType
<1>11. /\ f \in Seq(Texts) /\ Len(f) = Len(t)
       /\ \A i \in 1..Len(t) : f[i] = t[i] \o Equals \o w[t[i]]
  BY <1>2, <1>4, <1>8, AssignedType
<1>12. Listed(e) = Listed(f)
  BY <1>5
<1> HIDE DEF e, f
<1>13. ASSUME NEW i \in 1..Len(e)
       PROVE  ~Has(e[i], Comma[1])
  <2>1. s[i] \in K /\ e[i] = s[i] \o Equals \o v[s[i]]
    BY <1>7, <1>10
  <2>2. QED
    BY <1>1, <1>9, <2>1, AssignedHas
<1>14. ASSUME NEW i \in 1..Len(f)
       PROVE  ~Has(f[i], Comma[1])
  <2>1. t[i] \in J /\ f[i] = t[i] \o Equals \o w[t[i]]
    BY <1>8, <1>11
  <2>2. QED
    BY <1>2, <1>9, <2>1, AssignedHas
<1>15. e = f
  BY <1>10, <1>11, <1>12, <1>13, <1>14, ListedInjective
<1>16. Len(s) = Len(t)
  BY <1>10, <1>11, <1>15
<1>17. ASSUME NEW i \in 1..Len(s)
       PROVE  s[i] = t[i] /\ v[s[i]] = w[t[i]]
  <2> DEFINE k == s[i]
             l == t[i]
             x == v[k]
             y == w[l]
  <2>1. k \in K /\ l \in J
    BY <1>7, <1>8, <1>16
  <2>2. k \o Equals \o x = l \o Equals \o y
    BY <1>10, <1>11, <1>15, <1>16
  <2>3. /\ k \in Texts /\ ~Has(k, Equals[1])
        /\ l \in Texts /\ ~Has(l, Equals[1])
    BY <1>1, <1>2, <1>9, <2>1
  <2>4. x \in Texts /\ y \in Texts
    BY <1>1, <1>2, <2>1
  <2> HIDE DEF k, l, x, y
  <2>5. k = l
    BY <2>2, <2>3, <2>4, FirstCutIsUnique
  <2>6. x = y
    BY <2>2, <2>3, <2>4, FirstCutIsUnique
  <2>7. QED
    BY <2>5, <2>6 DEF k, l, x, y
<1>18. K = J
  <2>1. \A x : x \in K <=> x \in J
    BY <1>3, <1>4, <1>6, <1>16, <1>17
  <2>2. QED
    BY <2>1
<1>19. ASSUME NEW k \in K
       PROVE  v[k] = w[k]
  <2>1. PICK i \in 1..Len(s) : s[i] = k
    BY <1>3, <1>6
  <2>2. QED
    BY <1>17, <2>1
<1>20. QED
  BY <1>18, <1>19 DEF K, J

----------------------------------------------------------------------------
(* Lists that sort equally hold every name as often.                       *)

Places(s, x) == {i \in DOMAIN s : s[i] = x}

LEMMA SortedCounts ==
    ASSUME NEW s \in Seq(Words), NEW x
    PROVE  /\ IsFiniteSet(Places(s, x))
           /\ Cardinality(Places(Sorted(s), x)) = Cardinality(Places(s, x))
<1> DEFINE a == Sorted(s)
           f == From(s)
           S == Places(a, x)
           T == Places(s, x)
           g == [k \in S |-> f[k]]
<1>1. /\ a \in Seq(Words)
      /\ Len(a) = Len(s)
      /\ f \in Bijection(DOMAIN s, DOMAIN s)
      /\ \A k \in DOMAIN s : a[k] = s[f[k]]
  BY SortedProperty
<1> HIDE DEF a, f
<1>2. DOMAIN a = DOMAIN s /\ DOMAIN s = 1..Len(s) /\ Len(s) \in Nat
  BY <1>1
<1>3. /\ \A k \in DOMAIN s : f[k] \in DOMAIN s
      /\ \A k \in DOMAIN s : \E i \in DOMAIN s : f[i] = k
      /\ \A k, l \in DOMAIN s : f[k] = f[l] => k = l
  BY <1>1 DEF Bijection, Injection, Surjection, IsInjective
<1>4. IsFiniteSet(S) /\ IsFiniteSet(T)
  <2>1. IsFiniteSet(1..Len(s))
    BY <1>2, FS_Interval
  <2>2. S \in SUBSET (1..Len(s)) /\ T \in SUBSET (1..Len(s))
    BY <1>2 DEF Places
  <2>3. QED
    BY <2>1, <2>2, FS_Subset
<1>5. \A k \in S : k \in DOMAIN s /\ f[k] \in T
  BY <1>1, <1>2, <1>3 DEF Places
<1>6. \A i \in T : \E k \in S : f[k] = i
  <2> TAKE i \in T
  <2>1. i \in DOMAIN s /\ s[i] = x
    BY DEF Places
  <2>2. PICK k \in DOMAIN s : f[k] = i
    BY <1>3, <2>1
  <2>3. a[k] = x
    BY <1>1, <2>1, <2>2
  <2>4. k \in S
    BY <1>2, <2>3 DEF Places
  <2>5. QED
    BY <2>2, <2>4
<1> HIDE DEF S, T
<1>7. g \in Bijection(S, T)
  <2>1. g \in [S -> T]
    BY <1>5
  <2>2. \A k, l \in S : g[k] = g[l] => k = l
    BY <1>3, <1>5
  <2>3. \A i \in T : \E k \in S : g[k] = i
    BY <1>6
  <2> HIDE DEF g
  <2>4. QED
    BY <2>1, <2>2, <2>3 DEF Bijection, Injection, Surjection, IsInjective
<1>8. ExistsBijection(S, T)
  BY <1>7 DEF ExistsBijection
<1>9. Cardinality(T) = Cardinality(S)
  BY <1>4, <1>8, FS_Bijection
<1>10. QED
  BY <1>4, <1>9 DEF S, T, a

LEMMA SameLists ==
    ASSUME NEW s \in Seq(Words), NEW t \in Seq(Words), Sorted(s) = Sorted(t)
    PROVE  /\ Len(s) = Len(t)
           /\ SameComponents(s, t)
           /\ ToSet(s) = ToSet(t)
<1>1. Len(s) = Len(t)
  BY SortedProperty
<1>2. ASSUME NEW x
      PROVE  Cardinality(Places(s, x)) = Cardinality(Places(t, x))
  BY SortedCounts
<1>3. ASSUME NEW x
      PROVE  x \in ToSet(s) <=> x \in ToSet(t)
  <2>1. /\ IsFiniteSet(Places(s, x)) /\ IsFiniteSet(Places(t, x))
    BY SortedCounts
  <2>2. Places(s, x) = {} <=> Places(t, x) = {}
    BY <1>2, <2>1, FS_EmptySet
  <2>3. QED
    BY <2>2 DEF ToSet, Places
<1>4. QED
  BY <1>1, <1>2, <1>3 DEF SameComponents, Places

----------------------------------------------------------------------------
(* Reading the hash of plain values back, section by section.              *)

Typed(p) == DOMAIN p = Fields /\ \A f \in Fields : p[f] \in Values(f)

LEMMA SeparatorsAreNotMarkers ==
    /\ Comma[1] \notin Markers /\ Equals[1] \notin Markers /\ Comma[1] # Equals[1]
    /\ Comma[1] = "," /\ Equals[1] = "="
<1>1. "," \in STRING /\ "=" \in STRING
  BY TokensAssumption, Zenon
<1>2. Comma[1] = ","
  BY <1>1, OneTokenText, Zenon DEF Comma
<1>3. Equals[1] = "="
  BY <1>1, OneTokenText, Zenon DEF Equals
<1>4. "," \notin Markers
  BY Zenon DEF Markers
<1>5. "=" \notin Markers
  BY Zenon DEF Markers
<1>6. "," # "="
  BY Zenon
<1>7. QED
  BY <1>2, <1>3, <1>4, <1>5, <1>6, Zenon

LEMMA FormatBoolPlain ==
    ASSUME NEW b \in BOOLEAN
    PROVE  /\ Plain(FormatBool(b)) /\ ~Has(FormatBool(b), Comma[1])
           /\ FormatBool(b) = <<"true">> \/ FormatBool(b) = <<"false">>
<1>1. "true" \in STRING /\ "false" \in STRING
  BY TokensAssumption, Zenon
<1>2. <<"true">> \in Texts /\ \A c : Has(<<"true">>, c) <=> c = "true"
  BY <1>1, OneTokenText, Zenon
<1>3. <<"false">> \in Texts /\ \A c : Has(<<"false">>, c) <=> c = "false"
  BY <1>1, OneTokenText, Zenon
<1>4. "true" \notin Markers
  BY Zenon DEF Markers
<1>5. "false" \notin Markers
  BY Zenon DEF Markers
<1>6. "true" # "," /\ "false" # ","
  BY Zenon
<1>7. Comma[1] = ","
  BY SeparatorsAreNotMarkers, Zenon
<1>8. FormatBool(b) = <<"true">> \/ FormatBool(b) = <<"false">>
  BY Zenon DEF FormatBool
<1>9. QED
  BY <1>2, <1>3, <1>4, <1>5, <1>6, <1>7, <1>8, Zenon DEF Plain

LEMMA FormatBoolInjective ==
    ASSUME NEW a \in BOOLEAN, NEW b \in BOOLEAN, FormatBool(a) = FormatBool(b)
    PROVE  a = b
<1>1. "true" \in STRING /\ "false" \in STRING /\ "true" # "false"
  BY TokensAssumption, Zenon
<1>2. \A c : Has(<<"true">>, c) <=> c = "true"
  BY <1>1, OneTokenText, Zenon
<1>3. \A c : Has(<<"false">>, c) <=> c = "false"
  BY <1>1, OneTokenText, Zenon
<1>4. <<"true">> # <<"false">>
  BY <1>1, <1>2, <1>3, Zenon
<1> DEFINE x == <<"true">>
           y == <<"false">>
<1>5. (IF a THEN x ELSE y) = (IF b THEN x ELSE y)
  BY Zenon DEF FormatBool
<1>6. x # y
  BY <1>4
<1> HIDE DEF x, y
<1>7. QED
  BY <1>5, <1>6

LEMMA PlainTrimmed ==
    ASSUME NEW t, Plain(t)
    PROVE  Plain(TrimSpace(t))
BY TrimSpaceProperty DEF Plain

LEMMA TextParts ==
    ASSUME NEW p, Typed(p), PlainTexts
    PROVE  /\ Plain(TrimSpace(p.source)) /\ Plain(TrimSpace(p.namespace))
           /\ Plain(TrimSpace(p.architecture)) /\ Plain(TrimSpace(p.key))
<1>1. /\ p.source \in Values("source") /\ p.namespace \in Values("namespace")
      /\ p.architecture \in Values("architecture") /\ p.key \in Values("key")
  BY DEF Typed, Fields
<1>2. Plain(p.source) /\ Plain(p.namespace) /\ Plain(p.architecture) /\ Plain(p.key)
  BY <1>1 DEF PlainTexts
<1>3. QED
  BY <1>2, PlainTrimmed

LEMMA BooleanParts ==
    ASSUME NEW p, Typed(p)
    PROVE  /\ p.confirm \in BOOLEAN /\ p.adopt \in BOOLEAN /\ p.skipSignature \in BOOLEAN
           /\ p.plainHTTP \in BOOLEAN /\ p.insecureTLS \in BOOLEAN
<1>1. /\ p.confirm \in Values("confirm") /\ p.adopt \in Values("adopt")
      /\ p.skipSignature \in Values("skipSignature")
      /\ p.plainHTTP \in Values("plainHTTP") /\ p.insecureTLS \in Values("insecureTLS")
  BY DEF Typed, Fields
<1>2. /\ Values("confirm") \subseteq BOOLEAN /\ Values("adopt") \subseteq BOOLEAN
      /\ Values("skipSignature") \subseteq BOOLEAN
      /\ Values("plainHTTP") \subseteq BOOLEAN /\ Values("insecureTLS") \subseteq BOOLEAN
  BY ParametersAssumption
<1>3. QED
  BY <1>1, <1>2

LEMMA NumberParts ==
    ASSUME NEW p, Typed(p), PlainNumbers
    PROVE  /\ Plain(Itoa(p.retries)) /\ Plain(Itoa(p.timeout))
           /\ p.retries \in Values("retries") /\ p.timeout \in Values("timeout")
<1>1. p.retries \in Values("retries") /\ p.timeout \in Values("timeout")
  BY DEF Typed, Fields
<1>2. QED
  BY <1>1 DEF PlainNumbers

LEMMA PlainListed ==
    ASSUME NEW s \in Seq(Texts), \A i \in 1..Len(s) : \A c \in Markers : ~Has(s[i], c)
    PROVE  Plain(Listed(s))
<1>1. ASSUME NEW c \in Markers
      PROVE  Listed(s) \in Texts /\ ~Has(Listed(s), c)
  <2>1. c # Comma[1]
    BY SeparatorsAreNotMarkers, Zenon
  <2>2. \A i \in 1..Len(s) : ~Has(s[i], c)
    BY Zenon
  <2>3. QED
    BY <2>1, <2>2, ListedHas
<1>2. Markers # {}
  BY Zenon DEF Markers
<1>3. QED
  BY <1>1, <1>2 DEF Plain

LEMMA ComponentParts ==
    ASSUME NEW p, Typed(p), PlainComponents
    PROVE  /\ p.components \in Seq(Words)
           /\ Sorted(p.components) \in Seq(Texts)
           /\ \A i \in 1..Len(Sorted(p.components)) : ~Has(Sorted(p.components)[i], Comma[1])
           /\ Plain(Listed(Sorted(p.components)))
<1> DEFINE s == p.components
           a == Sorted(s)
           f == From(s)
<1>1. s \in Values("components")
  BY DEF Typed, Fields
<1>2. s \in Seq(Words)
  BY <1>1, ParametersAssumption
<1>3. \A i \in DOMAIN s : Plain(s[i]) /\ ~Has(s[i], Comma[1])
  BY <1>1, SeparatorsAreNotMarkers, Zenon DEF PlainComponents
<1> HIDE DEF s
<1>4. /\ a \in Seq(Words)
      /\ Len(a) = Len(s)
      /\ f \in Bijection(DOMAIN s, DOMAIN s)
      /\ \A k \in DOMAIN s : a[k] = s[f[k]]
  BY <1>2, SortedProperty
<1> HIDE DEF a, f
<1>5. DOMAIN s = 1..Len(a) /\ Len(a) \in Nat
  BY <1>2, <1>4
<1>6. \A k \in 1..Len(a) : f[k] \in DOMAIN s
  BY <1>4, <1>5 DEF Bijection, Injection
<1>7. \A k \in 1..Len(a) : Plain(a[k]) /\ ~Has(a[k], Comma[1])
  BY <1>3, <1>4, <1>5, <1>6
<1>8. a \in Seq(Texts)
  <2>1. \A k \in 1..Len(a) : a[k] \in Texts
    BY <1>7 DEF Plain
  <2>2. a = [k \in 1..Len(a) |-> a[k]]
    BY <1>4
  <2>3. QED
    BY <1>5, <2>1, <2>2
<1>9. Plain(Listed(a))
  BY <1>7, <1>8, PlainListed DEF Plain
<1>10. QED
  BY <1>2, <1>7, <1>8, <1>9 DEF a, s

LEMMA PlainAssigned ==
    ASSUME NEW v, IsFiniteSet(DOMAIN v), \A k \in DOMAIN v : k \in Words,
           \A k \in DOMAIN v : Plain(k) /\ Plain(v[k]),
           NEW a \in SetToSeqs(DOMAIN v)
    PROVE  Plain(Listed(Assigned(Sorted(a), v)))
<1> DEFINE s == Sorted(a)
           e == Assigned(s, v)
<1>1. /\ s \in Seq(Words)
      /\ \A x : x \in DOMAIN v <=> \E i \in DOMAIN s : s[i] = x
  BY SortedKeys
<1> HIDE DEF s
<1>2. DOMAIN s = 1..Len(s)
  BY <1>1
<1>3. \A i \in 1..Len(s) : s[i] \in DOMAIN v
  BY <1>1, <1>2
<1>4. \A i \in 1..Len(s) : v[s[i]] \in Texts /\ s[i] \in Texts
  BY <1>3 DEF Plain
<1>5. /\ e \in Seq(Texts) /\ Len(e) = Len(s)
      /\ \A i \in 1..Len(s) : e[i] = s[i] \o Equals \o v[s[i]]
  BY <1>1, <1>4, AssignedType
<1> HIDE DEF e
<1>6. ASSUME NEW i \in 1..Len(e), NEW c \in Markers
      PROVE  ~Has(e[i], c)
  <2>1. c # Equals[1]
    BY SeparatorsAreNotMarkers, Zenon
  <2> DEFINE k == s[i]
             x == v[k]
  <2>2. k \in DOMAIN v /\ e[i] = k \o Equals \o x
    BY <1>3, <1>5
  <2>3. k \in Texts /\ x \in Texts /\ ~Has(k, c) /\ ~Has(x, c)
    BY <2>2 DEF Plain
  <2> HIDE DEF k, x
  <2>4. ~Has(k \o Equals \o x, c)
    BY <2>1, <2>3, AssignedHas
  <2>5. QED
    BY <2>2, <2>4
<1>7. Plain(Listed(e))
  BY <1>5, <1>6, PlainListed
<1>8. QED
  BY <1>7 DEF e, s

Booleans(m) == [k \in DOMAIN m |-> FormatBool(m[k])]

LEMMA MapsAreFinite ==
    /\ \A m \in Values("variables") :
          IsFiniteSet(DOMAIN m) /\ \A k \in DOMAIN m : k \in Words /\ m[k] \in Texts
    /\ \A m \in Values("features") :
          IsFiniteSet(DOMAIN m) /\ \A k \in DOMAIN m : k \in Words /\ m[k] \in BOOLEAN
BY ParametersAssumption

LEMMA VariableParts ==
    ASSUME NEW p, Typed(p), PlainVariables, NEW a \in RangeOrders(p.variables)
    PROVE  /\ PlainMap(p.variables)
           /\ Plain(Listed(Assigned(Sorted(a), p.variables)))
<1> DEFINE v == p.variables
<1>1. v \in Values("variables")
  BY DEF Typed, Fields
<1>2. /\ IsFiniteSet(DOMAIN v)
      /\ \A k \in DOMAIN v : k \in Words /\ v[k] \in Texts
  BY <1>1, MapsAreFinite
<1>3. \A k \in DOMAIN v : /\ Plain(k) /\ ~Has(k, Comma[1]) /\ ~Has(k, Equals[1])
                          /\ Plain(v[k]) /\ ~Has(v[k], Comma[1])
  BY <1>1, SeparatorsAreNotMarkers, Zenon DEF PlainVariables
<1>4. a \in SetToSeqs(DOMAIN v)
  BY DEF RangeOrders
<1> HIDE DEF v
<1>5. PlainMap(v)
  BY <1>2, <1>3 DEF PlainMap
<1>6. Plain(Listed(Assigned(Sorted(a), v)))
  BY <1>2, <1>3, <1>4, PlainAssigned
<1>7. QED
  BY <1>5, <1>6, Zenon DEF v

LEMMA FeatureParts ==
    ASSUME NEW p, Typed(p), PlainFeatures, NEW a \in RangeOrders(p.features)
    PROVE  Plain(Listed(Assigned(Sorted(a), Booleans(p.features))))
<1> DEFINE m == p.features
           v == Booleans(m)
<1>1. m \in Values("features")
  BY DEF Typed, Fields
<1>2. /\ IsFiniteSet(DOMAIN m)
      /\ \A k \in DOMAIN m : k \in Words /\ m[k] \in BOOLEAN
  BY <1>1, MapsAreFinite
<1>3. \A k \in DOMAIN m : Plain(k)
  BY <1>1 DEF PlainFeatures
<1>4. a \in SetToSeqs(DOMAIN m)
  BY DEF RangeOrders
<1>5. DOMAIN v = DOMAIN m /\ \A k \in DOMAIN m : v[k] = FormatBool(m[k])
  BY DEF Booleans
<1> HIDE DEF m, v
<1>6. \A k \in DOMAIN v : Plain(k) /\ Plain(v[k])
  BY <1>2, <1>3, <1>5, FormatBoolPlain
<1>7. Plain(Listed(Assigned(Sorted(a), v)))
  BY <1>2, <1>4, <1>5, <1>6, PlainAssigned
<1>8. QED
  BY <1>7, Zenon DEF m, v

----------------------------------------------------------------------------
(* The text that is hashed, section by section.                            *)

Marked(t, c, e) == t \o <<c>> \o e

LEMMA MarkedText ==
    ASSUME NEW t \in Texts, NEW c, c \in STRING, NEW e \in Texts
    PROVE  Marked(t, c, e) \in Texts
<1> DEFINE m == <<c>>
<1>1. m \in Texts
  BY OneTokenText
<1> HIDE DEF m
<1>2. t \o m \in Texts
  BY <1>1, Joined
<1>3. t \o m \o e \in Texts
  BY <1>2, Joined
<1>4. QED
  BY <1>3 DEF Marked, m

LEMMA MarkedBefore ==
    ASSUME NEW t \in Texts, NEW u \in Texts, NEW e \in Texts, NEW f \in Texts,
           NEW c, c \in STRING, ~Has(e, c), ~Has(f, c), Marked(t, c, e) = Marked(u, c, f)
    PROVE  t = u
<1> DEFINE m == <<c>>
<1>1. m \in Texts /\ Len(m) = 1 /\ m[1] = c
  BY OneTokenText
<1>2. t \o m \o e = u \o m \o f
  BY DEF Marked
<1> HIDE DEF m
<1>3. QED
  BY <1>1, <1>2, CutAtMarker

LEMMA MarkedAfter ==
    ASSUME NEW t \in Texts, NEW e \in Texts, NEW f \in Texts,
           NEW c, c \in STRING, Marked(t, c, e) = Marked(t, c, f)
    PROVE  e = f
<1> DEFINE p == t \o <<c>>
<1>1. p \in Texts
  BY OneTokenText, Joined
<1>2. p \o e = p \o f
  BY DEF Marked
<1> HIDE DEF p
<1>3. QED
  BY <1>1, <1>2, ConcatSimplifications DEF Texts

LEMMA MarkedBack ==
    ASSUME NEW t \in Texts, NEW u \in Texts, NEW e, NEW f, NEW c \in Markers,
           Plain(e), Plain(f), Marked(t, c, e) = Marked(u, c, f)
    PROVE  t = u /\ e = f
<1>1. c \in STRING
  BY TokensAssumption, Zenon
<1>2. e \in Texts /\ f \in Texts /\ ~Has(e, c) /\ ~Has(f, c)
  BY DEF Plain
<1>3. t = u
  BY <1>1, <1>2, MarkedBefore, Zenon
<1>4. Marked(t, c, e) = Marked(t, c, f)
  BY <1>3, Zenon
<1>5. e = f
  BY <1>1, <1>2, <1>4, MarkedAfter, Zenon
<1>6. QED
  BY <1>3, <1>5

LEMMA MarkedIs ==
    ASSUME NEW t \in Texts, NEW c \in Markers, NEW e \in Texts
    PROVE  Marked(t, c, e) \in Texts /\ t \o (<<c>> \o e) = Marked(t, c, e)
<1>1. c \in STRING
  BY TokensAssumption, Zenon
<1> DEFINE m == <<c>>
<1>2. m \in Texts
  BY <1>1, OneTokenText
<1>3. Marked(t, c, e) \in Texts
  BY <1>1, MarkedText
<1>4. Marked(t, c, e) = t \o m \o e
  BY DEF Marked
<1> HIDE DEF m
<1>5. t \o (m \o e) = t \o m \o e
  BY <1>2, Associative
<1>6. QED
  BY <1>3, <1>4, <1>5 DEF m

LEMMA ListedText ==
    ASSUME NEW s \in Seq(Texts)
    PROVE  Listed(s) \in Texts
<1>1. Len(s) \in 0..Len(s)
  OBVIOUS
<1>2. QED
  BY <1>1, ListedStep

LEMMA AssignedText ==
    ASSUME NEW v, IsFiniteSet(DOMAIN v), \A k \in DOMAIN v : k \in Words /\ v[k] \in Texts,
           NEW a \in SetToSeqs(DOMAIN v)
    PROVE  Listed(Assigned(Sorted(a), v)) \in Texts
<1> DEFINE s == Sorted(a)
<1>1. /\ s \in Seq(Words)
      /\ \A x : x \in DOMAIN v <=> \E i \in DOMAIN s : s[i] = x
  BY SortedKeys
<1> HIDE DEF s
<1>2. \A i \in 1..Len(s) : v[s[i]] \in Texts
  BY <1>1
<1>3. Assigned(s, v) \in Seq(Texts)
  BY <1>1, <1>2, AssignedType
<1>4. QED
  BY <1>3, ListedText DEF s

LEMMA ScalarTexts ==
    ASSUME NEW p, Typed(p)
    PROVE  /\ TrimSpace(p.source) \in Texts /\ TrimSpace(p.namespace) \in Texts
           /\ TrimSpace(p.architecture) \in Texts /\ TrimSpace(p.key) \in Texts
           /\ FormatBool(p.confirm) \in Texts /\ FormatBool(p.adopt) \in Texts
           /\ FormatBool(p.skipSignature) \in Texts /\ FormatBool(p.plainHTTP) \in Texts
           /\ FormatBool(p.insecureTLS) \in Texts
           /\ Itoa(p.retries) \in Texts /\ Itoa(p.timeout) \in Texts
<1>1. /\ p.source \in Texts /\ p.namespace \in Texts
      /\ p.architecture \in Texts /\ p.key \in Texts
  <2>1. /\ p.source \in Values("source") /\ p.namespace \in Values("namespace")
        /\ p.architecture \in Values("architecture") /\ p.key \in Values("key")
    BY DEF Typed, Fields
  <2>2. /\ Values("source") \subseteq Texts /\ Values("namespace") \subseteq Texts
        /\ Values("architecture") \subseteq Texts /\ Values("key") \subseteq Texts
    BY ParametersAssumption
  <2>3. QED
    BY <2>1, <2>2
<1>2. /\ TrimSpace(p.source) \in Texts /\ TrimSpace(p.namespace) \in Texts
      /\ TrimSpace(p.architecture) \in Texts /\ TrimSpace(p.key) \in Texts
  BY <1>1, TrimSpaceProperty
<1>3. /\ FormatBool(p.confirm) \in Texts /\ FormatBool(p.adopt) \in Texts
      /\ FormatBool(p.skipSignature) \in Texts /\ FormatBool(p.plainHTTP) \in Texts
      /\ FormatBool(p.insecureTLS) \in Texts
  BY BooleanParts, FormatBoolPlain, Zenon DEF Plain
<1>4. Itoa(p.retries) \in Texts /\ Itoa(p.timeout) \in Texts
  <2>1. p.retries \in Values("retries") /\ p.timeout \in Values("timeout")
    BY DEF Typed, Fields
  <2>2. QED
    BY <2>1, NumbersAssumption
<1>5. QED
  BY <1>2, <1>3, <1>4

LEMMA ComponentTexts ==
    ASSUME NEW p, Typed(p)
    PROVE  p.components \in Seq(Words) /\ Listed(Sorted(p.components)) \in Texts
<1>1. p.components \in Values("components")
  BY DEF Typed, Fields
<1>2. p.components \in Seq(Words)
  BY <1>1, ParametersAssumption
<1> DEFINE a == Sorted(p.components)
<1>3. a \in Seq(Words)
  BY <1>2, SortedProperty
<1> HIDE DEF a
<1>4. a \in Seq(Texts)
  BY <1>3, WordsProperty
<1>5. QED
  BY <1>2, <1>4, ListedText DEF a

LEMMA VariableTexts ==
    ASSUME NEW p, Typed(p), NEW a \in RangeOrders(p.variables)
    PROVE  /\ Listed(Assigned(Sorted(a), p.variables)) \in Texts
           /\ Variables(p, a) = <<";variables=">> \o Listed(Assigned(Sorted(a), p.variables))
<1>1. p.variables \in Values("variables")
  BY DEF Typed, Fields
<1>2. a \in SetToSeqs(DOMAIN p.variables)
  BY DEF RangeOrders
<1>3. Listed(Assigned(Sorted(a), p.variables)) \in Texts
  BY <1>1, <1>2, MapsAreFinite, AssignedText
<1>4. Variables(p, a) = <<";variables=">> \o Listed(Assigned(Sorted(a), p.variables))
  BY Zenon DEF Variables, Assigned, Equals
<1>5. QED
  BY <1>3, <1>4, Zenon

LEMMA FeatureTexts ==
    ASSUME NEW p, Typed(p), NEW a \in RangeOrders(p.features)
    PROVE  /\ Listed(Assigned(Sorted(a), Booleans(p.features))) \in Texts
           /\ Features(p, a)
                 = <<";features=">> \o Listed(Assigned(Sorted(a), Booleans(p.features)))
<1> DEFINE m == p.features
           v == Booleans(m)
           s == Sorted(a)
<1>1. m \in Values("features")
  BY DEF Typed, Fields
<1>2. /\ IsFiniteSet(DOMAIN m)
      /\ \A k \in DOMAIN m : k \in Words /\ m[k] \in BOOLEAN
  BY <1>1, MapsAreFinite
<1>3. a \in SetToSeqs(DOMAIN m)
  BY DEF RangeOrders
<1>4. DOMAIN v = DOMAIN m /\ \A k \in DOMAIN m : v[k] = FormatBool(m[k])
  BY DEF Booleans
<1>5. Features(p, a) = <<";features=">> \o
         Listed([i \in DOMAIN s |-> s[i] \o Equals \o FormatBool(m[s[i]])])
  BY Zenon DEF Features, Equals
<1>6. /\ s \in Seq(Words)
      /\ \A x : x \in DOMAIN m <=> \E i \in DOMAIN s : s[i] = x
  BY <1>2, <1>3, SortedKeys
<1> HIDE DEF m, v
<1>7. \A k \in DOMAIN v : k \in Words /\ v[k] \in Texts
  BY <1>2, <1>4, FormatBoolPlain DEF Plain
<1>8. Listed(Assigned(s, v)) \in Texts
  BY <1>2, <1>3, <1>4, <1>7, AssignedText
<1> HIDE DEF s
<1>9. \A i \in DOMAIN s : s[i] \o Equals \o FormatBool(m[s[i]]) = s[i] \o Equals \o v[s[i]]
  BY <1>4, <1>6, Zenon
<1>10. [i \in DOMAIN s |-> s[i] \o Equals \o FormatBool(m[s[i]])] = Assigned(s, v)
  BY <1>9, Zenon DEF Assigned
<1>11. QED
  BY <1>5, <1>8, <1>10, Zenon DEF m, v, s

WithSource(p)        == Marked(Empty, "source=", TrimSpace(p.source))
WithNamespace(p)     == Marked(WithSource(p), ";namespace=", TrimSpace(p.namespace))
WithArchitecture(p)  == Marked(WithNamespace(p), ";architecture=", TrimSpace(p.architecture))
WithKey(p)           == Marked(WithArchitecture(p), ";key=", TrimSpace(p.key))
WithConfirm(p)       == Marked(WithKey(p), ";confirm=", FormatBool(p.confirm))
WithAdopt(p)         == Marked(WithConfirm(p), ";adopt=", FormatBool(p.adopt))
WithSkipSignature(p) == Marked(WithAdopt(p), ";skipSignature=", FormatBool(p.skipSignature))
WithPlainHTTP(p)     == Marked(WithSkipSignature(p), ";plainHTTP=", FormatBool(p.plainHTTP))
WithInsecureTLS(p)   == Marked(WithPlainHTTP(p), ";insecureTLS=", FormatBool(p.insecureTLS))
WithRetries(p)       == Marked(WithInsecureTLS(p), ";retries=", Itoa(p.retries))
WithTimeout(p)       == Marked(WithRetries(p), ";timeout=", Itoa(p.timeout))

WithComponents(p) == Marked(WithTimeout(p), ";components=", Listed(Sorted(p.components)))

WithVariables(p, a) ==
    Marked(WithComponents(p), ";variables=", Listed(Assigned(Sorted(a), p.variables)))

WithFeatures(p, a, b) ==
    Marked(WithVariables(p, a), ";features=",
           Listed(Assigned(Sorted(b), Booleans(p.features))))

LEMMA MarkersAre ==
    /\ "source=" \in Markers /\ ";namespace=" \in Markers /\ ";architecture=" \in Markers
    /\ ";key=" \in Markers /\ ";confirm=" \in Markers /\ ";adopt=" \in Markers
    /\ ";skipSignature=" \in Markers /\ ";plainHTTP=" \in Markers
    /\ ";insecureTLS=" \in Markers /\ ";retries=" \in Markers /\ ";timeout=" \in Markers
    /\ ";components=" \in Markers /\ ";variables=" \in Markers /\ ";features=" \in Markers
    /\ ";registryName=" \in Markers /\ ";registryNamespace=" \in Markers
    /\ ";registryName=;registryNamespace=;" \in Markers
BY Zenon DEF Markers

LEMMA SectionsAreTexts ==
    ASSUME NEW p, Typed(p),
           NEW a \in RangeOrders(p.variables), NEW b \in RangeOrders(p.features)
    PROVE  /\ WithSource(p) \in Texts /\ WithNamespace(p) \in Texts
           /\ WithArchitecture(p) \in Texts /\ WithKey(p) \in Texts
           /\ WithConfirm(p) \in Texts /\ WithAdopt(p) \in Texts
           /\ WithSkipSignature(p) \in Texts /\ WithPlainHTTP(p) \in Texts
           /\ WithInsecureTLS(p) \in Texts /\ WithRetries(p) \in Texts
           /\ WithTimeout(p) \in Texts /\ WithComponents(p) \in Texts
           /\ WithVariables(p, a) \in Texts /\ WithFeatures(p, a, b) \in Texts
<1>1. /\ TrimSpace(p.source) \in Texts /\ TrimSpace(p.namespace) \in Texts
      /\ TrimSpace(p.architecture) \in Texts /\ TrimSpace(p.key) \in Texts
  BY ScalarTexts, Zenon
<1>2. /\ FormatBool(p.confirm) \in Texts /\ FormatBool(p.adopt) \in Texts
      /\ FormatBool(p.skipSignature) \in Texts /\ FormatBool(p.plainHTTP) \in Texts
      /\ FormatBool(p.insecureTLS) \in Texts
  BY ScalarTexts, Zenon
<1>3. Itoa(p.retries) \in Texts /\ Itoa(p.timeout) \in Texts
  BY ScalarTexts, Zenon
<1>4. Listed(Sorted(p.components)) \in Texts
  BY ComponentTexts, Zenon
<1>5. Listed(Assigned(Sorted(a), p.variables)) \in Texts
  BY VariableTexts, Zenon
<1>6. Listed(Assigned(Sorted(b), Booleans(p.features))) \in Texts
  BY FeatureTexts, Zenon
<1>7. WithSource(p) \in Texts
  BY <1>1, EmptyText, MarkersAre, MarkedIs, Zenon DEF WithSource
<1>8. WithNamespace(p) \in Texts
  BY <1>1, <1>7, MarkersAre, MarkedIs, Zenon DEF WithNamespace
<1>9. WithArchitecture(p) \in Texts
  BY <1>1, <1>8, MarkersAre, MarkedIs, Zenon DEF WithArchitecture
<1>10. WithKey(p) \in Texts
  BY <1>1, <1>9, MarkersAre, MarkedIs, Zenon DEF WithKey
<1>11. WithConfirm(p) \in Texts
  BY <1>2, <1>10, MarkersAre, MarkedIs, Zenon DEF WithConfirm
<1>12. WithAdopt(p) \in Texts
  BY <1>2, <1>11, MarkersAre, MarkedIs, Zenon DEF WithAdopt
<1>13. WithSkipSignature(p) \in Texts
  BY <1>2, <1>12, MarkersAre, MarkedIs, Zenon DEF WithSkipSignature
<1>14. WithPlainHTTP(p) \in Texts
  BY <1>2, <1>13, MarkersAre, MarkedIs, Zenon DEF WithPlainHTTP
<1>15. WithInsecureTLS(p) \in Texts
  BY <1>2, <1>14, MarkersAre, MarkedIs, Zenon DEF WithInsecureTLS
<1>16. WithRetries(p) \in Texts
  BY <1>3, <1>15, MarkersAre, MarkedIs, Zenon DEF WithRetries
<1>17. WithTimeout(p) \in Texts
  BY <1>3, <1>16, MarkersAre, MarkedIs, Zenon DEF WithTimeout
<1>18. WithComponents(p) \in Texts
  BY <1>4, <1>17, MarkersAre, MarkedIs, Zenon DEF WithComponents
<1>19. WithVariables(p, a) \in Texts
  BY <1>5, <1>18, MarkersAre, MarkedIs, Zenon DEF WithVariables
<1>20. WithFeatures(p, a, b) \in Texts
  BY <1>6, <1>19, MarkersAre, MarkedIs, Zenon DEF WithFeatures
<1>21. QED
  BY <1>7, <1>8, <1>9, <1>10, <1>11, <1>12, <1>13, <1>14, <1>15, <1>16, <1>17,
     <1>18, <1>19, <1>20, Zenon

LEMMA HashIs ==
    ASSUME NEW p, Typed(p),
           NEW a \in RangeOrders(p.variables), NEW b \in RangeOrders(p.features)
    PROVE  computeSpecHash(p, a, b)
              = WithFeatures(p, a, b) \o SecretRef(p.registrySecretRef)
<1>1. Scalars(p) = WithTimeout(p)
  <2>1. Empty \o <<"source=">> = <<"source=">>
    <3>1. "source=" \in STRING
      BY MarkersAre, TokensAssumption, Zenon
    <3>2. <<"source=">> \in Texts
      BY <3>1, OneTokenText, Zenon
    <3>3. QED
      BY <3>2, EmptyText, Zenon
  <2>2. WithSource(p) = <<"source=">> \o TrimSpace(p.source)
    BY <2>1, Zenon DEF WithSource, Marked
  <2>3. QED
    BY <2>2, Zenon DEF Scalars, WithNamespace, WithArchitecture, WithKey, WithConfirm,
       WithAdopt, WithSkipSignature, WithPlainHTTP, WithInsecureTLS, WithRetries,
       WithTimeout, Marked
<1>2. Listed(Sorted(p.components)) \in Texts
  BY ComponentTexts, Zenon
<1>3. /\ Listed(Assigned(Sorted(a), p.variables)) \in Texts
      /\ Variables(p, a) = <<";variables=">> \o Listed(Assigned(Sorted(a), p.variables))
  BY VariableTexts, Zenon
<1>4. /\ Listed(Assigned(Sorted(b), Booleans(p.features))) \in Texts
      /\ Features(p, b)
            = <<";features=">> \o Listed(Assigned(Sorted(b), Booleans(p.features)))
  BY FeatureTexts, Zenon
<1>5. WithTimeout(p) \in Texts /\ WithComponents(p) \in Texts /\ WithVariables(p, a) \in Texts
  BY SectionsAreTexts, Zenon
<1>6. WithTimeout(p) \o Components(p) = WithComponents(p)
  BY <1>2, <1>5, MarkersAre, MarkedIs, Zenon DEF Components, WithComponents
<1>7. WithComponents(p) \o Variables(p, a) = WithVariables(p, a)
  <2> DEFINE x == Listed(Assigned(Sorted(a), p.variables))
  <2>1. x \in Texts /\ Variables(p, a) = <<";variables=">> \o x
    BY <1>3
  <2>2. WithVariables(p, a) = Marked(WithComponents(p), ";variables=", x)
    BY Zenon DEF WithVariables
  <2> HIDE DEF x
  <2>3. ";variables=" \in Markers /\ WithComponents(p) \in Texts /\ x \in Texts
    BY <1>5, <2>1, MarkersAre, Zenon
  <2>4. WithComponents(p) \o (<<";variables=">> \o x) = Marked(WithComponents(p), ";variables=", x)
    BY <2>3, MarkedIs, Zenon
  <2>5. QED
    BY <2>1, <2>2, <2>4, Zenon
<1>8. WithVariables(p, a) \o Features(p, b) = WithFeatures(p, a, b)
  <2> DEFINE x == Listed(Assigned(Sorted(b), Booleans(p.features)))
  <2>1. x \in Texts /\ Features(p, b) = <<";features=">> \o x
    BY <1>4
  <2>2. WithFeatures(p, a, b) = Marked(WithVariables(p, a), ";features=", x)
    BY Zenon DEF WithFeatures
  <2> HIDE DEF x
  <2>3. ";features=" \in Markers /\ WithVariables(p, a) \in Texts /\ x \in Texts
    BY <1>5, <2>1, MarkersAre, Zenon
  <2>4. WithVariables(p, a) \o (<<";features=">> \o x) = Marked(WithVariables(p, a), ";features=", x)
    BY <2>3, MarkedIs, Zenon
  <2>5. QED
    BY <2>1, <2>2, <2>4, Zenon
<1>9. QED
  BY <1>1, <1>6, <1>7, <1>8, Zenon DEF computeSpecHash

LEMMA LastToken ==
    ASSUME NEW t \in Texts, NEW u \in Texts, NEW e \in Texts, Len(e) > 0,
           NEW m \in Texts, Len(m) = 1, t \o m = u \o e
    PROVE  Has(e, m[1])
<1> DEFINE v == u \o e
           c == m[1]
<1>1. EndsWith(t \o m, c)
  BY MarkerEnds
<1>2. EndsWith(v, c)
  BY <1>1
<1>3. /\ Len(v) = Len(u) + Len(e)
      /\ Len(u) \in Nat /\ Len(e) \in Nat
      /\ \A i \in 1..Len(e) : v[Len(u) + i] = e[i]
  BY Joined
<1> HIDE DEF v, c
<1>4. Len(e) \in 1..Len(e)
  BY <1>3
<1>5. v[Len(u) + Len(e)] = c
  BY <1>2, <1>3 DEF EndsWith
<1>6. e[Len(e)] = c
  BY <1>3, <1>4, <1>5
<1>7. DOMAIN e = 1..Len(e)
  BY DEF Texts
<1>8. QED
  BY <1>4, <1>6, <1>7 DEF Has, c

LEMMA SecretAfter ==
    ASSUME NEW t \in Texts, NEW ref, ref # None,
           Plain(TrimSpace(ref.name)), Plain(TrimSpace(ref.namespace))
    PROVE  t \o SecretRef(ref)
              = Marked(Marked(t, ";registryName=", TrimSpace(ref.name)),
                       ";registryNamespace=", TrimSpace(ref.namespace))
<1> DEFINE n == TrimSpace(ref.name)
           m == TrimSpace(ref.namespace)
           x == <<";registryName=">>
           y == <<";registryNamespace=">>
<1>1. ";registryName=" \in Markers /\ ";registryNamespace=" \in Markers
  BY MarkersAre, Zenon
<1>2. ";registryName=" \in STRING /\ ";registryNamespace=" \in STRING
  BY <1>1, TokensAssumption, Zenon
<1>3. x \in Texts /\ y \in Texts
  BY <1>2, OneTokenText, Zenon
<1>4. n \in Texts /\ m \in Texts
  BY Zenon DEF Plain
<1>5. SecretRef(ref) = x \o n \o y \o m
  BY Zenon DEF SecretRef
<1>6. Marked(Marked(t, ";registryName=", n), ";registryNamespace=", m) = t \o x \o n \o y \o m
  BY Zenon DEF Marked
<1> HIDE DEF x, y, n, m
<1>7. x \o n \in Texts
  BY <1>3, <1>4, Joined
<1>8. x \o n \o y \in Texts
  BY <1>3, <1>7, Joined
<1>9. t \o (x \o n \o y \o m) = t \o (x \o n \o y) \o m
  BY <1>4, <1>8, Associative
<1>10. t \o (x \o n \o y) = t \o (x \o n) \o y
  BY <1>3, <1>7, Associative
<1>11. t \o (x \o n) = t \o x \o n
  BY <1>3, <1>4, Associative
<1>12. QED
  BY <1>5, <1>6, <1>9, <1>10, <1>11, Zenon DEF n, m

(* A spec without a secret and one with a secret have different hashes.    *)
LEMMA SecretsApart ==
    ASSUME NEW t \in Texts, NEW u \in Texts, NEW ref, ref # None,
           Plain(TrimSpace(ref.name)), Plain(TrimSpace(ref.namespace))
    PROVE  t \o SecretRef(None) # u \o SecretRef(ref)
<1> DEFINE m == TrimSpace(ref.namespace)
           v == Marked(u, ";registryName=", TrimSpace(ref.name))
           r == <<";registryName=;registryNamespace=;">>
           y == <<";registryNamespace=">>
           e == y \o m
<1>1. /\ ";registryNamespace=" \in Markers /\ ";registryName=" \in Markers
      /\ ";registryName=;registryNamespace=;" \in Markers
  BY MarkersAre, Zenon
<1>2. ";registryNamespace=" \in STRING /\ ";registryName=;registryNamespace=;" \in STRING
  BY <1>1, TokensAssumption, Zenon
<1>3. r \in Texts /\ Len(r) = 1 /\ r[1] = ";registryName=;registryNamespace=;"
  BY <1>2, OneTokenText, Zenon
<1>4. y \in Texts /\ Len(y) = 1 /\ \A c : Has(y, c) <=> c = ";registryNamespace="
  BY <1>2, OneTokenText, Zenon
<1>5. ";registryName=;registryNamespace=;" # ";registryNamespace="
  BY Zenon
<1>6. ~Has(y, r[1])
  BY <1>3, <1>4, <1>5, Zenon
<1>7. m \in Texts /\ ~Has(m, r[1])
  BY <1>1, <1>3, Zenon DEF Plain
<1>8. v \in Texts
  BY <1>1, MarkedIs, Zenon DEF Plain
<1>9. u \o SecretRef(ref) = Marked(v, ";registryNamespace=", m)
  BY SecretAfter, Zenon
<1>10. Marked(v, ";registryNamespace=", m) = v \o e
  BY <1>1, <1>8, MarkedIs, Zenon DEF Plain
<1>11. t \o SecretRef(None) = t \o r
  BY Zenon DEF SecretRef
<1>12. Len(y) = 1
  BY <1>4, Zenon
<1>13. y \in Texts
  BY <1>4, Zenon
<1>14. r \in Texts /\ Len(r) = 1
  BY <1>3, Zenon
<1> HIDE DEF r, y, m, v
<1>15. e \in Texts /\ Len(e) = Len(y) + Len(m) /\ Len(m) \in Nat
  BY <1>7, <1>13, Joined
<1>16. ~Has(e, r[1])
  BY <1>6, <1>7, <1>13, JoinedHas
<1> HIDE DEF e
<1>17. t \o r # v \o e
  <2>1. Len(e) > 0
    BY <1>12, <1>15
  <2>2. ASSUME t \o r = v \o e
        PROVE  Has(e, r[1])
    BY <1>8, <1>14, <1>15, <2>1, <2>2, LastToken, Zenon
  <2>3. QED
    BY <1>16, <2>2
<1>18. QED
  BY <1>9, <1>10, <1>11, <1>17, Zenon DEF m

PlainSecret(ref) == ref # None => Plain(TrimSpace(ref.name)) /\ Plain(TrimSpace(ref.namespace))

SameSecret(r, q) ==
    /\ r = None <=> q = None
    /\ r # None => /\ TrimSpace(r.name) = TrimSpace(q.name)
                   /\ TrimSpace(r.namespace) = TrimSpace(q.namespace)

LEMMA SecretBack ==
    ASSUME NEW t \in Texts, NEW u \in Texts, NEW r, NEW q, PlainSecret(r), PlainSecret(q),
           t \o SecretRef(r) = u \o SecretRef(q)
    PROVE  t = u /\ SameSecret(r, q)
<1>1. CASE r = None /\ q = None
  <2> DEFINE x == SecretRef(None)
  <2>1. x = <<";registryName=;registryNamespace=;">>
    BY Zenon DEF SecretRef
  <2>2. ";registryName=;registryNamespace=;" \in STRING
    BY MarkersAre, TokensAssumption, Zenon
  <2>3. x \in Texts
    BY <2>1, <2>2, OneTokenText, Zenon
  <2>4. t \o x = u \o x
    BY <1>1
  <2> HIDE DEF x
  <2>5. t = u
    BY <2>3, <2>4, ConcatSimplifications DEF Texts
  <2>6. QED
    BY <1>1, <2>5 DEF SameSecret
<1>2. CASE r = None /\ q # None
  BY <1>2, SecretsApart, Zenon DEF PlainSecret
<1>3. CASE r # None /\ q = None
  <2>1. u \o SecretRef(None) = t \o SecretRef(r)
    BY <1>3
  <2>2. QED
    BY <1>3, <2>1, SecretsApart, Zenon DEF PlainSecret
<1>4. CASE r # None /\ q # None
  <2> DEFINE x == Marked(t, ";registryName=", TrimSpace(r.name))
             y == Marked(u, ";registryName=", TrimSpace(q.name))
  <2>1. ";registryName=" \in Markers /\ ";registryNamespace=" \in Markers
    BY MarkersAre, Zenon
  <2>2. /\ Plain(TrimSpace(r.name)) /\ Plain(TrimSpace(r.namespace))
        /\ Plain(TrimSpace(q.name)) /\ Plain(TrimSpace(q.namespace))
    BY <1>4, Zenon DEF PlainSecret
  <2>3. x \in Texts /\ y \in Texts
    BY <2>1, <2>2, MarkedIs, Zenon DEF Plain
  <2>4. t \o SecretRef(r) = Marked(x, ";registryNamespace=", TrimSpace(r.namespace))
    BY <1>4, <2>2, SecretAfter, Zenon
  <2>5. u \o SecretRef(q) = Marked(y, ";registryNamespace=", TrimSpace(q.namespace))
    BY <1>4, <2>2, SecretAfter, Zenon
  <2>6. Marked(x, ";registryNamespace=", TrimSpace(r.namespace))
           = Marked(y, ";registryNamespace=", TrimSpace(q.namespace))
    BY <2>4, <2>5, Zenon
  <2>7. x = y /\ TrimSpace(r.namespace) = TrimSpace(q.namespace)
    <3> DEFINE k == ";registryNamespace="
               e == TrimSpace(r.namespace)
               f == TrimSpace(q.namespace)
    <3>1. /\ k \in Markers /\ x \in Texts /\ y \in Texts /\ Plain(e) /\ Plain(f)
          /\ Marked(x, k, e) = Marked(y, k, f)
      BY <2>1, <2>2, <2>3, <2>6, Zenon
    <3> HIDE DEF k, x, y, e, f
    <3>2. x = y /\ e = f
      BY <3>1, MarkedBack
    <3>3. QED
      BY <3>2, Zenon DEF e, f
  <2> HIDE DEF x, y
  <2>8. Marked(t, ";registryName=", TrimSpace(r.name))
           = Marked(u, ";registryName=", TrimSpace(q.name))
    BY <2>7, Zenon DEF x, y
  <2>9. t = u /\ TrimSpace(r.name) = TrimSpace(q.name)
    BY <2>1, <2>2, <2>8, MarkedBack, Zenon
  <2>10. QED
    BY <1>4, <2>7, <2>9, Zenon DEF SameSecret
<1>5. QED
  BY <1>1, <1>2, <1>3, <1>4, Zenon

LEMMA SecretParts ==
    ASSUME NEW p, Typed(p), PlainSecrets
    PROVE  PlainSecret(p.registrySecretRef)
<1>1. p.registrySecretRef \in Values("registrySecretRef")
  BY DEF Typed, Fields
<1>2. QED
  BY <1>1, PlainTrimmed DEF PlainSecrets, PlainSecret

(* The sections of two specs with the same hash are the same.              *)
LEMMA HashBack ==
    ASSUME NEW p, NEW q, Typed(p), Typed(q), PlainValues,
           NEW a \in RangeOrders(p.variables), NEW b \in RangeOrders(p.features),
           NEW c \in RangeOrders(q.variables), NEW d \in RangeOrders(q.features),
           computeSpecHash(p, a, b) = computeSpecHash(q, c, d)
    PROVE  /\ WithTimeout(p) = WithTimeout(q)
           /\ Listed(Sorted(p.components)) = Listed(Sorted(q.components))
           /\ Listed(Assigned(Sorted(a), p.variables))
                 = Listed(Assigned(Sorted(c), q.variables))
           /\ SameSecret(p.registrySecretRef, q.registrySecretRef)
<1>1. /\ WithTimeout(p) \in Texts /\ WithComponents(p) \in Texts
      /\ WithVariables(p, a) \in Texts /\ WithFeatures(p, a, b) \in Texts
  BY SectionsAreTexts, Zenon
<1>2. /\ WithTimeout(q) \in Texts /\ WithComponents(q) \in Texts
      /\ WithVariables(q, c) \in Texts /\ WithFeatures(q, c, d) \in Texts
  BY SectionsAreTexts, Zenon
<1>3. PlainSecret(p.registrySecretRef) /\ PlainSecret(q.registrySecretRef)
  BY SecretParts, Zenon DEF PlainValues
<1>4. WithFeatures(p, a, b) \o SecretRef(p.registrySecretRef)
         = WithFeatures(q, c, d) \o SecretRef(q.registrySecretRef)
  BY HashIs, Zenon
<1>5. /\ WithFeatures(p, a, b) = WithFeatures(q, c, d)
      /\ SameSecret(p.registrySecretRef, q.registrySecretRef)
  <2> DEFINE t == WithFeatures(p, a, b)
             u == WithFeatures(q, c, d)
             r == p.registrySecretRef
             s == q.registrySecretRef
  <2>1. /\ t \in Texts /\ u \in Texts /\ PlainSecret(r) /\ PlainSecret(s)
        /\ t \o SecretRef(r) = u \o SecretRef(s)
    BY <1>1, <1>2, <1>3, <1>4, Zenon
  <2> HIDE DEF t, u, r, s
  <2>2. t = u
    BY <2>1, SecretBack, Zenon
  <2>3. SameSecret(r, s)
    BY <2>1, SecretBack, Zenon
  <2>4. QED
    BY <2>2, <2>3, Zenon DEF t, u, r, s
<1>6. /\ ";features=" \in Markers /\ ";variables=" \in Markers /\ ";components=" \in Markers
  BY MarkersAre, Zenon
<1>7. WithVariables(p, a) = WithVariables(q, c)
  <2> DEFINE x == Listed(Assigned(Sorted(b), Booleans(p.features)))
             y == Listed(Assigned(Sorted(d), Booleans(q.features)))
  <2>1. Plain(x)
    BY FeatureParts, Zenon DEF PlainValues
  <2>2. Plain(y)
    BY FeatureParts, Zenon DEF PlainValues
  <2> DEFINE k == ";features="
             t == WithVariables(p, a)
             u == WithVariables(q, c)
  <2>3. Marked(t, k, x) = Marked(u, k, y)
    BY <1>5, Zenon DEF WithFeatures
  <2>4. k \in Markers /\ t \in Texts /\ u \in Texts
    BY <1>1, <1>2, <1>6, Zenon
  <2> HIDE DEF x, y, k, t, u
  <2>5. t = u
    BY <2>1, <2>2, <2>3, <2>4, MarkedBack
  <2>6. QED
    BY <2>5, Zenon DEF t, u
<1>8. /\ WithComponents(p) = WithComponents(q)
      /\ Listed(Assigned(Sorted(a), p.variables)) = Listed(Assigned(Sorted(c), q.variables))
  <2> DEFINE x == Listed(Assigned(Sorted(a), p.variables))
             y == Listed(Assigned(Sorted(c), q.variables))
  <2>1. Plain(x)
    BY VariableParts, Zenon DEF PlainValues
  <2>2. Plain(y)
    BY VariableParts, Zenon DEF PlainValues
  <2> DEFINE k == ";variables="
             t == WithComponents(p)
             u == WithComponents(q)
  <2>3. Marked(t, k, x) = Marked(u, k, y)
    BY <1>7, Zenon DEF WithVariables
  <2>4. k \in Markers /\ t \in Texts /\ u \in Texts
    BY <1>1, <1>2, <1>6, Zenon
  <2> HIDE DEF x, y, k, t, u
  <2>5. t = u /\ x = y
    BY <2>1, <2>2, <2>3, <2>4, MarkedBack
  <2>6. QED
    BY <2>5, Zenon DEF x, y, t, u
<1>9. /\ WithTimeout(p) = WithTimeout(q)
      /\ Listed(Sorted(p.components)) = Listed(Sorted(q.components))
  <2> DEFINE x == Listed(Sorted(p.components))
             y == Listed(Sorted(q.components))
  <2>1. Plain(x) /\ Plain(y)
    BY ComponentParts, Zenon DEF PlainValues
  <2>2. Marked(WithTimeout(p), ";components=", x) = Marked(WithTimeout(q), ";components=", y)
    BY <1>8, Zenon DEF WithComponents
  <2> HIDE DEF x, y
  <2>3. WithTimeout(p) = WithTimeout(q) /\ x = y
    BY <1>1, <1>2, <1>6, <2>1, <2>2, MarkedBack, Zenon
  <2>4. QED
    BY <2>3 DEF x, y
<1>10. QED
  BY <1>5, <1>8, <1>9, Zenon

SameScalars(p, q) ==
    /\ TrimSpace(p.source) = TrimSpace(q.source)
    /\ TrimSpace(p.namespace) = TrimSpace(q.namespace)
    /\ TrimSpace(p.architecture) = TrimSpace(q.architecture)
    /\ FormatBool(p.adopt) = FormatBool(q.adopt)
    /\ FormatBool(p.skipSignature) = FormatBool(q.skipSignature)
    /\ FormatBool(p.plainHTTP) = FormatBool(q.plainHTTP)
    /\ FormatBool(p.insecureTLS) = FormatBool(q.insecureTLS)
    /\ Itoa(p.retries) = Itoa(q.retries)
    /\ Itoa(p.timeout) = Itoa(q.timeout)

LEMMA PlainScalars ==
    ASSUME NEW p, Typed(p), PlainValues
    PROVE  /\ Plain(TrimSpace(p.source)) /\ Plain(TrimSpace(p.namespace))
           /\ Plain(TrimSpace(p.architecture)) /\ Plain(TrimSpace(p.key))
           /\ Plain(FormatBool(p.confirm)) /\ Plain(FormatBool(p.adopt))
           /\ Plain(FormatBool(p.skipSignature)) /\ Plain(FormatBool(p.plainHTTP))
           /\ Plain(FormatBool(p.insecureTLS))
           /\ Plain(Itoa(p.retries)) /\ Plain(Itoa(p.timeout))
BY TextParts, BooleanParts, FormatBoolPlain, NumberParts, Zenon DEF PlainValues

LEMMA ScalarsBack ==
    ASSUME NEW p, NEW q, Typed(p), Typed(q), PlainValues,
           NEW a \in RangeOrders(p.variables), NEW b \in RangeOrders(p.features),
           NEW c \in RangeOrders(q.variables), NEW d \in RangeOrders(q.features),
           WithTimeout(p) = WithTimeout(q)
    PROVE  SameScalars(p, q)
<1>1. /\ WithSource(p) \in Texts /\ WithNamespace(p) \in Texts
      /\ WithArchitecture(p) \in Texts /\ WithKey(p) \in Texts
      /\ WithConfirm(p) \in Texts /\ WithAdopt(p) \in Texts
      /\ WithSkipSignature(p) \in Texts /\ WithPlainHTTP(p) \in Texts
      /\ WithInsecureTLS(p) \in Texts /\ WithRetries(p) \in Texts
  BY SectionsAreTexts, Zenon
<1>2. /\ WithSource(q) \in Texts /\ WithNamespace(q) \in Texts
      /\ WithArchitecture(q) \in Texts /\ WithKey(q) \in Texts
      /\ WithConfirm(q) \in Texts /\ WithAdopt(q) \in Texts
      /\ WithSkipSignature(q) \in Texts /\ WithPlainHTTP(q) \in Texts
      /\ WithInsecureTLS(q) \in Texts /\ WithRetries(q) \in Texts
  BY SectionsAreTexts, Zenon
<1>3. WithRetries(p) = WithRetries(q) /\ Itoa(p.timeout) = Itoa(q.timeout)
  <2>1. /\ ";timeout=" \in Markers /\ WithRetries(p) \in Texts /\ WithRetries(q) \in Texts
        /\ Plain(Itoa(p.timeout)) /\ Plain(Itoa(q.timeout))
    BY <1>1, <1>2, MarkersAre, PlainScalars, EmptyText, Zenon
  <2>2. Marked(WithRetries(p), ";timeout=", Itoa(p.timeout))
           = Marked(WithRetries(q), ";timeout=", Itoa(q.timeout))
    BY Zenon DEF WithTimeout
  <2>3. QED
    BY <2>1, <2>2, MarkedBack, Zenon
<1>4. WithInsecureTLS(p) = WithInsecureTLS(q) /\ Itoa(p.retries) = Itoa(q.retries)
  <2>1. /\ ";retries=" \in Markers /\ WithInsecureTLS(p) \in Texts /\ WithInsecureTLS(q) \in Texts
        /\ Plain(Itoa(p.retries)) /\ Plain(Itoa(q.retries))
    BY <1>1, <1>2, MarkersAre, PlainScalars, EmptyText, Zenon
  <2>2. Marked(WithInsecureTLS(p), ";retries=", Itoa(p.retries))
           = Marked(WithInsecureTLS(q), ";retries=", Itoa(q.retries))
    BY <1>3, Zenon DEF WithRetries
  <2>3. QED
    BY <2>1, <2>2, MarkedBack, Zenon
<1>5. WithPlainHTTP(p) = WithPlainHTTP(q) /\ FormatBool(p.insecureTLS) = FormatBool(q.insecureTLS)
  <2>1. /\ ";insecureTLS=" \in Markers /\ WithPlainHTTP(p) \in Texts /\ WithPlainHTTP(q) \in Texts
        /\ Plain(FormatBool(p.insecureTLS)) /\ Plain(FormatBool(q.insecureTLS))
    BY <1>1, <1>2, MarkersAre, PlainScalars, EmptyText, Zenon
  <2>2. Marked(WithPlainHTTP(p), ";insecureTLS=", FormatBool(p.insecureTLS))
           = Marked(WithPlainHTTP(q), ";insecureTLS=", FormatBool(q.insecureTLS))
    BY <1>4, Zenon DEF WithInsecureTLS
  <2>3. QED
    BY <2>1, <2>2, MarkedBack, Zenon
<1>6. WithSkipSignature(p) = WithSkipSignature(q) /\ FormatBool(p.plainHTTP) = FormatBool(q.plainHTTP)
  <2>1. /\ ";plainHTTP=" \in Markers /\ WithSkipSignature(p) \in Texts /\ WithSkipSignature(q) \in Texts
        /\ Plain(FormatBool(p.plainHTTP)) /\ Plain(FormatBool(q.plainHTTP))
    BY <1>1, <1>2, MarkersAre, PlainScalars, EmptyText, Zenon
  <2>2. Marked(WithSkipSignature(p), ";plainHTTP=", FormatBool(p.plainHTTP))
           = Marked(WithSkipSignature(q), ";plainHTTP=", FormatBool(q.plainHTTP))
    BY <1>5, Zenon DEF WithPlainHTTP
  <2>3. QED
    BY <2>1, <2>2, MarkedBack, Zenon
<1>7. WithAdopt(p) = WithAdopt(q) /\ FormatBool(p.skipSignature) = FormatBool(q.skipSignature)
  <2>1. /\ ";skipSignature=" \in Markers /\ WithAdopt(p) \in Texts /\ WithAdopt(q) \in Texts
        /\ Plain(FormatBool(p.skipSignature)) /\ Plain(FormatBool(q.skipSignature))
    BY <1>1, <1>2, MarkersAre, PlainScalars, EmptyText, Zenon
  <2>2. Marked(WithAdopt(p), ";skipSignature=", FormatBool(p.skipSignature))
           = Marked(WithAdopt(q), ";skipSignature=", FormatBool(q.skipSignature))
    BY <1>6, Zenon DEF WithSkipSignature
  <2>3. QED
    BY <2>1, <2>2, MarkedBack, Zenon
<1>8. WithConfirm(p) = WithConfirm(q) /\ FormatBool(p.adopt) = FormatBool(q.adopt)
  <2>1. /\ ";adopt=" \in Markers /\ WithConfirm(p) \in Texts /\ WithConfirm(q) \in Texts
        /\ Plain(FormatBool(p.adopt)) /\ Plain(FormatBool(q.adopt))
    BY <1>1, <1>2, MarkersAre, PlainScalars, EmptyText, Zenon
  <2>2. Marked(WithConfirm(p), ";adopt=", FormatBool(p.adopt))
           = Marked(WithConfirm(q), ";adopt=", FormatBool(q.adopt))
    BY <1>7, Zenon DEF WithAdopt
  <2>3. QED
    BY <2>1, <2>2, MarkedBack, Zenon
<1>9. WithKey(p) = WithKey(q) /\ FormatBool(p.confirm) = FormatBool(q.confirm)
  <2>1. /\ ";confirm=" \in Markers /\ WithKey(p) \in Texts /\ WithKey(q) \in Texts
        /\ Plain(FormatBool(p.confirm)) /\ Plain(FormatBool(q.confirm))
    BY <1>1, <1>2, MarkersAre, PlainScalars, EmptyText, Zenon
  <2>2. Marked(WithKey(p), ";confirm=", FormatBool(p.confirm))
           = Marked(WithKey(q), ";confirm=", FormatBool(q.confirm))
    BY <1>8, Zenon DEF WithConfirm
  <2>3. QED
    BY <2>1, <2>2, MarkedBack, Zenon
<1>10. WithArchitecture(p) = WithArchitecture(q) /\ TrimSpace(p.key) = TrimSpace(q.key)
  <2>1. /\ ";key=" \in Markers /\ WithArchitecture(p) \in Texts /\ WithArchitecture(q) \in Texts
        /\ Plain(TrimSpace(p.key)) /\ Plain(TrimSpace(q.key))
    BY <1>1, <1>2, MarkersAre, PlainScalars, EmptyText, Zenon
  <2>2. Marked(WithArchitecture(p), ";key=", TrimSpace(p.key))
           = Marked(WithArchitecture(q), ";key=", TrimSpace(q.key))
    BY <1>9, Zenon DEF WithKey
  <2>3. QED
    BY <2>1, <2>2, MarkedBack, Zenon
<1>11. WithNamespace(p) = WithNamespace(q) /\ TrimSpace(p.architecture) = TrimSpace(q.architecture)
  <2>1. /\ ";architecture=" \in Markers /\ WithNamespace(p) \in Texts /\ WithNamespace(q) \in Texts
        /\ Plain(TrimSpace(p.architecture)) /\ Plain(TrimSpace(q.architecture))
    BY <1>1, <1>2, MarkersAre, PlainScalars, EmptyText, Zenon
  <2>2. Marked(WithNamespace(p), ";architecture=", TrimSpace(p.architecture))
           = Marked(WithNamespace(q), ";architecture=", TrimSpace(q.architecture))
    BY <1>10, Zenon DEF WithArchitecture
  <2>3. QED
    BY <2>1, <2>2, MarkedBack, Zenon
<1>12. WithSource(p) = WithSource(q) /\ TrimSpace(p.namespace) = TrimSpace(q.namespace)
  <2>1. /\ ";namespace=" \in Markers /\ WithSource(p) \in Texts /\ WithSource(q) \in Texts
        /\ Plain(TrimSpace(p.namespace)) /\ Plain(TrimSpace(q.namespace))
    BY <1>1, <1>2, MarkersAre, PlainScalars, EmptyText, Zenon
  <2>2. Marked(WithSource(p), ";namespace=", TrimSpace(p.namespace))
           = Marked(WithSource(q), ";namespace=", TrimSpace(q.namespace))
    BY <1>11, Zenon DEF WithNamespace
  <2>3. QED
    BY <2>1, <2>2, MarkedBack, Zenon
<1>13. TrimSpace(p.source) = TrimSpace(q.source)
  <2>1. /\ "source=" \in Markers /\ Empty \in Texts
        /\ Plain(TrimSpace(p.source)) /\ Plain(TrimSpace(q.source))
    BY <1>1, <1>2, MarkersAre, PlainScalars, EmptyText, Zenon
  <2>2. Marked(Empty, "source=", TrimSpace(p.source))
           = Marked(Empty, "source=", TrimSpace(q.source))
    BY <1>12, Zenon DEF WithSource
  <2>3. QED
    BY <2>1, <2>2, MarkedBack, Zenon
<1>14. QED
  BY <1>3, <1>4, <1>5, <1>6, <1>7, <1>8, <1>11, <1>12, <1>13, Zenon DEF SameScalars

----------------------------------------------------------------------------
(* What is deployed.                                                       *)

LEMMA SpecsAreTyped ==
    ASSUME NEW p \in Specs
    PROVE  Typed(p)
BY DEF Specs, Typed, Fields

LEMMA SameVariables ==
    ASSUME NEW p \in Specs, NEW q \in Specs, PlainValues,
           NEW a \in RangeOrders(p.variables), NEW c \in RangeOrders(q.variables),
           Listed(Assigned(Sorted(a), p.variables)) = Listed(Assigned(Sorted(c), q.variables))
    PROVE  p.variables = q.variables
<1> DEFINE v == p.variables
           w == q.variables
<1>1. Typed(p) /\ Typed(q)
  BY SpecsAreTyped
<1>2. PlainVariables
  BY DEF PlainValues
<1>3. PlainMap(v)
  BY <1>1, <1>2, VariableParts, Zenon
<1>4. PlainMap(w)
  BY <1>1, <1>2, VariableParts, Zenon
<1>5. a \in SetToSeqs(DOMAIN v) /\ c \in SetToSeqs(DOMAIN w)
  BY DEF RangeOrders
<1>6. v \in [DOMAIN v -> Texts] /\ w \in [DOMAIN w -> Texts]
  <2>1. v \in Values("variables") /\ w \in Values("variables")
    BY DEF Specs
  <2>2. QED
    BY <2>1, ParametersAssumption
<1>7. Listed(Assigned(Sorted(a), v)) = Listed(Assigned(Sorted(c), w))
  OBVIOUS
<1> HIDE DEF v, w
<1>8. Comma[1] # Equals[1]
  BY SeparatorsAreNotMarkers, Zenon
<1>9. DOMAIN v = DOMAIN w /\ \A k \in DOMAIN v : v[k] = w[k]
  BY <1>3, <1>4, <1>5, <1>7, <1>8, AssignedInjective
<1>10. v = w
  BY <1>6, <1>9
<1>11. QED
  BY <1>10 DEF v, w

LEMMA SameRegistry ==
    ASSUME NEW r \in Values("registrySecretRef"), NEW q \in Values("registrySecretRef"),
           TrimmedTexts, SameSecret(r, q)
    PROVE  RegistrySecret(r) = RegistrySecret(q)
BY DEF SameSecret, RegistrySecret, TrimmedTexts

(* Two specs with a common hash ask for the same deployment.               *)
LEMMA SameDeployment ==
    ASSUME NEW p \in Specs, NEW q \in Specs, PlainValues,
           NEW h \in Hashes(p), h \in Hashes(q)
    PROVE  /\ p.source = q.source /\ p.namespace = q.namespace
           /\ p.architecture = q.architecture
           /\ p.adopt = q.adopt /\ p.skipSignature = q.skipSignature
           /\ p.plainHTTP = q.plainHTTP /\ p.insecureTLS = q.insecureTLS
           /\ p.retries = q.retries /\ p.timeout = q.timeout
           /\ p.variables = q.variables
           /\ RegistrySecret(p.registrySecretRef) = RegistrySecret(q.registrySecretRef)
           /\ Sorted(p.components) = Sorted(q.components)
<1>1. Typed(p) /\ Typed(q)
  BY SpecsAreTyped
<1>2. PICK a \in RangeOrders(p.variables), b \in RangeOrders(p.features) :
         h = computeSpecHash(p, a, b)
  BY DEF Hashes
<1>3. PICK c \in RangeOrders(q.variables), d \in RangeOrders(q.features) :
         h = computeSpecHash(q, c, d)
  BY DEF Hashes
<1>4. /\ WithTimeout(p) = WithTimeout(q)
      /\ Listed(Sorted(p.components)) = Listed(Sorted(q.components))
      /\ Listed(Assigned(Sorted(a), p.variables)) = Listed(Assigned(Sorted(c), q.variables))
      /\ SameSecret(p.registrySecretRef, q.registrySecretRef)
  BY <1>1, <1>2, <1>3, HashBack, Zenon
<1>5. SameScalars(p, q)
  BY <1>1, <1>4, ScalarsBack, Zenon
<1>6. p.source = q.source /\ p.namespace = q.namespace /\ p.architecture = q.architecture
  <2>1. /\ p.source \in Values("source") /\ q.source \in Values("source")
        /\ p.namespace \in Values("namespace") /\ q.namespace \in Values("namespace")
        /\ p.architecture \in Values("architecture")
        /\ q.architecture \in Values("architecture")
    BY DEF Specs
  <2>2. TrimmedTexts
    BY DEF PlainValues
  <2>3. QED
    BY <1>5, <2>1, <2>2 DEF TrimmedTexts, SameScalars
<1>7. /\ p.adopt = q.adopt /\ p.skipSignature = q.skipSignature
      /\ p.plainHTTP = q.plainHTTP /\ p.insecureTLS = q.insecureTLS
  BY <1>1, <1>5, BooleanParts, FormatBoolInjective, Zenon DEF SameScalars
<1>8. p.retries = q.retries /\ p.timeout = q.timeout
  <2>1. /\ p.retries \in Values("retries") /\ q.retries \in Values("retries")
        /\ p.timeout \in Values("timeout") /\ q.timeout \in Values("timeout")
    BY DEF Specs
  <2>2. QED
    BY <1>5, <2>1, NumbersAssumption DEF SameScalars
<1>9. p.variables = q.variables
  BY <1>4, SameVariables
<1>10. RegistrySecret(p.registrySecretRef) = RegistrySecret(q.registrySecretRef)
  <2>1. /\ p.registrySecretRef \in Values("registrySecretRef")
        /\ q.registrySecretRef \in Values("registrySecretRef")
    BY DEF Specs
  <2>2. QED
    BY <1>4, <2>1, SameRegistry DEF PlainValues
<1>11. Sorted(p.components) = Sorted(q.components)
  <2> DEFINE s == Sorted(p.components)
             t == Sorted(q.components)
  <2>1. PlainComponents
    BY DEF PlainValues
  <2>2. s \in Seq(Texts) /\ \A i \in 1..Len(s) : ~Has(s[i], Comma[1])
    BY <1>1, <2>1, ComponentParts, Zenon
  <2>3. t \in Seq(Texts) /\ \A i \in 1..Len(t) : ~Has(t[i], Comma[1])
    BY <1>1, <2>1, ComponentParts, Zenon
  <2>4. Listed(s) = Listed(t)
    BY <1>4
  <2> HIDE DEF s, t
  <2>5. s = t
    BY <2>2, <2>3, <2>4, ListedInjective
  <2>6. QED
    BY <2>5 DEF s, t
<1>12. QED
  BY <1>6, <1>7, <1>8, <1>9, <1>10, <1>11, Zenon

LEMMA HashesAreTexts ==
    ASSUME NEW p \in Specs, NEW h \in Hashes(p)
    PROVE  h \in Texts
<1>1. PICK a \in RangeOrders(p.variables), b \in RangeOrders(p.features) :
         h = computeSpecHash(p, a, b)
  BY DEF Hashes
<1>2. Typed(p)
  BY SpecsAreTyped
<1> DEFINE x == WithFeatures(p, a, b)
           r == p.registrySecretRef
<1>3. h = x \o SecretRef(r)
  BY <1>1, <1>2, HashIs, Zenon
<1>4. x \in Texts
  BY <1>2, SectionsAreTexts, Zenon
<1> HIDE DEF x
<1>5. SecretRef(r) \in Texts
  <2>1. /\ ";registryName=;registryNamespace=;" \in STRING
        /\ ";registryName=" \in STRING /\ ";registryNamespace=" \in STRING
    BY MarkersAre, TokensAssumption, Zenon
  <2>2. /\ <<";registryName=;registryNamespace=;">> \in Texts
        /\ <<";registryName=">> \in Texts /\ <<";registryNamespace=">> \in Texts
    BY <2>1, OneTokenText, Zenon
  <2>3. CASE r = None
    BY <2>2, <2>3, Zenon DEF SecretRef
  <2>4. CASE r # None
    <3>1. r \in SecretReference
      <4>1. r \in Values("registrySecretRef")
        BY DEF Specs
      <4>2. QED
        BY <2>4, <4>1, ParametersAssumption
    <3>2. r.name \in Texts /\ r.namespace \in Texts
      BY <3>1 DEF SecretReference
    <3> DEFINE n == TrimSpace(r.name)
               m == TrimSpace(r.namespace)
               y == <<";registryName=">>
               z == <<";registryNamespace=">>
    <3>3. n \in Texts /\ m \in Texts
      BY <3>2, TrimSpaceProperty, Zenon
    <3>4. y \in Texts /\ z \in Texts
      BY <2>2
    <3>5. SecretRef(r) = y \o n \o z \o m
      BY <2>4, Zenon DEF SecretRef
    <3> HIDE DEF n, m, y, z, r
    <3>6. y \o n \in Texts
      BY <3>3, <3>4, Joined
    <3>7. y \o n \o z \in Texts
      BY <3>4, <3>6, Joined
    <3>8. y \o n \o z \o m \in Texts
      BY <3>3, <3>7, Joined
    <3>9. QED
      BY <3>5, <3>8, Zenon DEF r
  <2>5. QED
    BY <2>3, <2>4, Zenon
<1> HIDE DEF r
<1>6. x \o SecretRef(r) \in Texts
  BY <1>4, <1>5, Joined
<1>7. QED
  BY <1>3, <1>6, Zenon

(* Every order of the keys hashes to the same text.                        *)
LEMMA OneHash ==
    ASSUME NEW p \in Specs, NEW h \in Hashes(p)
    PROVE  Hashes(p) = {h}
<1>1. p.variables \in Values("variables") /\ p.features \in Values("features")
  BY DEF Specs
<1>2. /\ IsFiniteSet(DOMAIN p.variables) /\ \A k \in DOMAIN p.variables : k \in Words
      /\ IsFiniteSet(DOMAIN p.features) /\ \A k \in DOMAIN p.features : k \in Words
  BY <1>1, ParametersAssumption
<1>3. ASSUME NEW a \in RangeOrders(p.variables), NEW c \in RangeOrders(p.variables),
             NEW b \in RangeOrders(p.features), NEW d \in RangeOrders(p.features)
      PROVE  computeSpecHash(p, a, b) = computeSpecHash(p, c, d)
  <2>1. Sorted(a) = Sorted(c)
    BY <1>2, SortedOnce DEF RangeOrders
  <2>2. Sorted(b) = Sorted(d)
    BY <1>2, SortedOnce DEF RangeOrders
  <2>3. Variables(p, a) = Variables(p, c)
    BY <2>1, Zenon DEF Variables
  <2>4. Features(p, b) = Features(p, d)
    BY <2>2, Zenon DEF Features
  <2>5. QED
    BY <2>3, <2>4, Zenon DEF computeSpecHash
<1>4. QED
  BY <1>3 DEF Hashes

LEMMA DeploymentType ==
    ASSUME NEW p \in Specs, NEW detected \in Architectures, Apply(p.components) # None
    PROVE  Deployment(p, detected) \in [load : LoadOptions, options : DeployOptions]
<1>1. /\ p.source \in Texts /\ p.namespace \in Texts /\ p.architecture \in Texts
      /\ p.adopt \in BOOLEAN /\ p.skipSignature \in BOOLEAN
      /\ p.plainHTTP \in BOOLEAN /\ p.insecureTLS \in BOOLEAN
      /\ p.retries \in {None} \cup Nat /\ p.timeout \in {None} \cup Nat
      /\ p.components \in Seq(Words) /\ p.variables \in Values("variables")
      /\ p.registrySecretRef \in {None} \cup SecretReference
  BY ParametersAssumption DEF Specs
<1>2. detected \in Texts
  BY SpecHashAssumption
<1>3. Apply(p.components) \in Seq(Texts) \cup {None}
  <2>1. p.components \in Seq(Texts)
    BY <1>1, WordsProperty
  <2>2. PackageComponents \in Seq(Texts)
    BY SpecHashAssumption
  <2>3. QED
    BY <2>1, <2>2, Zenon DEF Apply
<1>4. RegistrySecret(p.registrySecretRef) \in SecretReference \cup {None}
  <2> DEFINE r == p.registrySecretRef
  <2>1. CASE r = None
    BY <2>1 DEF RegistrySecret
  <2>2. CASE r # None
    <3>1. r.name \in Texts /\ r.namespace \in Texts
      BY <1>1, <2>2 DEF SecretReference
    <3>2. TrimSpace(r.namespace) \in Texts /\ defaultRegistrySecretNamespace \in Texts
      BY <3>1, TrimSpaceProperty, SpecHashAssumption
    <3> HIDE DEF r
    <3>3. QED
      BY <3>1, <3>2 DEF RegistrySecret, SecretReference, r
  <2>3. QED
    BY <2>1, <2>2
<1>5. getDeployTimeout(p) \in Nat
  BY <1>1, NoneAssumption DEF getDeployTimeout, DefaultTimeout
<1>6. Empty \in Texts
  BY EmptyText
<1> DEFINE o == buildDeployOptions(p, detected)
<1>7. buildLoadOptions(o) \in LoadOptions
  BY <1>1, <1>2, <1>3, <1>4, <1>6 DEF buildLoadOptions, buildDeployOptions, LoadOptions
<1>8. packagerOptions(o) \in DeployOptions
  BY <1>1, <1>5, NoneAssumption DEF packagerOptions, buildDeployOptions, DeployOptions
<1> HIDE DEF o
<1>9. QED
  BY <1>7, <1>8 DEF Deployment, o

----------------------------------------------------------------------------
(* The inductive invariant: the hash that is stored is one of the spec     *)
(* deployed last, and what is deployed is what that spec asked for.        *)

Recorded ==
    applied # None =>
        /\ last \in Specs
        /\ applied \in Hashes(last)
        /\ Apply(last.components) # None
        /\ \E detected \in Architectures : deployed = Deployment(last, detected)

IInv == TypeOK /\ Recorded

LEMMA RedeployKeepsIInv ==
    ASSUME IInv, NEW hash \in Hashes(spec), Redeploy(hash)
    PROVE  IInv'
<1>1. PICK detected \in Architectures :
        /\ Apply(spec.components) # None
        /\ applied' = hash
        /\ last' = spec
        /\ deployed' = Deployment(spec, detected)
        /\ spec' = spec
  BY DEF Redeploy
<1>2. spec \in Specs
  BY DEF IInv, TypeOK
<1>3. hash \in Texts
  BY <1>2, HashesAreTexts
<1>4. deployed' \in [load : LoadOptions, options : DeployOptions]
  BY <1>1, <1>2, DeploymentType
<1>5. applied' # None /\ last' # None /\ deployed' # None
  BY <1>1, <1>2, <1>3, <1>4, NoneAssumption
<1>6. TypeOK'
  BY <1>1, <1>2, <1>3, <1>4, <1>5 DEF TypeOK
<1>7. Recorded'
  <2>1. /\ last' \in Specs /\ applied' \in Hashes(last') /\ Apply(last'.components) # None
        /\ deployed' = Deployment(last', detected)
    BY <1>1, <1>2, Zenon
  <2>2. QED
    BY <2>1, Zenon DEF Recorded
<1>8. QED
  BY <1>6, <1>7 DEF IInv

LEMMA InitIInv == Init => IInv
<1> SUFFICES ASSUME Init
             PROVE  IInv
  OBVIOUS
<1>1. spec \in Specs /\ applied = None /\ last = None /\ deployed = None
  BY SpecHashAssumption DEF Init
<1>2. QED
  BY <1>1 DEF IInv, TypeOK, Recorded

LEMMA NextIInv == IInv /\ [Next]_vars => IInv'
<1> SUFFICES ASSUME IInv, [Next]_vars
             PROVE  IInv'
  OBVIOUS
<1>1. CASE Edit
  <2>1. PICK f \in DOMAIN FieldValues :
           \E v \in FieldValues[f] : spec' = [spec EXCEPT ![f] = v]
    BY <1>1 DEF Edit
  <2>2. PICK v \in FieldValues[f] : spec' = [spec EXCEPT ![f] = v]
    BY <2>1
  <2>3. spec \in Specs /\ f \in Fields /\ v \in Values(f)
    BY SpecHashAssumption DEF IInv, TypeOK, Values
  <2>4. spec' \in Specs
    BY <2>2, <2>3 DEF Specs, Fields
  <2>5. applied' = applied /\ last' = last /\ deployed' = deployed
    BY <1>1 DEF Edit
  <2>6. TypeOK'
    BY <2>4, <2>5 DEF IInv, TypeOK
  <2>7. Recorded'
    BY <2>5, Zenon DEF IInv, Recorded
  <2>8. QED
    BY <2>6, <2>7 DEF IInv
<1>2. CASE Create
  <2>1. PICK hash \in Hashes(spec) : Redeploy(hash)
    BY <1>2 DEF Create
  <2>2. QED
    BY <2>1, RedeployKeepsIInv
<1>3. CASE Update
  <2>1. PICK hash \in Hashes(spec) : hash # applied /\ Redeploy(hash)
    BY <1>3 DEF Update
  <2>2. QED
    BY <2>1, RedeployKeepsIInv
<1>4. CASE UNCHANGED vars
  <2>1. spec' = spec /\ applied' = applied /\ last' = last /\ deployed' = deployed
    BY <1>4 DEF vars
  <2>2. TypeOK'
    BY <2>1 DEF IInv, TypeOK
  <2>3. Recorded'
    BY <2>1, Zenon DEF IInv, Recorded
  <2>4. QED
    BY <2>2, <2>3 DEF IInv
<1>5. QED
  BY <1>1, <1>2, <1>3, <1>4 DEF Next

LEMMA SpecIInv == Spec => []IInv
<1>1. QED
  BY InitIInv, NextIInv, PTL DEF Spec

(* The stored hash is a text, a deployment is recorded as a whole or not   *)
(* at all, and the options it was given are those of LoadPackage and       *)
(* packager.Deploy.                                                        *)
THEOREM TypeCorrect == Spec => []TypeOK
<1>1. IInv => TypeOK
  BY DEF IInv
<1>2. QED
  BY <1>1, SpecIInv, PTL

(* A spec that was deployed and not edited since is never deployed again:  *)
(* whatever order range hands the keys of the maps out in, sort.Strings    *)
(* leaves one text to hash.  For any spec and any characters in it.        *)
THEOREM UneditedSpecIsNotDrift == Spec => []NoSpuriousDrift
<1>1. IInv => NoSpuriousDrift
  <2> SUFFICES ASSUME IInv, last = spec
               PROVE  Hashes(spec) = {applied}
    BY DEF NoSpuriousDrift
  <2>1. spec \in Specs /\ spec # None
    BY NoneAssumption DEF IInv, TypeOK
  <2>2. applied # None
    BY <2>1 DEF IInv, TypeOK
  <2>3. applied \in Hashes(spec)
    BY <2>2 DEF IInv, Recorded
  <2>4. QED
    BY <2>1, <2>3, OneHash
<1>2. QED
  BY <1>1, SpecIInv, PTL

(* The requested components, or all of the package's, up to their order.   *)
LEMMA SameApplied ==
    ASSUME NEW s \in Seq(Words), NEW t \in Seq(Words), Sorted(s) = Sorted(t),
           Apply(t) # None
    PROVE  Apply(s) # None /\ SameComponents(Apply(t), Apply(s))
<1>1. /\ Len(s) = Len(t) /\ ToSet(s) = ToSet(t)
      /\ SameComponents(s, t)
  BY SameLists
<1>2. SameComponents(t, s)
  BY <1>1 DEF SameComponents
<1>3. s = <<>> <=> t = <<>>
  BY <1>1, EmptySeq
<1>4. CASE s = <<>>
  <2>1. Apply(s) = Apply(t)
    BY <1>3, <1>4
  <2>2. SameComponents(Apply(t), Apply(t))
    BY DEF SameComponents
  <2>3. QED
    BY <2>1, <2>2
<1>5. CASE s # <<>>
  <2>1. \A name \in ToSet(t) : name \in ToSet(PackageComponents)
    BY <1>3, <1>5 DEF Apply
  <2>2. Apply(t) = t
    BY <1>3, <1>5, <2>1 DEF Apply
  <2>3. Apply(s) = s
    BY <1>1, <1>5, <2>1 DEF Apply
  <2>4. s # None
    <3>1. s \in Seq(Texts)
      BY WordsProperty
    <3>2. QED
      BY <3>1, NoneAssumption
  <2>5. QED
    BY <1>2, <2>2, <2>3, <2>4
<1>6. QED
  BY <1>4, <1>5

LEMMA WantedIsDeployed ==
    ASSUME IInv, PlainValues, UpToDate
    PROVE  NoMissedEdit
<1>1. spec \in Specs /\ applied \in Hashes(spec)
  BY DEF IInv, TypeOK, UpToDate
<1>2. applied # None
  BY <1>1, HashesAreTexts, NoneAssumption
<1>3. /\ last \in Specs /\ applied \in Hashes(last) /\ Apply(last.components) # None
  BY <1>2 DEF IInv, Recorded
<1>4. PICK detected \in Architectures : deployed = Deployment(last, detected)
  BY <1>2 DEF IInv, Recorded
<1>5. /\ spec.source = last.source /\ spec.namespace = last.namespace
      /\ spec.architecture = last.architecture
      /\ spec.adopt = last.adopt /\ spec.skipSignature = last.skipSignature
      /\ spec.plainHTTP = last.plainHTTP /\ spec.insecureTLS = last.insecureTLS
      /\ spec.retries = last.retries /\ spec.timeout = last.timeout
      /\ spec.variables = last.variables
      /\ RegistrySecret(spec.registrySecretRef) = RegistrySecret(last.registrySecretRef)
      /\ Sorted(spec.components) = Sorted(last.components)
  BY <1>1, <1>3, SameDeployment
<1> DEFINE wanted == Deployment(spec, deployed.load.architecture)
<1>6. deployed.options = wanted.options
  BY <1>4, <1>5 DEF Deployment, packagerOptions, buildDeployOptions, getDeployTimeout
<1>7. deployed.load.architecture = wanted.load.architecture
  BY <1>4, <1>5 DEF Deployment, buildLoadOptions, buildDeployOptions
<1>8. \A f \in DOMAIN wanted.load \ {"components"} : deployed.load[f] = wanted.load[f]
  <2>1. DOMAIN wanted.load = {"source", "registry", "architecture", "publicKeyPath",
           "skipSignature", "components", "plainHTTP", "insecureTLS"}
    BY DEF Deployment, buildLoadOptions
  <2>2. /\ deployed.load.source = wanted.load.source
        /\ deployed.load.registry = wanted.load.registry
        /\ deployed.load.publicKeyPath = wanted.load.publicKeyPath
        /\ deployed.load.skipSignature = wanted.load.skipSignature
        /\ deployed.load.plainHTTP = wanted.load.plainHTTP
        /\ deployed.load.insecureTLS = wanted.load.insecureTLS
    BY <1>4, <1>5 DEF Deployment, buildLoadOptions, buildDeployOptions
  <2> HIDE DEF wanted
  <2>3. QED
    BY <1>7, <2>1, <2>2
<1>9. /\ wanted.load.components # None
      /\ SameComponents(deployed.load.components, wanted.load.components)
  <2>1. /\ wanted.load.components = Apply(spec.components)
        /\ deployed.load.components = Apply(last.components)
    BY <1>4 DEF Deployment, buildLoadOptions, buildDeployOptions
  <2>2. spec.components \in Seq(Words) /\ last.components \in Seq(Words)
    BY <1>1, <1>3, ParametersAssumption DEF Specs
  <2> HIDE DEF wanted
  <2>3. /\ Apply(spec.components) # None
        /\ SameComponents(Apply(last.components), Apply(spec.components))
    BY <1>3, <1>5, <2>2, SameApplied
  <2>4. QED
    BY <2>1, <2>3
<1>10. QED
  BY <1>6, <1>8, <1>9, Zenon DEF NoMissedEdit

(* When Update finds the hash unchanged, what is deployed is what the spec *)
(* asks for: computeSpecHash takes every field that a deployment depends   *)
(* on, and no two values of them write the same text, if no value holds a  *)
(* text that it writes between values.                                     *)
THEOREM EditsAreNoticed == PlainValues => (Spec => []NoMissedEdit)
<1> SUFFICES ASSUME PlainValues
             PROVE  Spec => []NoMissedEdit
  OBVIOUS
<1>1. IInv => NoMissedEdit
  <2>1. CASE UpToDate
    BY <2>1, WantedIsDeployed
  <2>2. CASE ~UpToDate
    BY <2>2, Zenon DEF NoMissedEdit
  <2>3. QED
    BY <2>1, <2>2
<1>2. QED
  BY <1>1, SpecIInv, PTL

============================================================================
