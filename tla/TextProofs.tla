----------------------------- MODULE TextProofs -----------------------------
(* What the operators of Text return, for texts of any length.             *)
EXTENDS Text, SequenceTheorems, WellFoundedInduction, TLAPS

----------------------------------------------------------------------------
(* The least and the greatest of a set of numbers.                         *)

LEMMA MinProperty ==
    ASSUME NEW T \in SUBSET Nat, T # {}
    PROVE  Min(T) \in T /\ \A y \in T : Min(T) <= y
<1> DEFINE Below == {p \in Nat \X Nat : p[1] < p[2]}
<1>1. IsWellFoundedOn(Below, Nat)
  BY NatLessThanWellFounded, Zenon DEF OpToRel
<1>2. \A x, y \in Nat : y < x => <<y, x>> \in Below
  OBVIOUS
<1> HIDE DEF Below
<1>3. PICK x \in T : \A y \in T : ~(<<y, x>> \in Below)
  BY <1>1, WFMin
<1>4. \A y \in T : x <= y
  <2> TAKE y \in T
  <2>1. x \in Nat /\ y \in Nat
    OBVIOUS
  <2>2. ~(y < x)
    BY <1>2, <1>3, <2>1
  <2>3. QED
    BY <2>1, <2>2
<1>5. QED
  BY <1>3, <1>4 DEF Min

LEMMA MaxProperty ==
    ASSUME NEW n \in Nat, NEW T \in SUBSET (1..n), T # {}
    PROVE  Max(T) \in T /\ \A y \in T : Max(T) >= y
<1> DEFINE U == {m \in 0..n : n - m \in T}
<1>1. U \in SUBSET Nat /\ U # {}
  <2>1. PICK y \in T : TRUE
    OBVIOUS
  <2>2. y \in 1..n /\ n - y \in 0..n /\ n - (n - y) = y
    BY <2>1
  <2>3. n - y \in U
    BY <2>1, <2>2
  <2>4. U \in SUBSET Nat
    OBVIOUS
  <2>5. QED
    BY <2>3, <2>4
<1>2. Min(U) \in U /\ \A m \in U : Min(U) <= m
  BY <1>1, MinProperty
<1> DEFINE x == n - Min(U)
<1>3. x \in T
  BY <1>2
<1>4. \A y \in T : x >= y
  <2> TAKE y \in T
  <2>1. y \in 1..n /\ n - y \in 0..n /\ n - (n - y) = y
    OBVIOUS
  <2>2. Min(U) <= n - y /\ Min(U) \in 0..n
    BY <1>2, <2>1
  <2>3. QED
    BY <2>1, <2>2
<1> HIDE DEF x
<1>5. QED
  BY <1>3, <1>4 DEF Max

----------------------------------------------------------------------------
(* strings.Index and strings.LastIndex.                                    *)

LEMMA IndexProperty ==
    ASSUME NEW t \in Texts, NEW c
    PROVE  /\ Index(t, c) \in 0..Len(t)
           /\ Has(t, c) <=> Index(t, c) > 0
           /\ Has(t, c) => t[Index(t, c)] = c
           /\ \A i \in DOMAIN t : t[i] = c => Index(t, c) <= i
<1> DEFINE P == Positions(t, c)
<1>1. P \in SUBSET Nat /\ P \subseteq 1..Len(t) /\ DOMAIN t = 1..Len(t) /\ Len(t) \in Nat
  BY DEF Positions, Texts
<1>2. P = {} <=> ~Has(t, c)
  BY DEF Positions, Has
<1>3. P # {} => Min(P) \in P /\ \A y \in P : Min(P) <= y
  BY <1>1, MinProperty
<1>4. Index(t, c) = IF P = {} THEN 0 ELSE Min(P)
  BY DEF Index
<1>5. \A i \in DOMAIN t : i \in P <=> t[i] = c
  BY DEF Positions
<1> HIDE DEF P
<1>6. CASE P = {}
  BY <1>1, <1>2, <1>4, <1>5, <1>6
<1>7. CASE P # {}
  <2>1. Index(t, c) \in P
    BY <1>3, <1>4, <1>7
  <2>2. Index(t, c) \in 1..Len(t) /\ t[Index(t, c)] = c
    BY <1>1, <1>5, <2>1
  <2>4. Has(t, c)
    BY <1>2, <1>7
  <2>6. Index(t, c) > 0 /\ Index(t, c) \in 0..Len(t)
    BY <1>1, <2>2
  <2>3. \A i \in DOMAIN t : t[i] = c => Index(t, c) <= i
    BY <1>3, <1>4, <1>5, <1>7
  <2>5. QED
    BY <2>2, <2>3, <2>4, <2>6
<1>8. QED
  BY <1>6, <1>7

LEMMA LastIndexProperty ==
    ASSUME NEW t \in Texts, NEW c
    PROVE  /\ LastIndex(t, c) \in 0..Len(t)
           /\ Has(t, c) <=> LastIndex(t, c) > 0
           /\ Has(t, c) => t[LastIndex(t, c)] = c
           /\ \A i \in DOMAIN t : t[i] = c => LastIndex(t, c) >= i
<1> DEFINE P == Positions(t, c)
<1>1. P \in SUBSET (1..Len(t)) /\ DOMAIN t = 1..Len(t) /\ Len(t) \in Nat
  BY DEF Positions, Texts
<1>2. P = {} <=> ~Has(t, c)
  BY DEF Positions, Has
<1>3. P # {} => Max(P) \in P /\ \A y \in P : Max(P) >= y
  BY <1>1, MaxProperty
<1>4. LastIndex(t, c) = IF P = {} THEN 0 ELSE Max(P)
  BY DEF LastIndex
<1>5. \A i \in DOMAIN t : i \in P <=> t[i] = c
  BY DEF Positions
<1> HIDE DEF P
<1>6. CASE P = {}
  BY <1>1, <1>2, <1>4, <1>5, <1>6
<1>7. CASE P # {}
  <2>1. LastIndex(t, c) \in P
    BY <1>3, <1>4, <1>7
  <2>2. LastIndex(t, c) \in 1..Len(t) /\ t[LastIndex(t, c)] = c
    BY <1>1, <1>5, <2>1
  <2>4. Has(t, c)
    BY <1>2, <1>7
  <2>6. LastIndex(t, c) > 0 /\ LastIndex(t, c) \in 0..Len(t)
    BY <1>1, <2>2
  <2>3. \A i \in DOMAIN t : t[i] = c => LastIndex(t, c) >= i
    BY <1>3, <1>4, <1>5, <1>7
  <2>5. QED
    BY <2>2, <2>3, <2>4, <2>6
<1>8. QED
  BY <1>6, <1>7

----------------------------------------------------------------------------
(* A text that is cut at a token is what stands before it.                 *)

LEMMA BeforeProperty ==
    ASSUME NEW t \in Texts, NEW i \in 1..Len(t) + 1
    PROVE  /\ Before(t, i) \in Texts
           /\ Len(Before(t, i)) = i - 1
           /\ \A j \in 1..i - 1 : Before(t, i)[j] = t[j]
<1>1. /\ i - 1 \in Int /\ 1 \in Int
      /\ \A j \in 1..i - 1 : t[j] \in STRING
  BY DEF Texts
<1>2. /\ SubSeq(t, 1, i - 1) \in Seq(STRING)
      /\ Len(SubSeq(t, 1, i - 1)) = IF 1 <= i - 1 THEN (i - 1) - 1 + 1 ELSE 0
      /\ \A j \in 1..(i - 1) - 1 + 1 : SubSeq(t, 1, i - 1)[j] = t[1 + j - 1]
  BY <1>1, SubSeqProperties
<1>3. QED
  BY <1>2 DEF Before, Texts

(* What stands before a place keeps its separators in their places.        *)
LEMMA BeforePositions ==
    ASSUME NEW t \in Texts, NEW i \in 1..Len(t) + 1, NEW c
    PROVE  Positions(Before(t, i), c) = {j \in Positions(t, c) : j < i}
<1> DEFINE u == Before(t, i)
<1>1. /\ u \in Texts
      /\ Len(u) = i - 1
      /\ \A j \in 1..i - 1 : u[j] = t[j]
  BY BeforeProperty
<1>2. /\ DOMAIN u = 1..i - 1
      /\ DOMAIN t = 1..Len(t)
      /\ i \in Nat /\ Len(t) \in Nat
  BY <1>1 DEF Texts
<1> HIDE DEF u
<1>3. \A j : j \in DOMAIN u <=> j \in DOMAIN t /\ j < i
  BY <1>2
<1>4. \A j \in DOMAIN u : u[j] = t[j]
  BY <1>1, <1>2
<1>5. QED
  BY <1>3, <1>4 DEF Positions, u

(* A text has a separator where the separator has a position.              *)
LEMMA HasPositions ==
    ASSUME NEW t, NEW c
    PROVE  Has(t, c) <=> Positions(t, c) # {}
BY DEF Has, Positions

(* Nothing before the first separator is one.                              *)
LEMMA BeforeFirst ==
    ASSUME NEW t \in Texts, NEW c, Has(t, c)
    PROVE  ~Has(Before(t, Index(t, c)), c)
<1> DEFINE i == Index(t, c)
<1>1. /\ i \in 1..Len(t) + 1
      /\ \A j \in DOMAIN t : t[j] = c => i <= j
  BY IndexProperty DEF Texts
<1>2. DOMAIN t \subseteq Nat /\ i \in Nat
  BY <1>1 DEF Texts
<1> HIDE DEF i
<1>3. Positions(Before(t, i), c) = {j \in Positions(t, c) : j < i}
  BY <1>1, BeforePositions
<1>4. {j \in Positions(t, c) : j < i} = {}
  BY <1>1, <1>2 DEF Positions
<1>5. QED
  BY <1>3, <1>4, HasPositions DEF i

(* A cut of a cut is the shorter cut.                                      *)
LEMMA BeforeBefore ==
    ASSUME NEW t \in Texts, NEW i \in 1..Len(t) + 1, NEW k \in 1..i
    PROVE  Before(Before(t, i), k) = Before(t, k)
<1> DEFINE u == Before(t, i)
<1>1. i \in Nat /\ k \in Nat /\ Len(t) \in Nat
  BY DEF Texts
<1>2. /\ u \in Texts
      /\ Len(u) = i - 1
      /\ \A j \in 1..i - 1 : u[j] = t[j]
  BY BeforeProperty
<1> HIDE DEF u
<1>3. k \in 1..Len(u) + 1 /\ k \in 1..Len(t) + 1
  BY <1>1, <1>2
<1>4. /\ Before(u, k) \in Texts
      /\ Len(Before(u, k)) = k - 1
      /\ \A j \in 1..k - 1 : Before(u, k)[j] = u[j]
  BY <1>2, <1>3, BeforeProperty
<1>5. /\ Before(t, k) \in Texts
      /\ Len(Before(t, k)) = k - 1
      /\ \A j \in 1..k - 1 : Before(t, k)[j] = t[j]
  BY <1>3, BeforeProperty
<1>6. \A j \in 1..k - 1 : Before(u, k)[j] = Before(t, k)[j]
  BY <1>1, <1>2, <1>4, <1>5
<1>7. Before(u, k) = Before(t, k)
  BY <1>4, <1>5, <1>6, SeqEqual DEF Texts
<1>8. QED
  BY <1>7 DEF u

(* A separator that follows all its equals is the last of them.            *)
LEMMA LastIndexIs ==
    ASSUME NEW t \in Texts, NEW c, NEW i \in Positions(t, c),
           \A j \in Positions(t, c) : j <= i
    PROVE  LastIndex(t, c) = i
<1>1. i \in DOMAIN t /\ t[i] = c /\ DOMAIN t = 1..Len(t) /\ Len(t) \in Nat
  BY DEF Positions, Texts
<1>2. Has(t, c)
  BY <1>1 DEF Has
<1>3. LastIndex(t, c) \in 0..Len(t) /\ LastIndex(t, c) > 0 /\ t[LastIndex(t, c)] = c
  BY <1>2, LastIndexProperty
<1>4. LastIndex(t, c) \in Positions(t, c)
  BY <1>1, <1>3 DEF Positions
<1>5. LastIndex(t, c) >= i
  BY <1>1, LastIndexProperty
<1>6. LastIndex(t, c) <= i
  BY <1>4
<1>7. QED
  BY <1>1, <1>3, <1>5, <1>6

----------------------------------------------------------------------------
(* What stands after a place.                                              *)

LEMMA AfterProperty ==
    ASSUME NEW t \in Texts, NEW i \in 0..Len(t)
    PROVE  /\ After(t, i) \in Texts
           /\ Len(After(t, i)) = Len(t) - i
           /\ \A j \in 1..Len(t) - i : After(t, i)[j] = t[i + j]
<1>1. /\ i + 1 \in Int /\ Len(t) \in Int
      /\ \A j \in i + 1..Len(t) : t[j] \in STRING
  BY DEF Texts
<1>2. /\ SubSeq(t, i + 1, Len(t)) \in Seq(STRING)
      /\ Len(SubSeq(t, i + 1, Len(t))) =
            IF i + 1 <= Len(t) THEN Len(t) - (i + 1) + 1 ELSE 0
      /\ \A j \in 1..Len(t) - (i + 1) + 1 :
            SubSeq(t, i + 1, Len(t))[j] = t[(i + 1) + j - 1]
  BY <1>1, SubSeqProperties
<1> DEFINE u == After(t, i)
<1>3. u = SubSeq(t, i + 1, Len(t))
  BY DEF After
<1>4. /\ u \in Seq(STRING)
      /\ Len(u) = IF i + 1 <= Len(t) THEN Len(t) - (i + 1) + 1 ELSE 0
      /\ \A j \in 1..Len(t) - (i + 1) + 1 : u[j] = t[(i + 1) + j - 1]
  BY <1>2, <1>3
<1> HIDE DEF u
<1>5. \A j \in 1..Len(t) - i : u[j] = t[i + j]
  <2> TAKE j \in 1..Len(t) - i
  <2>1. j \in 1..Len(t) - (i + 1) + 1 /\ (i + 1) + j - 1 = i + j
    BY <1>1
  <2>2. QED
    BY <1>4, <2>1
<1>6. Len(u) = Len(t) - i
  BY <1>1, <1>4
<1>7. QED
  BY <1>4, <1>5, <1>6 DEF u, Texts

(* The last part has no separator, and is all of a text without one.       *)
LEMMA LastPartProperty ==
    ASSUME NEW t \in Texts, NEW c
    PROVE  /\ LastPart(t, c) \in Texts
           /\ ~Has(LastPart(t, c), c)
           /\ ~Has(t, c) => LastPart(t, c) = t
<1> DEFINE i == LastIndex(t, c)
           u == LastPart(t, c)
<1>1. /\ i \in 0..Len(t)
      /\ Has(t, c) <=> i > 0
      /\ \A j \in DOMAIN t : t[j] = c => i >= j
  BY LastIndexProperty
<1> HIDE DEF i
<1>2. /\ After(t, i) \in Texts
      /\ Len(After(t, i)) = Len(t) - i
      /\ \A j \in 1..Len(t) - i : After(t, i)[j] = t[i + j]
  BY <1>1, AfterProperty
<1>3. u = After(t, i)
  BY DEF LastPart, i
<1> HIDE DEF u
<1>4. DOMAIN t = 1..Len(t) /\ Len(t) \in Nat /\ DOMAIN u = 1..Len(t) - i
  BY <1>2, <1>3 DEF Texts
<1>5. ~Has(u, c)
  <2> SUFFICES ASSUME NEW j \in DOMAIN u, u[j] = c
               PROVE  FALSE
    BY DEF Has
  <2>1. i + j \in DOMAIN t /\ ~(i >= i + j)
    BY <1>1, <1>4
  <2>2. t[i + j] = c
    BY <1>2, <1>3, <1>4
  <2>3. QED
    BY <1>1, <2>1, <2>2
<1>6. ASSUME ~Has(t, c)
      PROVE  u = t
  <2>1. i = 0
    BY <1>1, <1>6
  <2>2. /\ u \in Seq(STRING) /\ t \in Seq(STRING)
        /\ Len(u) = Len(t)
    BY <1>2, <1>3, <1>4, <2>1 DEF Texts
  <2>3. \A j \in 1..Len(u) : u[j] = t[j]
    BY <1>2, <1>3, <1>4, <2>1, <2>2
  <2>4. QED
    BY <2>2, <2>3, SeqEqual
<1>7. QED
  BY <1>2, <1>3, <1>5, <1>6 DEF u

----------------------------------------------------------------------------
(* Blanks and prefixes.                                                    *)

(* A text without blanks loses nothing.                                    *)
LEMMA TrimSpaceClean ==
    ASSUME NEW t \in Texts, ~Has(t, Blank)
    PROVE  TrimSpace(t) = t
<1> DEFINE K == {i \in DOMAIN t : t[i] # Blank}
           n == Len(t)
<1>1. n \in Nat /\ DOMAIN t = 1..n /\ K = 1..n
  BY DEF Has, Texts
<1>2. TrimSpace(t) = IF K = {} THEN Empty ELSE SubSeq(t, Min(K), Max(K))
  BY DEF TrimSpace
<1> HIDE DEF K
<1>3. CASE n = 0
  <2>1. K = {}
    BY <1>1, <1>3
  <2>2. t = Empty
    BY <1>3, EmptySeq DEF Texts, Empty
  <2>3. QED
    BY <1>2, <2>1, <2>2
<1>4. CASE n > 0
  <2>1. K # {} /\ 1 \in K /\ n \in K /\ K \in SUBSET (1..n) /\ K \in SUBSET Nat
    BY <1>1, <1>4
  <2>2. Min(K) \in K /\ \A y \in K : Min(K) <= y
    BY <2>1, MinProperty
  <2>3. Max(K) \in K /\ \A y \in K : Max(K) >= y
    BY <1>1, <2>1, MaxProperty
  <2>4. Min(K) = 1 /\ Max(K) = n
    BY <1>1, <2>1, <2>2, <2>3
  <2>5. /\ 1 \in Int /\ n \in Int
        /\ \A i \in 1..n : t[i] \in STRING
    BY <1>1 DEF Texts
  <2>6. /\ SubSeq(t, 1, n) \in Seq(STRING)
        /\ Len(SubSeq(t, 1, n)) = IF 1 <= n THEN n - 1 + 1 ELSE 0
        /\ \A i \in 1..n - 1 + 1 : SubSeq(t, 1, n)[i] = t[1 + i - 1]
    BY <2>5, SubSeqProperties
  <2> DEFINE u == SubSeq(t, 1, n)
  <2>7. u \in Seq(STRING) /\ t \in Seq(STRING) /\ Len(u) = Len(t)
    BY <1>1, <1>4, <2>6 DEF Texts
  <2>8. \A i \in 1..Len(u) : u[i] = t[i]
    BY <1>1, <2>6, <2>7
  <2> HIDE DEF u
  <2>9. u = t
    BY <2>7, <2>8, SeqEqual
  <2>10. QED
    BY <1>2, <2>1, <2>4, <2>9 DEF u
<1>5. QED
  BY <1>1, <1>3, <1>4

(* A prefix is the first token, and goes with it.                          *)
LEMMA PrefixProperty ==
    ASSUME NEW t \in Texts, NEW p
    PROVE  /\ HasPrefix(t, p) <=> t # Empty /\ t[1] = p
           /\ HasPrefix(t, p) =>
                /\ TrimPrefix(t, p) \in Texts
                /\ Len(TrimPrefix(t, p)) = Len(t) - 1
                /\ \A i \in 1..Len(t) - 1 : TrimPrefix(t, p)[i] = t[i + 1]
           /\ ~HasPrefix(t, p) => TrimPrefix(t, p) = t
<1>1. t # Empty => /\ Tail(t) \in Seq(STRING)
                   /\ Len(Tail(t)) = Len(t) - 1
                   /\ \A i \in 1..Len(Tail(t)) : Tail(t)[i] = t[i + 1]
  BY HeadTailProperties DEF Texts, Empty
<1>2. t # Empty => Head(t) = t[1]
  BY DEF Texts
<1>3. QED
  BY <1>1, <1>2 DEF HasPrefix, TrimPrefix, Texts

(* A prefix that was put in front goes again.                              *)
LEMMA OneToken ==
    ASSUME NEW S, NEW p \in S
    PROVE  <<p>> \in Seq(S) /\ Len(<<p>>) = 1 /\ <<p>>[1] = p
OBVIOUS

LEMMA TrimAddedPrefix ==
    ASSUME NEW S, NEW t \in Seq(S), NEW p \in S
    PROVE  TrimPrefix(<<p>> \o t, p) = t
<1> DEFINE one == <<p>>
<1>1. one \in Seq(S) /\ Len(one) = 1 /\ one[1] = p
  BY OneToken
<1> HIDE DEF one
<1> DEFINE u == one \o t
<1>2. Len(t) \in Nat
  OBVIOUS
<1>3. /\ u \in Seq(S)
      /\ Len(u) = Len(one) + Len(t)
      /\ \A j \in 1..Len(one) + Len(t) : u[j] = IF j <= Len(one) THEN one[j] ELSE t[j - Len(one)]
  BY <1>1, ConcatProperties
<1> HIDE DEF u
<1>4. Len(u) = 1 + Len(t) /\ u[1] = p /\ \A j \in 1..Len(t) : u[j + 1] = t[j]
  BY <1>1, <1>2, <1>3
<1>5. u # <<>>
  BY <1>2, <1>4, EmptySeq
<1>6. Head(u) = p
  BY <1>3, <1>4, <1>5
<1> DEFINE v == Tail(u)
<1>7. v \in Seq(S) /\ Len(v) = Len(u) - 1 /\ \A j \in 1..Len(v) : v[j] = u[j + 1]
  BY <1>3, <1>5, HeadTailProperties
<1> HIDE DEF v
<1>8. Len(v) = Len(t) /\ \A j \in 1..Len(v) : v[j] = t[j]
  BY <1>2, <1>4, <1>7
<1>9. v = t
  BY <1>7, <1>8, SeqEqual
<1>10. TrimPrefix(u, p) = v
  BY <1>5, <1>6 DEF TrimPrefix, HasPrefix, Empty, v
<1>11. QED
  BY <1>9, <1>10 DEF u, one

(* Cutting at the first separator and dropping a prefix can change places. *)
LEMMA CutWithoutPrefix ==
    ASSUME NEW t \in Texts, NEW p, NEW c, p # c, Has(t, c)
    PROVE  LET u == TrimPrefix(t, p)
           IN  /\ u \in Texts
               /\ Index(u, c) > 0
               /\ Before(u, Index(u, c)) = TrimPrefix(Before(t, Index(t, c)), p)
<1> DEFINE u == TrimPrefix(t, p)
           i == Index(t, c)
           b == Before(t, i)
           k == Index(u, c)
<1>1. /\ i \in 1..Len(t) /\ t[i] = c
      /\ \A j \in DOMAIN t : t[j] = c => i <= j
  BY IndexProperty DEF Texts
<1>2. Len(t) \in Nat /\ DOMAIN t = 1..Len(t)
  BY DEF Texts
<1> HIDE DEF i
<1>3. /\ b \in Texts
      /\ Len(b) = i - 1
      /\ \A j \in 1..i - 1 : b[j] = t[j]
  BY <1>1, <1>2, BeforeProperty
<1>4. t # Empty
  BY <1>1, <1>2, EmptySeq DEF Empty
<1> HIDE DEF b
<1>5. b # Empty => b[1] = t[1]
  BY <1>1, <1>3, EmptySeq DEF Empty, Texts
<1>6. CASE ~HasPrefix(t, p)
  <2>1. u = t /\ t[1] # p
    BY <1>4, <1>6, PrefixProperty
  <2>2. ~HasPrefix(b, p)
    BY <1>3, <1>5, <2>1, PrefixProperty
  <2>3. TrimPrefix(b, p) = b
    BY <1>3, <2>2, PrefixProperty
  <2>4. k = i
    BY <2>1 DEF i
  <2>5. QED
    BY <1>1, <1>2, <2>1, <2>3, <2>4 DEF b
<1>7. CASE HasPrefix(t, p)
  <2>1. /\ t[1] = p
        /\ u \in Texts
        /\ Len(u) = Len(t) - 1
        /\ \A j \in 1..Len(t) - 1 : u[j] = t[j + 1]
    BY <1>7, PrefixProperty
  <2>2. i \in 2..Len(t)
    BY <1>1, <1>2, <2>1
  <2>3. /\ b # Empty
        /\ b[1] = p
    BY <1>3, <1>5, <2>1, <2>2, EmptySeq DEF Empty
  <2>4. HasPrefix(b, p)
    BY <1>3, <2>3, PrefixProperty
  <2> DEFINE v == TrimPrefix(b, p)
             w == Before(u, i - 1)
  <2>5. /\ v \in Texts
        /\ Len(v) = Len(b) - 1
        /\ \A j \in 1..Len(b) - 1 : v[j] = b[j + 1]
    BY <1>3, <2>4, PrefixProperty
  <2> HIDE DEF u
  <2>6. DOMAIN u = 1..Len(t) - 1
    BY <2>1 DEF Texts
  <2>7. i - 1 \in DOMAIN u /\ u[i - 1] = c
    BY <1>1, <1>2, <2>1, <2>2, <2>6
  <2>8. Has(u, c)
    BY <2>7 DEF Has
  <2>9. /\ k \in 1..Len(u) /\ u[k] = c
        /\ k <= i - 1
    BY <2>1, <2>7, <2>8, IndexProperty DEF Texts
  <2> HIDE DEF k
  <2>10. k + 1 \in DOMAIN t /\ t[k + 1] = c
    BY <1>2, <2>1, <2>9
  <2>11. k = i - 1
    BY <1>1, <1>2, <2>2, <2>9, <2>10
  <2>12. i - 1 \in 1..Len(u) + 1
    BY <1>2, <2>1, <2>2
  <2>13. /\ w \in Texts
         /\ Len(w) = (i - 1) - 1
         /\ \A j \in 1..(i - 1) - 1 : w[j] = u[j]
    <3> DEFINE m == i - 1
    <3>1. m \in 1..Len(u) + 1
      BY <2>12
    <3> HIDE DEF m
    <3>2. /\ Before(u, m) \in Texts
          /\ Len(Before(u, m)) = m - 1
          /\ \A j \in 1..m - 1 : Before(u, m)[j] = u[j]
      BY <2>1, <3>1, BeforeProperty
    <3>3. QED
      BY <3>2 DEF m
  <2> HIDE DEF v, w
  <2>14. Len(v) = Len(w)
    BY <1>3, <2>2, <2>5, <2>13
  <2>15. \A j \in 1..Len(v) : v[j] = w[j]
    BY <1>2, <1>3, <2>1, <2>2, <2>5, <2>13
  <2>16. v = w
    BY <2>5, <2>13, <2>14, <2>15, SeqEqual DEF Texts
  <2>17. k > 0
    BY <2>9
  <2>18. QED
    BY <2>1, <2>11, <2>16, <2>17 DEF k, u, v, w, b, i
<1>8. QED
  BY <1>6, <1>7 DEF k, b, i

----------------------------------------------------------------------------
(* A set of numbers that has 0, and with each number the next, has all.    *)

LEMMA CountingUp ==
    ASSUME NEW n \in Nat, NEW T, 0 \in T,
           \A k \in 0..n - 1 : k \in T => k + 1 \in T
    PROVE  \A k \in 0..n : k \in T
<1> DEFINE U == {k \in 0..n : k \notin T}
<1>1. CASE U = {}
  BY <1>1
<1>2. CASE U # {}
  <2>1. U \in SUBSET Nat
    OBVIOUS
  <2>2. Min(U) \in U /\ \A k \in U : Min(U) <= k
    BY <1>2, <2>1, MinProperty
  <2> DEFINE m == Min(U)
  <2>3. m \in 0..n /\ m \notin T /\ m # 0
    BY <2>2
  <2> HIDE DEF m
  <2>4. m - 1 \in 0..n - 1 /\ m - 1 \in 0..n /\ (m - 1) + 1 = m
    BY <2>3
  <2>5. m - 1 \notin T
    BY <2>3, <2>4
  <2>6. m - 1 \in U /\ ~(m <= m - 1)
    BY <2>3, <2>4, <2>5
  <2>7. QED
    BY <2>2, <2>6 DEF m
<1>3. QED
  BY <1>1, <1>2

----------------------------------------------------------------------------
(* Texts that are put together and taken apart.                            *)

LEMMA Joined ==
    ASSUME NEW t \in Texts, NEW u \in Texts
    PROVE  /\ t \o u \in Texts
           /\ Len(t \o u) = Len(t) + Len(u)
           /\ Len(t) \in Nat /\ Len(u) \in Nat
           /\ \A i \in 1..Len(t) : (t \o u)[i] = t[i]
           /\ \A i \in 1..Len(u) : (t \o u)[Len(t) + i] = u[i]
<1>1. /\ t \o u \in Seq(STRING)
      /\ Len(t \o u) = Len(t) + Len(u)
      /\ \A i \in 1..Len(t) + Len(u) :
            (t \o u)[i] = IF i <= Len(t) THEN t[i] ELSE u[i - Len(t)]
  BY ConcatProperties DEF Texts
<1>2. Len(t) \in Nat /\ Len(u) \in Nat
  BY DEF Texts
<1> DEFINE v == t \o u
<1>3. \A i \in 1..Len(t) + Len(u) : v[i] = IF i <= Len(t) THEN t[i] ELSE u[i - Len(t)]
  BY <1>1
<1> HIDE DEF v
<1>4. \A i \in 1..Len(t) : v[i] = t[i]
  BY <1>2, <1>3
<1>5. ASSUME NEW i \in 1..Len(u)
      PROVE  v[Len(t) + i] = u[i]
  <2>1. Len(t) + i \in 1..Len(t) + Len(u) /\ ~(Len(t) + i <= Len(t))
        /\ (Len(t) + i) - Len(t) = i
    BY <1>2
  <2>2. QED
    BY <1>3, <2>1
<1>6. QED
  BY <1>1, <1>2, <1>4, <1>5 DEF v, Texts

LEMMA OneTokenText ==
    ASSUME NEW c, c \in STRING
    PROVE  /\ <<c>> \in Texts /\ Len(<<c>>) = 1 /\ <<c>>[1] = c
           /\ \A d : Has(<<c>>, d) <=> d = c
<1> DEFINE t == <<c>>
<1>1. t \in Seq(STRING) /\ Len(t) = 1 /\ t[1] = c
  BY OneToken
<1>2. DOMAIN t = {1}
  OBVIOUS
<1> HIDE DEF t
<1>3. \A d : Has(t, d) <=> d = c
  BY <1>1, <1>2 DEF Has
<1>4. QED
  BY <1>1, <1>3 DEF t, Texts

LEMMA EmptyText ==
    /\ Empty \in Texts /\ Len(Empty) = 0 /\ \A c : ~Has(Empty, c)
    /\ \A t \in Texts : Empty \o t = t
    /\ \A t \in Texts : Len(t) = 0 => t = Empty
<1>1. <<>> \in Seq(STRING) /\ Len(<<>>) = 0
  BY EmptySeq
<1>2. \A c : ~Has(<<>>, c)
  BY DEF Has
<1>3. \A t \in Seq(STRING) : <<>> \o t = t
  BY ConcatEmptySeq
<1>4. \A t \in Seq(STRING) : Len(t) = 0 => t = <<>>
  BY EmptySeq
<1>5. QED
  BY <1>1, <1>2, <1>3, <1>4 DEF Empty, Texts

LEMMA Associative ==
    ASSUME NEW t \in Texts, NEW u \in Texts, NEW v \in Texts
    PROVE  t \o (u \o v) = t \o u \o v
BY ConcatAssociative DEF Texts

LEMMA JoinedHas ==
    ASSUME NEW t \in Texts, NEW u \in Texts, NEW c
    PROVE  Has(t \o u, c) <=> Has(t, c) \/ Has(u, c)
<1> DEFINE v == t \o u
<1>1. /\ v \in Texts
      /\ Len(v) = Len(t) + Len(u)
      /\ Len(t) \in Nat /\ Len(u) \in Nat
      /\ \A i \in 1..Len(t) : v[i] = t[i]
      /\ \A i \in 1..Len(u) : v[Len(t) + i] = u[i]
  BY Joined
<1> HIDE DEF v
<1>2. DOMAIN v = 1..Len(t) + Len(u) /\ DOMAIN t = 1..Len(t) /\ DOMAIN u = 1..Len(u)
  BY <1>1 DEF Texts
<1>3. ASSUME NEW i \in DOMAIN v, v[i] = c
      PROVE  Has(t, c) \/ Has(u, c)
  <2>1. CASE i <= Len(t)
    <3>1. i \in DOMAIN t /\ t[i] = c
      BY <1>1, <1>2, <1>3, <2>1
    <3>2. QED
      BY <3>1 DEF Has
  <2>2. CASE ~(i <= Len(t))
    <3>1. i - Len(t) \in 1..Len(u) /\ Len(t) + (i - Len(t)) = i
      BY <1>1, <1>2, <2>2
    <3>2. u[i - Len(t)] = c
      BY <1>1, <1>3, <3>1
    <3>3. QED
      BY <1>2, <3>1, <3>2 DEF Has
  <2>3. QED
    BY <2>1, <2>2
<1>4. ASSUME NEW i \in DOMAIN t, t[i] = c
      PROVE  Has(v, c)
  <2>1. i \in DOMAIN v /\ v[i] = c
    BY <1>1, <1>2, <1>4
  <2>2. QED
    BY <2>1 DEF Has
<1>5. ASSUME NEW i \in DOMAIN u, u[i] = c
      PROVE  Has(v, c)
  <2>1. Len(t) + i \in DOMAIN v /\ v[Len(t) + i] = c
    BY <1>1, <1>2, <1>5
  <2>2. QED
    BY <2>1 DEF Has
<1>6. QED
  BY <1>3, <1>4, <1>5 DEF Has, v

EndsWith(t, c) == Len(t) > 0 /\ t[Len(t)] = c

LEMMA ShorterCut ==
    ASSUME NEW t \in Texts, NEW u \in Texts, NEW e \in Texts, NEW f \in Texts, NEW c,
           EndsWith(u, c), ~Has(e, c), t \o e = u \o f
    PROVE  ~(Len(t) < Len(u))
<1> SUFFICES ASSUME Len(t) < Len(u)
             PROVE  FALSE
  OBVIOUS
<1> DEFINE v == t \o e
           n == Len(u)
           i == n - Len(t)
<1>1. /\ Len(v) = Len(t) + Len(e)
      /\ Len(t) \in Nat /\ Len(e) \in Nat
      /\ \A k \in 1..Len(e) : v[Len(t) + k] = e[k]
  BY Joined
<1>2. /\ Len(v) = n + Len(f)
      /\ n \in Nat /\ Len(f) \in Nat
      /\ \A k \in 1..n : v[k] = u[k]
  BY Joined
<1> HIDE DEF v, n
<1>3. i \in 1..Len(e) /\ Len(t) + i = n
  BY <1>1, <1>2 DEF n
<1>4. v[n] = c
  BY <1>2 DEF EndsWith, n
<1>5. e[i] = c
  BY <1>1, <1>3, <1>4
<1>6. DOMAIN e = 1..Len(e)
  BY DEF Texts
<1>7. QED
  BY <1>3, <1>5, <1>6 DEF Has

(* A text is cut in one way at the end of its last separator.              *)
LEMMA CutIsUnique ==
    ASSUME NEW t \in Texts, NEW u \in Texts, NEW e \in Texts, NEW f \in Texts, NEW c,
           t = Empty \/ EndsWith(t, c), u = Empty \/ EndsWith(u, c),
           ~Has(e, c), ~Has(f, c), t \o e = u \o f
    PROVE  t = u /\ e = f
<1>1. Len(t) \in Nat /\ Len(u) \in Nat /\ Len(Empty) = 0
  BY EmptyText DEF Texts
<1>2. ~(Len(t) < Len(u))
  <2>1. CASE u = Empty
    BY <1>1, <2>1
  <2>2. CASE EndsWith(u, c)
    BY <2>2, ShorterCut
  <2>3. QED
    BY <2>1, <2>2
<1>3. ~(Len(u) < Len(t))
  <2>1. CASE t = Empty
    BY <1>1, <2>1
  <2>2. CASE EndsWith(t, c)
    <3>1. u \o f = t \o e
      OBVIOUS
    <3>2. QED
      BY <2>2, <3>1, ShorterCut
  <2>3. QED
    BY <2>1, <2>2
<1>4. Len(t) = Len(u)
  BY <1>1, <1>2, <1>3
<1> DEFINE v == t \o e
<1>5. \A i \in 1..Len(t) : v[i] = t[i]
  BY Joined
<1>6. \A i \in 1..Len(u) : v[i] = u[i]
  BY Joined
<1> HIDE DEF v
<1>7. \A i \in 1..Len(t) : t[i] = u[i]
  BY <1>4, <1>5, <1>6
<1>8. t = u
  BY <1>4, <1>7, SeqEqual DEF Texts
<1>9. e = f
  BY <1>8, ConcatSimplifications DEF Texts
<1>10. QED
  BY <1>8, <1>9

LEMMA CutAfter ==
    ASSUME NEW e \in Texts, NEW f \in Texts, NEW c, ~Has(e, c), ~Has(f, c)
    PROVE  \A t, u \in Texts :
              EndsWith(t, c) /\ EndsWith(u, c) /\ t \o e = u \o f => t = u
<1> SUFFICES ASSUME NEW t \in Texts, NEW u \in Texts,
                    EndsWith(t, c), EndsWith(u, c), t \o e = u \o f
             PROVE  t = u
  OBVIOUS
<1>1. QED
  BY CutIsUnique

LEMMA MarkerEnds ==
    ASSUME NEW t \in Texts, NEW m \in Texts, NEW c, Len(m) = 1, m[1] = c
    PROVE  t \o m \in Texts /\ EndsWith(t \o m, c)
<1> DEFINE p == t \o m
<1>1. /\ p \in Texts
      /\ Len(p) = Len(t) + Len(m)
      /\ Len(t) \in Nat
      /\ \A i \in 1..Len(m) : p[Len(t) + i] = m[i]
  BY Joined
<1> HIDE DEF p
<1>2. Len(p) = Len(t) + 1 /\ Len(p) > 0 /\ 1 \in 1..Len(m)
  BY <1>1
<1>3. p[Len(t) + 1] = c
  BY <1>1, <1>2
<1>4. EndsWith(p, c)
  BY <1>2, <1>3 DEF EndsWith
<1>5. QED
  BY <1>1, <1>4 DEF p

(* What stands before a marker and what stands after its last occurrence.  *)
LEMMA CutAtMarker ==
    ASSUME NEW t \in Texts, NEW u \in Texts, NEW e \in Texts, NEW f \in Texts,
           NEW m \in Texts, NEW c, Len(m) = 1, m[1] = c, ~Has(e, c), ~Has(f, c),
           t \o m \o e = u \o m \o f
    PROVE  t = u /\ e = f
<1> DEFINE p == t \o m
           q == u \o m
<1>1. p \in Texts /\ EndsWith(p, c)
  BY MarkerEnds
<1>2. q \in Texts /\ EndsWith(q, c)
  BY MarkerEnds
<1>3. p \o e = q \o f
  OBVIOUS
<1> HIDE DEF p, q
<1>4. p = q
  BY <1>1, <1>2, <1>3, CutAfter, Zenon
<1>5. e = f
  BY <1>1, <1>3, <1>4, ConcatSimplifications DEF Texts
<1>6. t = u
  BY <1>4, ConcatSimplifications DEF p, q, Texts
<1>7. QED
  BY <1>5, <1>6

LEMMA TrimSpaceProperty ==
    ASSUME NEW t \in Texts
    PROVE  TrimSpace(t) \in Texts /\ \A c : Has(TrimSpace(t), c) => Has(t, c)
<1> DEFINE K == {i \in DOMAIN t : t[i] # Blank}
<1>1. Len(t) \in Nat /\ DOMAIN t = 1..Len(t) /\ \A i \in 1..Len(t) : t[i] \in STRING
  BY DEF Texts
<1>2. K \in SUBSET Nat /\ K \in SUBSET (1..Len(t))
  BY <1>1
<1>3. TrimSpace(t) = IF K = {} THEN Empty ELSE SubSeq(t, Min(K), Max(K))
  BY DEF TrimSpace
<1> HIDE DEF K
<1>4. CASE K = {}
  BY <1>3, <1>4, EmptyText
<1>5. CASE K # {}
  <2> DEFINE m == Min(K)
             n == Max(K)
             u == SubSeq(t, m, n)
  <2>1. m \in 1..Len(t) /\ n \in 1..Len(t)
    BY <1>1, <1>2, <1>5, MinProperty, MaxProperty
  <2> HIDE DEF m, n
  <2>2. m \in Int /\ n \in Int /\ \A i \in m..n : t[i] \in STRING
    BY <1>1, <2>1
  <2>3. /\ u \in Seq(STRING)
        /\ Len(u) = IF m <= n THEN n - m + 1 ELSE 0
        /\ \A i \in 1..n - m + 1 : u[i] = t[m + i - 1]
    BY <2>2, SubSeqProperties
  <2>4. DOMAIN u = 1..Len(u)
    BY <2>3
  <2> HIDE DEF u
  <2>5. ASSUME NEW c, NEW i \in DOMAIN u, u[i] = c
        PROVE  Has(t, c)
    <3>1. i \in 1..n - m + 1 /\ m + i - 1 \in DOMAIN t
      BY <1>1, <2>1, <2>3, <2>4
    <3>2. t[m + i - 1] = c
      BY <2>3, <2>5, <3>1
    <3>3. QED
      BY <3>1, <3>2 DEF Has
  <2>6. \A c : Has(u, c) => Has(t, c)
    BY <2>5 DEF Has
  <2>7. QED
    BY <1>3, <1>5, <2>3, <2>6 DEF u, m, n, Texts
<1>6. QED
  BY <1>4, <1>5

============================================================================
