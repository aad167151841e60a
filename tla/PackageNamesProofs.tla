------------------------- MODULE PackageNamesProofs -------------------------
(***************************************************************************)
(* The two extractions of a package's name agree, and a resource finds and *)
(* removes what it deployed, for every set of sources that the pattern of  *)
(* spec.source admits.                                                     *)
(***************************************************************************)
EXTENDS PackageNames, TextProofs

----------------------------------------------------------------------------
(* Cutting a text at its separators.                                       *)

(* What the pattern of spec.source says of a source and of its last part.  *)
LEMMA NamesOf ==
    ASSUME NEW s \in Sources
    PROVE  /\ s \in Texts
           /\ IsWellFormed(s)
           /\ LastPart(s, "/") \in Texts
           /\ ~Has(LastPart(s, "/"), "/")
           /\ ~Has(s, "/") => LastPart(s, "/") = s
BY SourcesAssumption, LastPartProperty

LEMMA TextLen ==
    ASSUME NEW t \in Texts
    PROVE  /\ Len(t) \in Nat
           /\ DOMAIN t = 1..Len(t)
           /\ t # Empty <=> Len(t) >= 1
BY EmptySeq DEF Texts, Empty

(* The positions of the separators of a text that was cut.                 *)
LEMMA CutPositions ==
    ASSUME NEW t \in Texts, NEW i \in 1..Len(t), NEW c
    PROVE  /\ Before(t, i) \in Texts
           /\ Len(Before(t, i)) = i - 1
           /\ Positions(Before(t, i), c) = {j \in Positions(t, c) : j < i}
<1>1. i \in 1..Len(t) + 1
  BY TextLen
<1>2. QED
  BY <1>1, BeforeProperty, BeforePositions

(* The first and the last of a text's separators, as a set sees them.      *)
LEMMA PositionsAre ==
    ASSUME NEW t \in Texts, NEW c
    PROVE  /\ Positions(t, c) \subseteq 1..Len(t)
           /\ \A i \in Positions(t, c) : t[i] = c
           /\ Index(t, c) \in 0..Len(t)
           /\ LastIndex(t, c) \in 0..Len(t)
           /\ Positions(t, c) = {} <=> Index(t, c) = 0
           /\ Positions(t, c) = {} <=> LastIndex(t, c) = 0
           /\ Positions(t, c) # {} => /\ Index(t, c) \in Positions(t, c)
                                      /\ LastIndex(t, c) \in Positions(t, c)
           /\ \A i \in Positions(t, c) : Index(t, c) <= i /\ i <= LastIndex(t, c)
<1>1. DOMAIN t = 1..Len(t) /\ Len(t) \in Nat
  BY TextLen
<1>2. Has(t, c) <=> Positions(t, c) # {}
  BY HasPositions
<1>3. /\ Index(t, c) \in 0..Len(t)
      /\ Has(t, c) <=> Index(t, c) > 0
      /\ Has(t, c) => t[Index(t, c)] = c
      /\ \A i \in DOMAIN t : t[i] = c => Index(t, c) <= i
  BY IndexProperty
<1>4. /\ LastIndex(t, c) \in 0..Len(t)
      /\ Has(t, c) <=> LastIndex(t, c) > 0
      /\ Has(t, c) => t[LastIndex(t, c)] = c
      /\ \A i \in DOMAIN t : t[i] = c => LastIndex(t, c) >= i
  BY LastIndexProperty
<1>5. \A i : i \in Positions(t, c) <=> i \in 1..Len(t) /\ t[i] = c
  BY <1>1 DEF Positions
<1> DEFINE n == Len(t)
           a == Index(t, c)
           z == LastIndex(t, c)
           P == Positions(t, c)
<1> HIDE DEF n, a, z, P
<1>6. /\ P \subseteq 1..n
      /\ \A i \in P : t[i] = c
      /\ a \in 0..n /\ z \in 0..n
      /\ \A i \in P : a <= i /\ i <= z
  BY <1>1, <1>3, <1>4, <1>5 DEF n, a, z, P
<1>7. /\ P = {} <=> a = 0
      /\ P = {} <=> z = 0
  BY <1>2, <1>3, <1>4, <1>6 DEF a, z, P
<1>8. P # {} => a \in P /\ z \in P
  <2>1. P # {} => a \in 1..n /\ z \in 1..n /\ t[a] = c /\ t[z] = c
    BY <1>1, <1>2, <1>3, <1>4, <1>6, <1>7 DEF n, a, z, P
  <2>2. QED
    BY <1>5, <2>1 DEF n, P
<1>9. QED
  BY <1>6, <1>7, <1>8 DEF n, a, z, P

(* A cut that finds nothing, and one that finds the last separator.        *)
LEMMA CutIs ==
    ASSUME NEW t \in Texts, NEW c
    PROVE  /\ Positions(t, c) = {} => Cut(t, c) = t /\ CutAfterFirst(t, c) = t
           /\ \A i \in Positions(t, c) :
                (\A j \in Positions(t, c) : j <= i) =>
                    /\ Cut(t, c) = Before(t, i)
                    /\ i # 1 => CutAfterFirst(t, c) = Before(t, i)
<1>1. ASSUME Positions(t, c) = {}
      PROVE  Cut(t, c) = t /\ CutAfterFirst(t, c) = t
  <2>1. LastIndex(t, c) = 0
    BY <1>1, PositionsAre
  <2>2. QED
    BY <2>1 DEF Cut, CutAfterFirst
<1>2. ASSUME NEW i \in Positions(t, c), \A j \in Positions(t, c) : j <= i
      PROVE  Cut(t, c) = Before(t, i) /\ (i # 1 => CutAfterFirst(t, c) = Before(t, i))
  <2>1. LastIndex(t, c) = i
    BY <1>2, LastIndexIs
  <2>2. i \in 1..Len(t) /\ Len(t) \in Nat
    BY PositionsAre, TextLen
  <2>3. i > 0 /\ (i # 1 => i > 1)
    BY <2>2
  <2>4. QED
    BY <2>1, <2>3 DEF Cut, CutAfterFirst
<1>3. QED
  BY <1>1, <1>2

LEMMA MinIs ==
    ASSUME NEW T \in SUBSET Nat, NEW m \in T, \A y \in T : m <= y
    PROVE  Min(T) = m
<1>1. Min(T) \in T /\ Min(T) <= m
  BY MinProperty
<1>2. m <= Min(T) /\ m \in Nat /\ Min(T) \in Nat
  BY <1>1
<1> DEFINE x == Min(T)
<1> HIDE DEF x
<1>3. x <= m /\ m <= x /\ m \in Nat /\ x \in Nat
  BY <1>1, <1>2 DEF x
<1>4. x = m
  BY <1>3
<1>5. QED
  BY <1>4 DEF x

(* The two extractions, applied to the last part of a reference.           *)
Extracted(p) == CutAfterFirst(CutAfterFirst(p, ":"), "@")

Inferred(n) ==
    IF IsClusterName(n) THEN n ELSE extractPackageNameFromSource(normalizeSource(n))

Ends(p) == Positions(p, ":") \cup Positions(p, "@")

Published(p) == IF Ends(p) = {} THEN p ELSE Before(p, Min(Ends(p)))

IsPart(p) ==
    /\ p \in Texts /\ p # Empty /\ ~Has(p, "/")
    /\ p[1] \notin {":", "@", ociPrefix}
    /\ Positions(p, ":") \subseteq {Index(p, ":"), LastIndex(p, ":")}
    /\ Positions(p, "@") \subseteq {Index(p, "@")}
    /\ IF Index(p, "@") = 0 THEN Index(p, ":") = LastIndex(p, ":")
       ELSE /\ Index(p, "@") < LastIndex(p, ":")
            /\ \/ Index(p, ":") < Index(p, "@")
               \/ Index(p, ":") = LastIndex(p, ":")

(* A cluster's name is a text without separators.                          *)
LEMMA ClusterName ==
    ASSUME NEW t
    PROVE  IsClusterName(t) <=> /\ Positions(t, "/") = {}
                                /\ Positions(t, ":") = {}
                                /\ Positions(t, "@") = {}
BY HasPositions DEF IsClusterName

(* Where the separators of a last part are.                                *)
LEMMA PartSeparators ==
    ASSUME NEW p, IsPart(p)
    PROVE  /\ p \in Texts /\ Len(p) \in Nat /\ Len(p) >= 1
           /\ Positions(p, ":") \subseteq 2..Len(p)
           /\ Positions(p, "@") \subseteq 2..Len(p)
           /\ Positions(p, "/") = {}
           /\ \/ Positions(p, ":") = {} /\ Positions(p, "@") = {}
              \/ \E i \in 2..Len(p) : Positions(p, ":") = {i} /\ Positions(p, "@") = {}
              \/ \E i, j \in 2..Len(p) :
                    i < j /\ Positions(p, "@") = {i} /\ Positions(p, ":") = {j}
              \/ \E h, i, j \in 2..Len(p) :
                    /\ h < i /\ i < j
                    /\ Positions(p, "@") = {i} /\ Positions(p, ":") = {h, j}
<1> DEFINE C     == Positions(p, ":")
           A     == Positions(p, "@")
           n     == Len(p)
           colon == Index(p, ":")
           value == LastIndex(p, ":")
           at    == Index(p, "@")
<1>1. /\ p \in Texts
      /\ n \in Nat /\ n >= 1
      /\ Positions(p, "/") = {}
  BY TextLen, HasPositions DEF IsPart
<1>2. 1 \notin C /\ 1 \notin A
  BY DEF IsPart, Positions
<1>3. /\ C \subseteq 1..n /\ A \subseteq 1..n
      /\ colon \in 0..n /\ value \in 0..n /\ at \in 0..n
      /\ C = {} <=> colon = 0
      /\ C = {} <=> value = 0
      /\ A = {} <=> at = 0
      /\ C # {} => colon \in C /\ value \in C
      /\ A # {} => at \in A
      /\ colon = 0 \/ colon <= value
  BY <1>1, PositionsAre
<1>4. /\ C \subseteq {colon, value}
      /\ A \subseteq {at}
      /\ IF at = 0 THEN colon = value
         ELSE at < value /\ (colon < at \/ colon = value)
  BY DEF IsPart
<1> HIDE DEF C, A, n, colon, value, at
<1>5. C \subseteq 2..n /\ A \subseteq 2..n
  BY <1>1, <1>2, <1>3
<1>6. CASE value = 0
  BY <1>1, <1>3, <1>4, <1>5, <1>6 DEF C, A, n
<1>7. CASE value # 0 /\ at = 0
  <2>1. value \in 2..n /\ C = {value} /\ A = {}
    BY <1>3, <1>4, <1>5, <1>7
  <2>2. QED
    BY <1>1, <1>5, <2>1 DEF C, A, n
<1>8. CASE value # 0 /\ at # 0 /\ colon = value
  <2>1. value \in 2..n /\ at \in 2..n /\ at < value /\ C = {value} /\ A = {at}
    BY <1>3, <1>4, <1>5, <1>8
  <2>2. QED
    BY <1>1, <1>5, <2>1 DEF C, A, n
<1>9. CASE value # 0 /\ at # 0 /\ colon # value
  <2>1. /\ value \in 2..n /\ at \in 2..n /\ colon \in 2..n
        /\ colon < at /\ at < value /\ C = {colon, value} /\ A = {at}
    BY <1>3, <1>4, <1>5, <1>9
  <2>2. QED
    BY <1>1, <1>5, <2>1 DEF C, A, n
<1>10. QED
  BY <1>6, <1>7, <1>8, <1>9

(* A part that is cut in its tail keeps its first token.                   *)
LEMMA CutPart ==
    ASSUME NEW p \in Texts, NEW i \in 2..Len(p), NEW c
    PROVE  /\ Before(p, i) \in Texts
           /\ Before(p, i) # Empty
           /\ Before(p, i)[1] = p[1]
           /\ Positions(Before(p, i), c) = {j \in Positions(p, c) : j < i}
<1>1. Len(p) \in Nat /\ i \in 1..Len(p) /\ i \in 1..Len(p) + 1 /\ 1 \in 1..i - 1
  BY TextLen
<1>2. /\ Before(p, i) \in Texts
      /\ Len(Before(p, i)) = i - 1
      /\ Before(p, i)[1] = p[1]
  BY <1>1, BeforeProperty
<1>3. Positions(Before(p, i), c) = {j \in Positions(p, c) : j < i}
  BY <1>1, CutPositions
<1>4. Before(p, i) # Empty
  BY <1>1, <1>2, TextLen
<1>5. QED
  BY <1>2, <1>3, <1>4

(* The four forms of a last part: a name, name:tag, name@digest and        *)
(* name:tag@digest.  The controller keeps the tag of the last, and the     *)
(* client drops it.                                                        *)
LEMMA PlainPart ==
    ASSUME NEW p, IsPart(p), Positions(p, ":") = {}, Positions(p, "@") = {}
    PROVE  /\ Extracted(p) = p
           /\ Published(p) = p
           /\ IsClusterName(p)
<1>1. p \in Texts /\ Positions(p, "/") = {}
  BY PartSeparators
<1>2. QED
  BY <1>1, CutIs, ClusterName DEF Extracted, Published, Ends

LEMMA TaggedPart ==
    ASSUME NEW p, IsPart(p), NEW i \in 2..Len(p),
           Positions(p, ":") = {i}, Positions(p, "@") = {}
    PROVE  /\ Extracted(p) = Before(p, i)
           /\ Published(p) = Before(p, i)
           /\ IsClusterName(Before(p, i))
<1>1. p \in Texts /\ Positions(p, "/") = {} /\ Len(p) \in Nat
  BY PartSeparators
<1> DEFINE q == Before(p, i)
<1>2. q \in Texts /\ Positions(q, ":") = {} /\ Positions(q, "@") = {} /\ Positions(q, "/") = {}
  BY <1>1, CutPart
<1> HIDE DEF q
<1>3. CutAfterFirst(p, ":") = q
  BY <1>1, CutIs DEF q
<1>4. CutAfterFirst(q, "@") = q
  BY <1>2, CutIs
<1>5. Ends(p) = {i} /\ Min({i}) = i
  BY MinIs DEF Ends
<1>6. QED
  BY <1>2, <1>3, <1>4, <1>5, ClusterName DEF Extracted, Published, q

LEMMA DigestPart ==
    ASSUME NEW p, IsPart(p), NEW i \in 2..Len(p), NEW j \in 2..Len(p), i < j,
           Positions(p, "@") = {i}, j \in Positions(p, ":"),
           \A h \in Positions(p, ":") : h <= j
    PROVE  Extracted(p) = Before(p, i)
<1>1. p \in Texts /\ Len(p) \in Nat
  BY PartSeparators
<1> DEFINE q == Before(p, j)
<1>2. q \in Texts /\ Positions(q, "@") = {i}
  BY <1>1, CutPart
<1>3. Before(q, i) = Before(p, i)
  <2>1. j \in 1..Len(p) + 1 /\ i \in 1..j
    BY <1>1
  <2>2. QED
    BY <1>1, <2>1, BeforeBefore
<1> HIDE DEF q
<1>4. CutAfterFirst(p, ":") = q
  <2>1. j # 1
    OBVIOUS
  <2>2. QED
    BY <1>1, <2>1, CutIs DEF q
<1>5. CutAfterFirst(q, "@") = Before(q, i)
  BY <1>2, CutIs
<1>6. QED
  BY <1>3, <1>4, <1>5 DEF Extracted

LEMMA NamedByDigest ==
    ASSUME NEW p, IsPart(p), NEW i \in 2..Len(p), NEW j \in 2..Len(p), i < j,
           Positions(p, "@") = {i}, Positions(p, ":") = {j}
    PROVE  /\ Extracted(p) = Before(p, i)
           /\ Published(p) = Before(p, i)
           /\ IsClusterName(Before(p, i))
<1>1. p \in Texts /\ Positions(p, "/") = {} /\ Len(p) \in Nat
  BY PartSeparators
<1> DEFINE q == Before(p, i)
<1>2. q \in Texts /\ Positions(q, ":") = {} /\ Positions(q, "@") = {} /\ Positions(q, "/") = {}
  BY <1>1, CutPart
<1>3. Extracted(p) = q
  BY DigestPart
<1>4. Ends(p) = {i, j} /\ Min({i, j}) = i
  BY MinIs DEF Ends
<1> HIDE DEF q
<1>5. Published(p) = q
  BY <1>4 DEF Published, q
<1>6. QED
  BY <1>2, <1>3, <1>5, ClusterName DEF q

(* A sequence of some tokens is one of more tokens.                        *)
LEMMA SeqOfMore ==
    ASSUME NEW S, NEW T, S \subseteq T, NEW t \in Seq(S)
    PROVE  t \in Seq(T)
OBVIOUS

LEMMA NamedByTagAndDigest ==
    ASSUME NEW p, IsPart(p),
           NEW h \in 2..Len(p), NEW i \in 2..Len(p), NEW j \in 2..Len(p), h < i, i < j,
           Positions(p, "@") = {i}, Positions(p, ":") = {h, j}
    PROVE  /\ Extracted(p) = Before(p, i)
           /\ Published(p) = Before(p, h)
           /\ ~IsClusterName(Before(p, i))
           /\ IsClusterName(Before(p, h))
           /\ extractPackageNameFromSource(normalizeSource(Before(p, i))) = Before(p, h)
<1>1. p \in Texts /\ Positions(p, "/") = {} /\ Len(p) \in Nat
  BY PartSeparators
<1> DEFINE e == Before(p, i)
           q == Before(p, h)
<1>2. /\ e \in Texts /\ e # Empty /\ e[1] = p[1]
      /\ Positions(e, ":") = {h} /\ Positions(e, "@") = {} /\ Positions(e, "/") = {}
  BY <1>1, CutPart
<1>3. q \in Texts /\ Positions(q, ":") = {} /\ Positions(q, "@") = {} /\ Positions(q, "/") = {}
  <2>1. \A k \in {h, i, j} : ~(k < h)
    OBVIOUS
  <2>2. q \in Texts /\ \A c : Positions(q, c) = {k \in Positions(p, c) : k < h}
    BY <1>1, CutPart
  <2>3. QED
    BY <1>1, <2>1, <2>2
<1>4. Before(e, h) = q
  <2>1. i \in 1..Len(p) + 1 /\ h \in 1..i
    BY <1>1
  <2>2. QED
    BY <1>1, <2>1, BeforeBefore
<1>5. Extracted(p) = e
  BY DigestPart
<1>6. Ends(p) = {h, i, j} /\ Min({h, i, j}) = h
  BY MinIs DEF Ends
<1> HIDE DEF e, q
<1>7. Published(p) = q
  BY <1>6 DEF Published, q
<1>8. IsClusterName(q) /\ ~IsClusterName(e)
  BY <1>2, <1>3, ClusterName
<1>9. ~HasPrefix(e, ociPrefix)
  BY <1>2, PrefixProperty DEF IsPart
<1>10. normalizeSource(e) = <<ociPrefix>> \o e
  BY <1>2, <1>8, <1>9 DEF normalizeSource
<1>11. TrimPrefix(<<ociPrefix>> \o e, ociPrefix) = e
  <2> DEFINE S == STRING \cup {ociPrefix}
  <2>1. e \in Seq(S)
    BY <1>2, SeqOfMore DEF Texts
  <2>2. QED
    BY <2>1, TrimAddedPrefix
<1>12. LastPart(e, "/") = e
  BY <1>2, HasPositions, LastPartProperty
<1>13. Cut(e, ":") = q
  BY <1>2, <1>4, CutIs
<1>14. Cut(q, "@") = q
  BY <1>3, CutIs
<1>15. extractPackageNameFromSource(normalizeSource(e)) = q
  BY <1>10, <1>11, <1>12, <1>13, <1>14 DEF extractPackageNameFromSource
<1>16. QED
  BY <1>5, <1>7, <1>8, <1>15 DEF e, q

----------------------------------------------------------------------------
(* From the last part to the source.                                       *)

LEMMA SourceNames ==
    ASSUME NEW s \in Sources
    PROVE  LET p == LastPart(s, "/")
           IN  /\ IsPart(p)
               /\ PublishedName[s] = Published(p)
               /\ IsReference(s) => extractPackageName[s] = Extracted(p)
               /\ extractPackageName[s] \in Names
<1>1. IsPart(LastPart(s, "/"))
  BY SourcesAssumption, LastPartProperty DEF IsWellFormed, IsPart
<1>2. QED
  BY <1>1 DEF PublishedName, Published, Ends, IsReference, extractPackageName,
              Extracted, Names

LEMMA InferredName ==
    ASSUME NEW n \in Names
    PROVE  inferClusterPackageName[n] = Inferred(n)
BY DEF inferClusterPackageName, Inferred

(* The controller's name of a package is never empty, and the client makes *)
(* of it the name that the package is published under.                     *)
LEMMA ExtractionsAgree ==
    ASSUME NEW s \in Sources, IsReference(s)
    PROVE  /\ extractPackageName[s] # Empty
           /\ inferClusterPackageName[extractPackageName[s]] = PublishedName[s]
<1> DEFINE p == LastPart(s, "/")
<1>1. /\ IsPart(p)
      /\ PublishedName[s] = Published(p)
      /\ extractPackageName[s] = Extracted(p)
      /\ extractPackageName[s] \in Names
  BY SourceNames
<1> HIDE DEF p
<1>2. p \in Texts /\ p # Empty
  BY <1>1 DEF IsPart
<1>3. Extracted(p) # Empty /\ Inferred(Extracted(p)) = Published(p)
  <2>1. CASE Positions(p, ":") = {} /\ Positions(p, "@") = {}
    BY <1>1, <1>2, <2>1, PlainPart DEF Inferred
  <2>2. ASSUME NEW i \in 2..Len(p), Positions(p, ":") = {i}, Positions(p, "@") = {}
        PROVE  <1>3!1 /\ <1>3!2
    BY <1>1, <1>2, <2>2, TaggedPart, CutPart DEF Inferred
  <2>3. ASSUME NEW i \in 2..Len(p), NEW j \in 2..Len(p), i < j,
               Positions(p, "@") = {i}, Positions(p, ":") = {j}
        PROVE  <1>3!1 /\ <1>3!2
    BY <1>1, <1>2, <2>3, NamedByDigest, CutPart DEF Inferred
  <2>4. ASSUME NEW h \in 2..Len(p), NEW i \in 2..Len(p), NEW j \in 2..Len(p), h < i, i < j,
               Positions(p, "@") = {i}, Positions(p, ":") = {h, j}
        PROVE  <1>3!1 /\ <1>3!2
    BY <1>1, <1>2, <2>4, NamedByTagAndDigest, CutPart DEF Inferred
  <2>5. QED
    BY <1>1, <2>1, <2>2, <2>3, <2>4, PartSeparators
<1>4. QED
  BY <1>1, <1>3, InferredName

(* A package's own name has no separator.                                  *)
LEMMA PublishedIsName ==
    ASSUME NEW s \in Sources
    PROVE  IsClusterName(PublishedName[s])
<1> DEFINE p == LastPart(s, "/")
<1>1. IsPart(p) /\ PublishedName[s] = Published(p)
  BY SourceNames
<1> HIDE DEF p
<1>2. IsClusterName(Published(p))
  BY <1>1, PartSeparators, PlainPart, TaggedPart, NamedByDigest, NamedByTagAndDigest
<1>3. QED
  BY <1>1, <1>2

(* No cut of the controller's leaves nothing, so getPackageName never      *)
(* falls back on the external name.                                        *)
LEMMA CutIsNotEmpty ==
    ASSUME NEW t \in Texts, t # Empty, NEW c
    PROVE  CutAfterFirst(t, c) \in Texts /\ CutAfterFirst(t, c) # Empty
<1>1. LastIndex(t, c) \in 0..Len(t) /\ Len(t) \in Nat
  BY PositionsAre, TextLen
<1>2. LastIndex(t, c) > 1 => LastIndex(t, c) \in 2..Len(t)
  BY <1>1
<1>3. QED
  BY <1>2, CutPart DEF CutAfterFirst

LEMMA ExtractedIsNotEmpty ==
    ASSUME NEW s \in Sources
    PROVE  extractPackageName[s] # Empty
<1>1. CASE IsReference(s)
  BY <1>1, ExtractionsAgree
<1>2. CASE ~IsReference(s)
  <2>1. s \in Texts /\ s # Empty
    BY <1>2, NamesOf DEF IsReference, IsWellFormed
  <2>2. Index(s, ".") \in 0..Len(s) /\ Len(s) \in Nat
    BY <2>1, PositionsAre, TextLen
  <2>3. Index(s, ".") > 1 => Index(s, ".") \in 2..Len(s)
    BY <2>2
  <2>4. extractPackageName[s] = IF Index(s, ".") > 1 THEN Before(s, Index(s, ".")) ELSE s
    BY <1>2 DEF extractPackageName, IsReference
  <2>5. QED
    BY <2>1, <2>3, <2>4, CutPart
<1>3. QED
  BY <1>1, <1>2

----------------------------------------------------------------------------
(* The invariant.                                                          *)

Record(s, n) == [name |-> PublishedName[s], ns |-> n]

(* What a live resource deployed last was a reference, and its package is  *)
(* still installed: only a deletion removes packages.                      *)
AppliedInv ==
    resource = "live" /\ applied # Empty =>
        \E s \in Sources, n \in Namespaces :
            /\ IsReference(s)
            /\ applied = <<s, n>>
            /\ Record(s, n) \in installed

NamesInv ==
    /\ source \in Sources
    /\ namespace \in Namespaces
    /\ edits \in 0..MaxEdits
    /\ extName \in Names
    /\ created => \E s \in Sources : extName = extractPackageName[s]
    /\ resource \in {"live", "deleting", "gone"}
    /\ installed \subseteq {Record(s, n) : s \in Sources, n \in Namespaces}
    /\ AppliedInv

(* A pass asks for the name of its source.                                 *)
LEMMA NameOfPass ==
    ASSUME source \in Sources
    PROVE  getPackageName = extractPackageName[source] /\ getPackageName \in Names
BY ExtractedIsNotEmpty, SourceNames DEF getPackageName

LEMMA NamesInit == Init => NamesInv
BY PackageNamesAssumption DEF Init, NamesInv, AppliedInv, Names

(* A deployment adds what it records, or nothing.                          *)
LEMMA DeployStep ==
    ASSUME NamesInv, Deploy, source' = source, namespace' = namespace,
           resource' = resource
    PROVE  /\ installed' \subseteq {Record(s, n) : s \in Sources, n \in Namespaces}
           /\ AppliedInv'
<1>1. CASE IsReference(source)
  <2>1. /\ installed' = installed \cup {Record(source, namespace)}
        /\ applied' = <<source, namespace>>
        /\ source \in Sources /\ namespace \in Namespaces
    BY <1>1 DEF Deploy, Record, computeSpecHash, NamesInv
  <2>2. QED
    BY <1>1, <2>1 DEF NamesInv, AppliedInv
<1>2. CASE ~IsReference(source)
  BY <1>2 DEF Deploy, NamesInv, AppliedInv
<1>3. QED
  BY <1>1, <1>2

(* A removal takes packages away, or none.                                 *)
LEMMA RemoveStep ==
    ASSUME NEW name, Remove(name)
    PROVE  installed' \subseteq installed
BY DEF Remove

LEMMA NamesStep == NamesInv /\ [Next]_vars => NamesInv'
<1> SUFFICES ASSUME NamesInv, [Next]_vars
             PROVE  NamesInv'
  OBVIOUS
<1>1. CASE Edit
  BY <1>1, PackageNamesAssumption DEF Edit, NamesInv, AppliedInv
<1>2. CASE RequestDelete
  BY <1>2 DEF RequestDelete, NamesInv, AppliedInv
<1>3. CASE Create
  <2>1. /\ getPackageName = extractPackageName[source]
        /\ getPackageName \in Names
    BY NameOfPass DEF NamesInv
  <2>2. /\ installed' \subseteq {Record(s, n) : s \in Sources, n \in Namespaces}
        /\ AppliedInv'
    BY <1>3, DeployStep DEF Create
  <2>3. QED
    BY <1>3, <2>1, <2>2 DEF Create, NamesInv
<1>4. CASE Update
  <2>1. /\ installed' \subseteq {Record(s, n) : s \in Sources, n \in Namespaces}
        /\ AppliedInv'
    BY <1>4, DeployStep DEF Update
  <2>2. QED
    BY <1>4, <2>1 DEF Update, NamesInv
<1>5. CASE Delete
  <2>1. installed' \subseteq installed
    BY <1>5, RemoveStep DEF Delete
  <2>2. QED
    BY <1>5, <2>1 DEF Delete, NamesInv, AppliedInv
<1>6. CASE RemoveFinalizer
  BY <1>6 DEF RemoveFinalizer, NamesInv, AppliedInv
<1>7. CASE UNCHANGED vars
  BY <1>7 DEF vars, NamesInv, AppliedInv
<1>8. QED
  BY <1>1, <1>2, <1>3, <1>4, <1>5, <1>6, <1>7 DEF Next

LEMMA NamesInductive == Spec => []NamesInv
BY NamesInit, NamesStep, PTL DEF Spec

(* Every package that is recorded has a name the cluster is searched by,   *)
(* and the external name is one the client can be asked for.               *)
THEOREM TypeCorrect == Spec => []TypeOK
<1>1. NamesInv => TypeOK
  BY PublishedIsName DEF NamesInv, TypeOK, Record
<1>2. QED
  BY <1>1, NamesInductive, PTL

(* Observe finds the package that the spec's last deployment recorded: the *)
(* controller's extractPackageName and the client's, applied one after the *)
(* other, arrive at the name that the reference publishes, for a reference *)
(* with a tag, a digest, both or neither, and through edits of the spec.   *)
THEOREM AppliedPackageIsFound == Spec => []AppliedIsFound
<1>1. NamesInv => AppliedIsFound
  <2> SUFFICES ASSUME NamesInv, resource = "live", applied = computeSpecHash
               PROVE  IsInstalled(getPackageName)
    BY DEF AppliedIsFound
  <2>1. applied = <<source, namespace>> /\ applied # Empty
    BY DEF computeSpecHash, Empty
  <2>2. PICK s \in Sources, n \in Namespaces :
          IsReference(s) /\ applied = <<s, n>> /\ Record(s, n) \in installed
    BY <2>1 DEF NamesInv, AppliedInv
  <2>3. s = source /\ n = namespace
    BY <2>1, <2>2
  <2>4. getPackageName = extractPackageName[source]
    BY NameOfPass DEF NamesInv
  <2>5. inferClusterPackageName[getPackageName] = PublishedName[source]
    BY <2>2, <2>3, <2>4, ExtractionsAgree
  <2>6. QED
    BY <2>2, <2>3, <2>5 DEF IsInstalled, Record
<1>2. QED
  BY <1>1, NamesInductive, PTL

(* The finalizer goes only when what the final spec's reference publishes  *)
(* is gone from the spec's namespace: observeDeletion, which looks for it  *)
(* by the controller's extraction and then the client's, never overlooks   *)
(* it, for any form of the source and through edits of name and namespace. *)
THEOREM FinalSpecIsRemoved == Spec => []FinalSpecLeavesNothing
<1>1. Init => FinalSpecLeavesNothing
  BY DEF Init, FinalSpecLeavesNothing
<1>2. NamesInv /\ FinalSpecLeavesNothing /\ [Next]_vars => FinalSpecLeavesNothing'
  <2> SUFFICES ASSUME NamesInv, FinalSpecLeavesNothing, [Next]_vars,
                      resource' = "gone", IsReference(source')
               PROVE  [name |-> PublishedName[source'], ns |-> namespace'] \notin installed'
    BY DEF FinalSpecLeavesNothing
  <2>1. CASE RemoveFinalizer
    <3>1. source' = source /\ namespace' = namespace /\ installed' = installed
      BY <2>1 DEF RemoveFinalizer
    <3>2. source \in Sources /\ getPackageName = extractPackageName[source]
      BY NameOfPass DEF NamesInv
    <3>3. inferClusterPackageName[getPackageName] = PublishedName[source]
      BY <3>1, <3>2, ExtractionsAgree
    <3>4. QED
      BY <2>1, <3>1, <3>3 DEF RemoveFinalizer, observeDeletion, IsInstalled
  <2>2. CASE UNCHANGED vars
    BY <2>2 DEF vars, FinalSpecLeavesNothing
  <2>3. CASE Edit \/ RequestDelete \/ Create \/ Update \/ Delete
    BY <2>3 DEF Edit, RequestDelete, Create, Update, Delete
  <2>4. QED
    BY <2>1, <2>2, <2>3 DEF Next
<1>3. QED
  BY <1>1, <1>2, NamesInductive, PTL DEF Spec

============================================================================
