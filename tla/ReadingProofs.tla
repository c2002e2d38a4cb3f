---------------------------- MODULE ReadingProofs ----------------------------
(***************************************************************************)
(* Search and Chunker: what a search answers, for every input of it, and   *)
(* what becomes of every text.                                             *)
(***************************************************************************)
EXTENDS Integers, Search, Chunker, FiniteSetTheorems, SequenceTheorems, TLAPS

OverTimes == INSTANCE FoldTheorems WITH Op <- Times
OverParents == INSTANCE FoldTheorems WITH Op <- NextParent
OverText == INSTANCE FoldTheorems WITH Op <- ParseLine
OverLines == INSTANCE FoldTheorems WITH Op <- AddLine
OverHeadings == INSTANCE FoldTheorems WITH Op <- AddHeading
OverParts == INSTANCE FoldTheorems WITH Op <- AddBlock
OverBlocks == INSTANCE FoldTheorems WITH Op <- PlaceBlock
OverSections == INSTANCE FoldTheorems WITH Op <- PlaceSection

-----------------------------------------------------------------------------
(***************************************************************************)
(* Sorting.  An element's place is the number of those before it.          *)
(***************************************************************************)
IsRanking(s, n, X) ==
    /\ n \in Nat /\ s \in [1..n -> X]
    /\ \A i, j \in 1..n : s[i] = s[j] => i = j

IsStrictOrder(R, S) ==
    /\ \A x \in S : <<x, x>> \notin R
    /\ \A x, y, z \in S : <<x, y>> \in R /\ <<y, z>> \in R => <<x, z>> \in R
    /\ \A x, y \in S : x = y \/ <<x, y>> \in R \/ <<y, x>> \in R

Others(R, S) == [c \in S |-> Cardinality({d \in S : <<d, c>> \in R})]
Sorted(R, S) == [k \in 1..Cardinality(S) |-> CHOOSE c \in S : Others(R, S)[c] = k - 1]

LEMMA SortedByPlace ==
  ASSUME NEW S, IsFiniteSet(S), NEW R, IsStrictOrder(R, S)
  PROVE  /\ IsRanking(Sorted(R, S), Cardinality(S), S)
         /\ Range(Sorted(R, S)) = S
         /\ \A i, j \in 1..Cardinality(S) :
               i < j => <<Sorted(R, S)[i], Sorted(R, S)[j]>> \in R
<1> DEFINE n == Cardinality(S)
           others == Others(R, S)
           s == Sorted(R, S)
<1>a. others = [c \in S |-> Cardinality({d \in S : <<d, c>> \in R})]
  BY DEF Others
<1>b. s = [k \in 1..n |-> CHOOSE c \in S : others[c] = k - 1]
  BY DEF Sorted
<1> HIDE DEF others, s
<1> DEFINE Below(c) == {d \in S : <<d, c>> \in R}
<1>0. n \in Nat
  BY FS_CardinalityType
<1> HIDE DEF n
<1>1. \A c \in S : others[c] = Cardinality(Below(c))
  BY <1>a
<1>2. ASSUME NEW c \in S
      PROVE  /\ IsFiniteSet(Below(c)) /\ c \notin Below(c)
             /\ Cardinality(Below(c)) \in 0..(n - 1)
  <2>1. Below(c) \in SUBSET (S \ {c}) /\ c \notin Below(c)
    BY DEF IsStrictOrder
  <2> HIDE DEF Below
  <2>2. IsFiniteSet(S \ {c}) /\ Cardinality(S \ {c}) = n - 1
    BY FS_RemoveElement DEF n
  <2>3. IsFiniteSet(Below(c)) /\ Cardinality(Below(c)) <= n - 1
    BY <2>1, <2>2, FS_Subset
  <2>4. Cardinality(Below(c)) \in Nat
    BY <2>3, FS_CardinalityType
  <2> QED
    BY <1>0, <2>1, <2>3, <2>4
<1>3. ASSUME NEW c \in S, NEW d \in S, <<c, d>> \in R
      PROVE  others[c] < others[d]
  <2>1. Below(c) \cup {c} \in SUBSET Below(d)
    BY <1>3 DEF IsStrictOrder
  <2> HIDE DEF Below
  <2>2. Cardinality(Below(c) \cup {c}) = Cardinality(Below(c)) + 1
    BY <1>2, FS_AddElement
  <2>3. Cardinality(Below(c) \cup {c}) <= Cardinality(Below(d))
    BY <1>2, <2>1, FS_Subset
  <2>4. Cardinality(Below(c)) \in Int /\ Cardinality(Below(d)) \in Int
    BY <1>2
  <2> QED
    BY <1>1, <2>2, <2>3, <2>4
<1>4. \A c \in S : others[c] \in 0..(n - 1)
  BY <1>1, <1>2
<1> HIDE DEF Below
<1>5. \A c, d \in S : others[c] = others[d] => c = d
  <2>1. TAKE c, d \in S
  <2>2. others[c] \in Int /\ others[d] \in Int
    BY <1>4
  <2>3. c = d \/ <<c, d>> \in R \/ <<d, c>> \in R
    BY DEF IsStrictOrder
  <2>4. <<c, d>> \in R => others[c] < others[d]
    BY <1>3
  <2>5. <<d, c>> \in R => others[d] < others[c]
    BY <1>3
  <2> QED
    BY <2>2, <2>3, <2>4, <2>5
<1>6. \A k \in 0..(n - 1) : \E c \in S : others[c] = k
  <2>1. others \in [S -> 0..(n - 1)]
    BY <1>4, <1>a
  <2>2. others \in Injection(S, 0..(n - 1))
    BY <1>5, <2>1 DEF Injection, IsInjective
  <2>3. IsFiniteSet(0..(n - 1)) /\ Cardinality(0..(n - 1)) = n
    <3>1. 0 \in Int /\ n - 1 \in Int /\ (IF 0 > n - 1 THEN 0 ELSE (n - 1) - 0 + 1) = n
      BY <1>0
    <3> QED
      BY <3>1, FS_Interval
  <2>4. others \in Surjection(S, 0..(n - 1))
    BY <2>2, <2>3, FS_Injection DEF n
  <2> QED
    BY <2>4 DEF Surjection
<1>7. \A k \in 1..n : s[k] \in S /\ others[s[k]] = k - 1
  <2>1. TAKE k \in 1..n
  <2>2. k - 1 \in 0..(n - 1)
    BY <1>0
  <2>3. \E c \in S : others[c] = k - 1
    BY <1>6, <2>2
  <2>4. s[k] = CHOOSE c \in S : others[c] = k - 1
    BY <1>b
  <2> QED
    BY <2>3, <2>4
<1>8. s \in [1..n -> S]
  BY <1>7, <1>b
<1>9. ASSUME NEW c \in S PROVE \E k \in 1..n : s[k] = c
  <2>1. others[c] + 1 \in 1..n /\ (others[c] + 1) - 1 = others[c]
    BY <1>0, <1>4
  <2> DEFINE k == others[c] + 1
  <2> HIDE DEF k
  <2>2. k \in 1..n /\ k - 1 = others[c]
    BY <2>1 DEF k
  <2>3. s[k] \in S /\ others[s[k]] = others[c]
    BY <1>7, <2>2
  <2>4. s[k] = c
    BY <1>5, <2>3
  <2> QED
    BY <2>2, <2>4
<1>10. ASSUME NEW i \in 1..n, NEW j \in 1..n, i < j PROVE <<s[i], s[j]>> \in R
  <2>1. s[i] \in S /\ s[j] \in S /\ others[s[i]] = i - 1 /\ others[s[j]] = j - 1
    BY <1>7
  <2> DEFINE c == s[i]
             d == s[j]
  <2> HIDE DEF c, d
  <2>2. c \in S /\ d \in S /\ others[c] = i - 1 /\ others[d] = j - 1
    BY <2>1 DEF c, d
  <2>3. <<d, c>> \in R => others[d] < others[c]
    BY <1>3, <2>2
  <2>4. c = d \/ <<c, d>> \in R \/ <<d, c>> \in R
    BY <2>2 DEF IsStrictOrder
  <2>5. i - 1 < j - 1 /\ i - 1 \in Int /\ j - 1 \in Int
    BY <1>0, <1>10
  <2>6. ~ (j - 1 < i - 1) /\ j - 1 # i - 1
    BY <2>5
  <2>7. ~ (<<d, c>> \in R) /\ c # d
    <3>1. <<d, c>> \in R => j - 1 < i - 1
      BY <2>2, <2>3
    <3>2. c = d => j - 1 = i - 1
      BY <2>2
    <3> QED
      BY <2>6, <3>1, <3>2
  <2>8. <<c, d>> \in R
    BY <2>4, <2>7
  <2> QED
    BY <2>8 DEF c, d
<1>11. ASSUME NEW i \in 1..n, NEW j \in 1..n, s[i] = s[j] PROVE i = j
  <2>1. others[s[i]] = i - 1 /\ others[s[j]] = j - 1
    BY <1>7
  <2>2. i - 1 = j - 1
    BY <1>11, <2>1
  <2> QED
    BY <1>0, <2>2
<1>12. IsRanking(s, n, S)
  BY <1>0, <1>8, <1>11 DEF IsRanking
<1>13. Range(s) = S
  BY <1>8, <1>9 DEF Range
<1> QED
  BY <1>10, <1>12, <1>13 DEF n, s
-----------------------------------------------------------------------------
(***************************************************************************)
(* Ranks in a list without repetitions.                                    *)
(***************************************************************************)
LEMMA RankFacts ==
  ASSUME NEW n, NEW X, NEW s, IsRanking(s, n, X)
  PROVE  /\ DOMAIN s = 1..n /\ Len(s) = n /\ s \in Seq(X)
         /\ Range(s) \subseteq X /\ IsFiniteSet(Range(s)) /\ Cardinality(Range(s)) = n
         /\ \A c \in Range(s) : RankIn(s, c) \in 1..n /\ s[RankIn(s, c)] = c
         /\ \A k \in 1..n : s[k] \in Range(s) /\ RankIn(s, s[k]) = k
<1>1. DOMAIN s = 1..n /\ Len(s) = n /\ s \in Seq(X) /\ n \in Nat
  BY DEF IsRanking
<1>2. Range(s) \subseteq X
  BY <1>1 DEF IsRanking, Range
<1>3. IsFiniteSet(Range(s)) /\ Cardinality(Range(s)) = n
  <2>1. s \in Surjection(1..n, Range(s)) /\ s \in Injection(1..n, Range(s))
    BY <1>1 DEF IsRanking, Range, Surjection, Injection, IsInjective
  <2>2. IsFiniteSet(1..n) /\ Cardinality(1..n) = n
    <3>1. 1 \in Int /\ n \in Int /\ (IF 1 > n THEN 0 ELSE n - 1 + 1) = n
      BY <1>1
    <3> QED
      BY <3>1, FS_Interval
  <2> QED
    BY <2>1, <2>2, FS_Surjection
<1>4. ASSUME NEW c \in Range(s) PROVE RankIn(s, c) \in 1..n /\ s[RankIn(s, c)] = c
  <2>1. \E r \in DOMAIN s : s[r] = c
    BY DEF Range
  <2> QED
    BY <1>1, <2>1 DEF RankIn
<1>5. ASSUME NEW k \in 1..n PROVE s[k] \in Range(s) /\ RankIn(s, s[k]) = k
  <2>1. s[k] \in Range(s)
    BY <1>1 DEF Range
  <2>2. RankIn(s, s[k]) \in 1..n /\ s[RankIn(s, s[k])] = s[k]
    BY <1>4, <2>1
  <2> QED
    BY <2>1, <2>2 DEF IsRanking
<1> QED
  BY <1>1, <1>2, <1>3, <1>4, <1>5

(* The hits of a leg, and a prefix of a list.                              *)
LEMMA HitsAreRanked ==
  ASSUME NEW hits \in Hits, CandidateK \in Nat
  PROVE  IsRanking(hits, Len(hits), Chunks) /\ Len(hits) \in 0..CandidateK
<1>1. PICK m \in 0..CandidateK : hits \in [1..m -> Chunks]
  BY DEF Hits, BoundedSeq, SeqOf
<1>2. IsInjective(hits)
  BY DEF Hits
<1>3. m \in Nat /\ Len(hits) = m
  BY <1>1
<1> QED
  BY <1>1, <1>2, <1>3 DEF IsRanking, IsInjective

LEMMA PrefixIsRanked ==
  ASSUME NEW n, NEW X, NEW s, IsRanking(s, n, X), NEW m \in Nat,
         NEW k, k = IF m < n THEN m ELSE n
  PROVE  /\ k \in 0..n /\ IsRanking(FirstN(s, m), k, X)
         /\ \A i \in 1..k : FirstN(s, m)[i] = s[i]
<1>1. n \in Nat /\ Len(s) = n /\ s \in Seq(X)
  BY RankFacts DEF IsRanking
<1>2. k \in 0..n
  BY <1>1
<1>3. FirstN(s, m) = SubSeq(s, 1, k)
  BY <1>1 DEF FirstN
<1> DEFINE t == SubSeq(s, 1, k)
<1>4. t \in Seq(X) /\ Len(t) = k /\ \A i \in 1..k : t[i] = s[i]
  <2>1. 1 \in Int /\ k \in Int /\ \A i \in 1..k : s[i] \in X
    BY <1>1, <1>2
  <2>2. /\ t \in Seq(X)
        /\ Len(t) = IF 1 <= k THEN k - 1 + 1 ELSE 0
        /\ \A i \in 1..(k - 1 + 1) : t[i] = s[1 + i - 1]
    BY <2>1, SubSeqProperties
  <2>3. (IF 1 <= k THEN k - 1 + 1 ELSE 0) = k /\ 1..(k - 1 + 1) = 1..k
    BY <1>2
  <2>4. \A i \in 1..k : 1 + i - 1 = i
    BY <1>2
  <2> QED
    BY <2>2, <2>3, <2>4
<1> HIDE DEF t
<1>5. t \in [1..k -> X]
  BY <1>4, LenProperties
<1>6. \A i, j \in 1..k : t[i] = t[j] => i = j
  <2>1. \A i \in 1..k : i \in 1..n
    BY <1>1, <1>2
  <2> QED
    BY <1>4, <2>1 DEF IsRanking
<1>7. IsRanking(t, k, X)
  BY <1>2, <1>5, <1>6 DEF IsRanking
<1> QED
  BY <1>2, <1>3, <1>4, <1>7 DEF t
-----------------------------------------------------------------------------
(***************************************************************************)
(* The shares of _rrf_fuse.  The common denominator is divisible by every  *)
(* k + rank, so that a better rank is a greater share.                     *)
(***************************************************************************)
LEMMA ProductOrder ==
  ASSUME NEW a \in Nat \ {0}, NEW b \in Nat, a < b,
         NEW p \in Nat, NEW q \in Nat \ {0}, a * p = b * q
  PROVE  q < p
<1> SUFFICES ASSUME p <= q PROVE FALSE
  OBVIOUS
<1>1. a * p <= a * q
  OBVIOUS
<1>2. b * q = a * q + (b - a) * q
  OBVIOUS
<1>3. (b - a) * q > 0
  OBVIOUS
<1>4. a * p \in Int /\ a * q \in Int /\ b * q \in Int /\ (b - a) * q \in Int
  OBVIOUS
<1> QED
  BY <1>1, <1>2, <1>3, <1>4

LEMMA ExactQuotient ==
  ASSUME NEW a \in Nat \ {0}, NEW q \in Nat
  PROVE  (a * q) \div a = q
OBVIOUS

LEMMA DenominatorDivides ==
  ASSUME CandidateK \in Nat, RrfK \in Nat \ {0}
  PROVE  /\ Denominator \in Nat \ {0}
         /\ \A r \in 1..CandidateK : \E q \in Nat : Denominator = (RrfK + r) * q
<1> DEFINE seq == [r \in 1..CandidateK |-> r]
<1>1. Denominator = OverTimes!Result(1, seq)
  BY DEF Denominator, OverTimes!Result, FoldLeft, OverTimes!FoldLeft,
         MapThenFoldSet, OverTimes!MapThenFoldSet, Max, OverTimes!Max
<1>2. DOMAIN seq = 1..CandidateK /\ \A k \in 1..CandidateK : seq[k] = k
  OBVIOUS
<1> HIDE DEF seq
<1>3. \A k \in 1..CandidateK : \A a \in Nat : Times(a, seq[k]) \in Nat
  <2>1. \A k \in 1..CandidateK : RrfK + k \in Nat
    OBVIOUS
  <2>2. \A a, b \in Nat : a * b \in Nat
    OBVIOUS
  <2> QED
    BY <1>2, <2>1, <2>2 DEF Times
<1>4. PICK c : OverTimes!Folds(c, CandidateK, Nat, 1, seq)
  <2>1. 1 \in Nat /\ CandidateK \in Nat
    OBVIOUS
  <2> QED
    BY <1>2, <1>3, <2>1, OverTimes!FoldSteps, Zenon
<1>5. /\ c \in [0..CandidateK -> Nat] /\ c[0] = 1 /\ Denominator = c[CandidateK]
      /\ \A k \in 1..CandidateK : c[k] = c[k - 1] * (RrfK + k)
  BY <1>1, <1>2, <1>4 DEF OverTimes!Folds, Times
<1> DEFINE I == {k \in 0..CandidateK : c[k] # 0 /\
                    \A r \in 1..k : \E q \in Nat : c[k] = (RrfK + r) * q}
<1>6. 0..CandidateK \subseteq I
  <2>1. 0 \in I
    BY <1>5
  <2>2. ASSUME NEW k \in 1..CandidateK, k - 1 \in I PROVE k \in I
    <3>1. c[k] = c[k - 1] * (RrfK + k) /\ c[k - 1] \in Nat \ {0} /\ RrfK + k \in Nat \ {0}
      BY <1>5, <2>2
    <3>2. c[k] # 0
      <4>1. \A a, b \in Nat \ {0} : a * b # 0
        OBVIOUS
      <4> QED
        BY <3>1, <4>1
    <3>3. ASSUME NEW r \in 1..k PROVE \E q \in Nat : c[k] = (RrfK + r) * q
      <4>1. CASE r = k
        <5>1. \A a, b \in Nat : a * b = b * a
          OBVIOUS
        <5>2. c[k] = (RrfK + k) * c[k - 1]
          BY <3>1, <5>1
        <5> QED
          BY <3>1, <4>1, <5>2
      <4>2. CASE r # k
        <5>1. r \in 1..(k - 1)
          BY <4>2
        <5>2. PICK q \in Nat : c[k - 1] = (RrfK + r) * q
          BY <2>2, <5>1
        <5>3. \A a, b, d \in Nat : (a * b) * d = a * (b * d) /\ b * d \in Nat
          OBVIOUS
        <5>4. RrfK + r \in Nat
          OBVIOUS
        <5>5. c[k] = (RrfK + r) * (q * (RrfK + k)) /\ q * (RrfK + k) \in Nat
          BY <3>1, <5>2, <5>3, <5>4
        <5> QED
          BY <5>5
      <4> QED
        BY <4>1, <4>2
    <3> QED
      BY <3>2, <3>3
  <2> HIDE DEF I
  <2> QED
    BY <2>1, <2>2, OverTimes!CountedInduction
<1> HIDE DEF I
<1>7. CandidateK \in I
  BY <1>6
<1> QED
  BY <1>5, <1>7 DEF I

(* A chunk's share is positive where it is found, and less the lower it is.*)
LEMMA ShareOrder ==
  ASSUME NEW hits \in Hits, CandidateK \in Nat, RrfK \in Nat \ {0}
  PROVE  /\ \A c : Share(hits, c) \in Nat
         /\ \A c : c \notin Range(hits) => Share(hits, c) = 0
         /\ \A c \in Range(hits) : Share(hits, c) > 0
         /\ \A c, d \in Range(hits) :
               RankIn(hits, c) < RankIn(hits, d) => Share(hits, c) > Share(hits, d)
<1> DEFINE n == Len(hits)
           D == Denominator
<1>1. IsRanking(hits, n, Chunks) /\ n \in 0..CandidateK
  BY HitsAreRanked
<1>2. \A c \in Range(hits) : RankIn(hits, c) \in 1..n
  BY <1>1, RankFacts
<1>3. D \in Nat \ {0} /\ \A r \in 1..CandidateK : \E q \in Nat : D = (RrfK + r) * q
  BY DenominatorDivides
<1> HIDE DEF D
<1>4. ASSUME NEW c, c \notin Range(hits) PROVE Share(hits, c) = 0
  BY <1>4 DEF Share
<1>5. ASSUME NEW c \in Range(hits)
      PROVE  /\ Share(hits, c) \in Nat \ {0} /\ RrfK + RankIn(hits, c) \in Nat \ {0}
             /\ D = (RrfK + RankIn(hits, c)) * Share(hits, c)
  <2> DEFINE r == RankIn(hits, c)
  <2>1. r \in 1..CandidateK
    BY <1>1, <1>2
  <2> HIDE DEF r
  <2>2. PICK q \in Nat : D = (RrfK + r) * q
    BY <1>3, <2>1
  <2>3. RrfK + r \in Nat \ {0}
    BY <2>1
  <2>4. D \div (RrfK + r) = q
    BY <2>2, <2>3, ExactQuotient
  <2>5. q # 0
    BY <1>3, <2>2, <2>3
  <2> QED
    BY <2>2, <2>3, <2>4, <2>5 DEF Share, r, D
<1>6. ASSUME NEW c \in Range(hits), NEW d \in Range(hits),
             RankIn(hits, c) < RankIn(hits, d)
      PROVE  Share(hits, c) > Share(hits, d)
  <2> DEFINE a == RrfK + RankIn(hits, c)
             b == RrfK + RankIn(hits, d)
             p == Share(hits, c)
             q == Share(hits, d)
  <2>1. a \in Nat \ {0} /\ b \in Nat /\ p \in Nat /\ q \in Nat \ {0} /\ a * p = b * q
    BY <1>5
  <2>2. a < b
    BY <1>1, <1>2, <1>6
  <2> HIDE DEF a, b, p, q
  <2>3. q < p
    BY <2>1, <2>2, ProductOrder
  <2> QED
    BY <2>1, <2>3 DEF p, q
<1> QED
  BY <1>4, <1>5, <1>6
-----------------------------------------------------------------------------
(***************************************************************************)
(* The fused list.                                                         *)
(***************************************************************************)
Input ==
    /\ dense \in Hits /\ bm25 \in Hits
    /\ logit \in [Chunks -> Logits] \cup {Unavailable}
    /\ present \in SUBSET Parents
    /\ limit \in Nat

LEMMA InputOfSearch ==
  ASSUME SearchInit(Nat) \/ NoSearch, CandidateK \in Nat
  PROVE  Input
<1>1. <<>> \in Hits
  <2>1. <<>> \in [1..0 -> Chunks]
    OBVIOUS
  <2>2. <<>> \in BoundedSeq(Chunks, CandidateK)
    BY <2>1 DEF BoundedSeq, SeqOf
  <2>3. IsInjective(<<>>)
    BY DEF IsInjective
  <2> QED
    BY <2>2, <2>3 DEF Hits
<1> QED
  BY <1>1 DEF Input, SearchInit, NoSearch

FusedBefore(c, d) ==
    \/ RrfScore(c) > RrfScore(d)
    \/ RrfScore(c) = RrfScore(d) /\ FirstSeen(c) < FirstSeen(d)

LEMMA FoundFacts ==
  ASSUME Input, SearchAssumption
  PROVE  /\ IsFiniteSet(Found) /\ Found \subseteq Chunks
         /\ \A c \in Found : RrfScore(c) \in Nat /\ FirstSeen(c) \in Nat
         /\ \A c, d \in Found : FirstSeen(c) = FirstSeen(d) => c = d
<1> DEFINE n == Len(dense)
           m == Len(bm25)
<1>1. IsRanking(dense, n, Chunks) /\ IsRanking(bm25, m, Chunks) /\ n \in Nat /\ m \in Nat
  BY HitsAreRanked DEF Input, SearchAssumption
<1>2. /\ IsFiniteSet(Range(dense)) /\ IsFiniteSet(Range(bm25))
      /\ Range(dense) \subseteq Chunks /\ Range(bm25) \subseteq Chunks
      /\ \A c \in Range(dense) : RankIn(dense, c) \in 1..n /\ dense[RankIn(dense, c)] = c
      /\ \A c \in Range(bm25) : RankIn(bm25, c) \in 1..m /\ bm25[RankIn(bm25, c)] = c
  BY <1>1, RankFacts
<1> HIDE DEF n, m
<1>3. IsFiniteSet(Found) /\ Found \subseteq Chunks
  BY <1>2, FS_Union DEF Found
<1>4. \A c : RrfScore(c) \in Nat
  <2>1. \A c : Share(dense, c) \in Nat /\ Share(bm25, c) \in Nat
    BY ShareOrder DEF Input, SearchAssumption
  <2> QED
    BY <2>1 DEF RrfScore
<1>5. \A c \in Range(dense) : FirstSeen(c) = RankIn(dense, c)
  BY DEF FirstSeen
<1>6. \A c \in Found : c \notin Range(dense) =>
         c \in Range(bm25) /\ FirstSeen(c) = n + RankIn(bm25, c)
  BY DEF FirstSeen, Found, n
<1>7. \A c \in Found : FirstSeen(c) \in Nat
  BY <1>1, <1>2, <1>5, <1>6
<1>8. ASSUME NEW c \in Found, NEW d \in Found, FirstSeen(c) = FirstSeen(d)
      PROVE  c = d
  <2>1. CASE c \in Range(dense) /\ d \in Range(dense)
    BY <1>2, <1>5, <1>8, <2>1
  <2>2. CASE c \in Range(dense) /\ d \notin Range(dense)
    BY <1>1, <1>2, <1>5, <1>6, <1>8, <2>2
  <2>3. CASE c \notin Range(dense) /\ d \in Range(dense)
    BY <1>1, <1>2, <1>5, <1>6, <1>8, <2>3
  <2>4. CASE c \notin Range(dense) /\ d \notin Range(dense)
    <3>1. RankIn(bm25, c) = RankIn(bm25, d)
      BY <1>1, <1>2, <1>6, <1>8, <2>4
    <3> QED
      BY <1>2, <1>6, <2>4, <3>1
  <2> QED
    BY <2>1, <2>2, <2>3, <2>4
<1> QED
  BY <1>3, <1>4, <1>7, <1>8

LEMMA FusedIsSorted ==
  ASSUME Input, SearchAssumption
  PROVE  /\ IsRanking(Fused, Cardinality(Found), Found) /\ Range(Fused) = Found
         /\ \A i, j \in 1..Cardinality(Found) : i < j => FusedBefore(Fused[i], Fused[j])
<1> DEFINE R == {e \in Found \X Found : FusedBefore(e[1], e[2])}
           n == Cardinality(Found)
           s == Sorted(R, Found)
<1>1. /\ IsFiniteSet(Found)
      /\ \A c \in Found : RrfScore(c) \in Nat /\ FirstSeen(c) \in Nat
      /\ \A c, d \in Found : FirstSeen(c) = FirstSeen(d) => c = d
  BY FoundFacts
<1>2. \A c, d \in Found : <<c, d>> \in R <=> FusedBefore(c, d)
  OBVIOUS
<1>3. IsStrictOrder(R, Found)
  <2> HIDE DEF R
  <2>1. \A x \in Found : ~ FusedBefore(x, x)
    BY <1>1 DEF FusedBefore
  <2>2. \A x, y, z \in Found :
           FusedBefore(x, y) /\ FusedBefore(y, z) => FusedBefore(x, z)
    BY <1>1 DEF FusedBefore
  <2>3. \A x, y \in Found : x = y \/ FusedBefore(x, y) \/ FusedBefore(y, x)
    BY <1>1 DEF FusedBefore
  <2> QED
    BY <1>2, <2>1, <2>2, <2>3 DEF IsStrictOrder
<1>4. Fused = s
  <2> DEFINE score == [c \in Found |-> RrfScore(c)]
             seen == [c \in Found |-> FirstSeen(c)]
             before(c, d) == \/ score[c] > score[d]
                             \/ score[c] = score[d] /\ seen[c] < seen[d]
             mine == [c \in Found |-> Cardinality({d \in Found : before(d, c)})]
  <2>1. \A c, d \in Found : before(d, c) <=> <<d, c>> \in R
    <3>1. \A c \in Found : score[c] = RrfScore(c) /\ seen[c] = FirstSeen(c)
      OBVIOUS
    <3> HIDE DEF score, seen, R
    <3> QED
      BY <1>2, <3>1 DEF FusedBefore
  <2>2. Fused = [k \in 1..n |-> CHOOSE c \in Found : mine[c] = k - 1]
    BY DEF Fused, SortedBy
  <2> HIDE DEF R, before
  <2>3. \A c \in Found : {d \in Found : before(d, c)} = {d \in Found : <<d, c>> \in R}
    BY <2>1
  <2>4. mine = Others(R, Found)
    BY <2>3 DEF Others
  <2> HIDE DEF mine
  <2> QED
    BY <2>2, <2>4 DEF Sorted
<1> HIDE DEF R
<1>5. /\ IsRanking(s, n, Found) /\ Range(s) = Found
      /\ \A i, j \in 1..n : i < j => <<s[i], s[j]>> \in R
  BY <1>1, <1>3, SortedByPlace
<1> HIDE DEF s
<1>6. \A i, j \in 1..n : i < j => FusedBefore(s[i], s[j])
  <2>1. s \in [1..n -> Found]
    BY <1>5 DEF IsRanking
  <2> QED
    BY <1>2, <1>5, <2>1
<1> QED
  BY <1>4, <1>5, <1>6

Above(hits, c, d) ==
    c \in Range(hits) /\ (d \in Range(hits) => RankIn(hits, c) < RankIn(hits, d))
Dominates(c, d) ==
    /\ Above(dense, c, d) \/ Above(bm25, c, d)
    /\ ~Above(dense, d, c) /\ ~Above(bm25, d, c)

(* A leg that ranks a chunk not below another gives it no less; one that   *)
(* ranks it above gives it more.                                           *)
LEMMA LegShares ==
  ASSUME NEW hits \in Hits, SearchAssumption, NEW c, NEW d, c # d,
         ~Above(hits, d, c)
  PROVE  /\ Share(hits, c) >= Share(hits, d)
         /\ Above(hits, c, d) => Share(hits, c) > Share(hits, d)
<1>1. /\ \A e : Share(hits, e) \in Nat
      /\ \A e : e \notin Range(hits) => Share(hits, e) = 0
      /\ \A e \in Range(hits) : Share(hits, e) > 0
      /\ \A e, f \in Range(hits) :
            RankIn(hits, e) < RankIn(hits, f) => Share(hits, e) > Share(hits, f)
  BY ShareOrder DEF SearchAssumption
<1>2. \A e \in Range(hits) : RankIn(hits, e) \in Nat /\ hits[RankIn(hits, e)] = e
  <2>1. IsRanking(hits, Len(hits), Chunks)
    BY HitsAreRanked DEF SearchAssumption
  <2> QED
    BY <2>1, RankFacts
<1>3. CASE d \notin Range(hits)
  BY <1>1, <1>3 DEF Above
<1>4. CASE d \in Range(hits)
  <2>1. c \in Range(hits) /\ ~ (RankIn(hits, d) < RankIn(hits, c))
    BY <1>4 DEF Above
  <2>2. RankIn(hits, c) # RankIn(hits, d)
    BY <1>2, <1>4, <2>1
  <2>3. RankIn(hits, c) < RankIn(hits, d)
    BY <1>2, <1>4, <2>1, <2>2
  <2> QED
    BY <1>1, <1>4, <2>1, <2>3
<1> QED
  BY <1>3, <1>4

LEMMA DominantIsBefore ==
  ASSUME Input, SearchAssumption, NEW c \in Found, NEW d \in Found, Dominates(c, d)
  PROVE  RankIn(Fused, c) < RankIn(Fused, d)
<1> DEFINE n == Cardinality(Found)
<1>1. c # d
  <2>1. ~Above(dense, d, c) /\ ~Above(bm25, d, c) /\ (Above(dense, c, d) \/ Above(bm25, c, d))
    BY DEF Dominates
  <2> QED
    BY <2>1
<1>2. RrfScore(c) > RrfScore(d)
  <2>1. dense \in Hits /\ bm25 \in Hits
    BY DEF Input
  <2>2. ~Above(dense, d, c) /\ ~Above(bm25, d, c) /\ (Above(dense, c, d) \/ Above(bm25, c, d))
    BY DEF Dominates
  <2>3. /\ Share(dense, c) >= Share(dense, d)
        /\ Above(dense, c, d) => Share(dense, c) > Share(dense, d)
    BY <1>1, <2>1, <2>2, LegShares
  <2>4. /\ Share(bm25, c) >= Share(bm25, d)
        /\ Above(bm25, c, d) => Share(bm25, c) > Share(bm25, d)
    BY <1>1, <2>1, <2>2, LegShares
  <2>5. \A e : Share(dense, e) \in Nat /\ Share(bm25, e) \in Nat
    BY <2>1, ShareOrder DEF SearchAssumption
  <2> QED
    BY <2>2, <2>3, <2>4, <2>5 DEF RrfScore
<1>3. RrfScore(c) \in Nat /\ RrfScore(d) \in Nat
  BY FoundFacts
<1>4. ~FusedBefore(d, c)
  BY <1>2, <1>3 DEF FusedBefore
<1>5. /\ IsRanking(Fused, n, Found) /\ Range(Fused) = Found
      /\ \A i, j \in 1..n : i < j => FusedBefore(Fused[i], Fused[j])
  BY FusedIsSorted
<1>6. \A e \in Found : RankIn(Fused, e) \in 1..n /\ Fused[RankIn(Fused, e)] = e
  BY <1>5, RankFacts
<1> DEFINE i == RankIn(Fused, c)
           j == RankIn(Fused, d)
<1>7. i \in 1..n /\ j \in 1..n /\ Fused[i] = c /\ Fused[j] = d /\ n \in Nat
  BY <1>5, <1>6 DEF IsRanking
<1> HIDE DEF i, j, n
<1>8. ~ (j < i) /\ i # j
  BY <1>1, <1>4, <1>5, <1>7
<1>9. i < j
  BY <1>7, <1>8
<1> QED
  BY <1>9 DEF i, j

(* The candidates are the head of the fused list, and without a reranker   *)
(* so is the answer.                                                       *)
LEMMA CandidatesAreFirst ==
  ASSUME Input, SearchAssumption
  PROVE  \E k \in 0..Cardinality(Found) :
            IsRanking(Candidates, k, Found) /\ \A i \in 1..k : Candidates[i] = Fused[i]
<1>1. IsRanking(Fused, Cardinality(Found), Found)
  BY FusedIsSorted
<1>2. L1OutputSize \in Nat
  BY DEF SearchAssumption
<1> DEFINE n == Cardinality(Found)
           k == IF L1OutputSize < n THEN L1OutputSize ELSE n
<1> QED
  BY <1>1, <1>2, PrefixIsRanked DEF Candidates

LEMMA AnswerIsFirst ==
  ASSUME Input, SearchAssumption, logit = Unavailable
  PROVE  \E k \in 0..Cardinality(Found) :
            IsRanking(SearchChunks, k, Found) /\ \A i \in 1..k : SearchChunks[i] = Fused[i]
<1> DEFINE n == Cardinality(Found)
<1>1. PICK k \in 0..n : IsRanking(Candidates, k, Found) /\ \A i \in 1..k : Candidates[i] = Fused[i]
  BY CandidatesAreFirst
<1>2. SearchChunks = FirstN(Candidates, limit)
  BY DEF SearchChunks, Rerank
<1>3. limit \in Nat
  BY DEF Input
<1> DEFINE m == IF limit < k THEN limit ELSE k
<1>4. /\ m \in 0..k /\ IsRanking(SearchChunks, m, Found)
      /\ \A i \in 1..m : SearchChunks[i] = Candidates[i]
  BY <1>1, <1>2, <1>3, PrefixIsRanked
<1>5. k \in Nat /\ n \in Nat
  BY <1>1, FusedIsSorted DEF IsRanking
<1> HIDE DEF m, n
<1>6. m \in 0..n /\ \A i \in 1..m : i \in 1..k
  BY <1>1, <1>4, <1>5
<1>7. \A i \in 1..m : SearchChunks[i] = Fused[i]
  BY <1>1, <1>4, <1>6
<1> QED
  BY <1>4, <1>6, <1>7 DEF n

(* A chunk that no leg ranks below another, and one above it, comes first  *)
(* in the fused list and, with no reranker, in the answer.                 *)
THEOREM FusionIsFaithful ==
  SearchInit(Nat) \/ NoSearch => FusionFollowsLegs
<1> SUFFICES ASSUME SearchInit(Nat) \/ NoSearch PROVE FusionFollowsLegs
  OBVIOUS
<1>1. SearchAssumption
  BY SearchAssumption
<1>2. Input
  BY <1>1, InputOfSearch DEF SearchAssumption
<1> DEFINE n == Cardinality(Found)
           order == IF logit = Unavailable THEN SearchChunks ELSE Fused
<1>3. IsRanking(Fused, n, Found) /\ Range(Fused) = Found
  BY <1>1, <1>2, FusedIsSorted
<1>4. PICK k \in 0..n : IsRanking(order, k, Found) /\ \A i \in 1..k : order[i] = Fused[i]
  <2>1. CASE logit = Unavailable
    BY <1>1, <1>2, <2>1, AnswerIsFirst
  <2>2. CASE logit # Unavailable
    <3>1. order = Fused
      BY <2>2
    <3>2. n \in 0..n
      BY <1>3 DEF IsRanking
    <3> QED
      BY <1>3, <3>1, <3>2
  <2> QED
    BY <2>1, <2>2
<1> HIDE DEF order
<1>5. ASSUME NEW d \in Range(order), NEW c \in Found, Dominates(c, d)
      PROVE  c \in Range(order) /\ RankIn(order, c) < RankIn(order, d)
  <2>1. /\ RankIn(order, d) \in 1..k /\ order[RankIn(order, d)] = d /\ d \in Found
        /\ \A i \in 1..k : order[i] \in Range(order) /\ RankIn(order, order[i]) = i
    BY <1>4, RankFacts
  <2>2. /\ RankIn(Fused, c) \in 1..n /\ Fused[RankIn(Fused, c)] = c
        /\ \A i \in 1..n : RankIn(Fused, Fused[i]) = i
    BY <1>3, RankFacts
  <2>3. k \in Nat /\ n \in Nat
    BY <1>3, <1>4 DEF IsRanking
  <2> HIDE DEF n
  <2> DEFINE i == RankIn(Fused, c)
             j == RankIn(order, d)
  <2>4. RankIn(Fused, d) = j
    <3>1. j \in 1..n /\ Fused[j] = d
      BY <1>4, <2>1, <2>3
    <3> QED
      BY <2>2, <3>1
  <2>5. i < j
    BY <1>1, <1>2, <1>5, <2>1, <2>4, DominantIsBefore
  <2>6. i \in 1..k /\ order[i] = c
    <3>1. i \in 1..k
      BY <2>1, <2>2, <2>3, <2>5
    <3> QED
      BY <1>4, <2>2, <3>1
  <2> QED
    BY <2>1, <2>5, <2>6
<1> QED
  BY <1>5 DEF FusionFollowsLegs, Dominates, Above, Found, order

-----------------------------------------------------------------------------
(***************************************************************************)
(* The reranked list.  Without a reranker every weight is the same.        *)
(***************************************************************************)
LEMMA MinIs ==
  ASSUME NEW S, S \subseteq Int, NEW x \in S, \A y \in S : x <= y
  PROVE  Min(S) = x
<1>1. Min(S) \in S /\ \A y \in S : Min(S) <= y
  BY DEF Min
<1>2. Min(S) \in Int /\ x \in Int /\ Min(S) <= x /\ x <= Min(S)
  BY <1>1
<1> QED
  BY <1>2

LEMMA MaxIs ==
  ASSUME NEW S, S \subseteq Int, NEW x \in S, \A y \in S : y <= x
  PROVE  Max(S) = x
<1>1. \A y \in S : x >= y
  OBVIOUS
<1>2. Max(S) \in S /\ \A y \in S : Max(S) >= y
  BY <1>1 DEF Max
<1>3. Max(S) \in Int /\ x \in Int /\ Max(S) <= x /\ x <= Max(S)
  BY <1>2
<1> QED
  BY <1>3

Weight(c) == IF logit = Unavailable THEN 0 ELSE logit[c]
RankedBefore(hits, c, d) ==
    \/ Weight(c) > Weight(d)
    \/ Weight(c) = Weight(d) /\ RankIn(hits, c) < RankIn(hits, d)

LEMMA WholePrefix ==
  ASSUME NEW n, NEW X, NEW s, IsRanking(s, n, X)
  PROVE  FirstN(s, n) = s
<1>1. n \in Nat /\ s \in [1..n -> X]
  BY DEF IsRanking
<1>2. IsRanking(FirstN(s, n), n, X) /\ \A i \in 1..n : FirstN(s, n)[i] = s[i]
  BY <1>1, PrefixIsRanked
<1>3. FirstN(s, n) \in [1..n -> X]
  BY <1>2 DEF IsRanking
<1> QED
  BY <1>1, <1>2, <1>3

LEMMA RerankedIsSorted ==
  ASSUME Input, SearchAssumption, NEW n, NEW hits, IsRanking(hits, n, Chunks)
  PROVE  /\ IsRanking(Rerank(hits, n), n, Chunks)
         /\ Range(Rerank(hits, n)) = Range(hits)
         /\ \A i, j \in 1..n : i < j => RankedBefore(hits, Rerank(hits, n)[i], Rerank(hits, n)[j])
         /\ \A c \in Chunks : Weight(c) \in Nat
<1>1. \A c \in Chunks : Weight(c) \in Nat
  BY DEF Input, SearchAssumption, Weight
<1>2. /\ Range(hits) \subseteq Chunks /\ IsFiniteSet(Range(hits)) /\ Cardinality(Range(hits)) = n
      /\ \A c \in Range(hits) : RankIn(hits, c) \in 1..n /\ hits[RankIn(hits, c)] = c
      /\ \A k \in 1..n : hits[k] \in Range(hits) /\ RankIn(hits, hits[k]) = k
  BY RankFacts
<1>3. CASE logit = Unavailable
  <2>1. Rerank(hits, n) = hits
    BY <1>3, WholePrefix DEF Rerank
  <2>2. \A i, j \in 1..n : i < j => RankedBefore(hits, hits[i], hits[j])
    BY <1>2, <1>3 DEF RankedBefore, Weight
  <2> QED
    BY <1>1, <2>1, <2>2
<1>4. CASE logit # Unavailable
  <2> DEFINE S == Range(hits)
             R == {e \in S \X S : RankedBefore(hits, e[1], e[2])}
             s == Sorted(R, S)
  <2>1. \A c, d \in S : <<c, d>> \in R <=> RankedBefore(hits, c, d)
    OBVIOUS
  <2> HIDE DEF R
  <2>2. IsStrictOrder(R, S)
    <3>1. \A c \in S : Weight(c) \in Nat /\ RankIn(hits, c) \in Nat
      BY <1>1, <1>2
    <3>2. \A c, d \in S : RankIn(hits, c) = RankIn(hits, d) => c = d
      BY <1>2
    <3>3. \A x \in S : ~ RankedBefore(hits, x, x)
      BY <3>1 DEF RankedBefore
    <3>4. \A x, y, z \in S :
             RankedBefore(hits, x, y) /\ RankedBefore(hits, y, z) => RankedBefore(hits, x, z)
      BY <3>1 DEF RankedBefore
    <3>5. \A x, y \in S : x = y \/ RankedBefore(hits, x, y) \/ RankedBefore(hits, y, x)
      BY <3>1, <3>2 DEF RankedBefore
    <3> QED
      BY <2>1, <3>3, <3>4, <3>5 DEF IsStrictOrder
  <2>3. Rerank(hits, n) = FirstN(s, n)
    <3> DEFINE place == [c \in S |-> RankIn(hits, c)]
               before(c, d) == \/ logit[c] > logit[d]
                               \/ logit[c] = logit[d] /\ place[c] < place[d]
               mine == [c \in S |-> Cardinality({d \in S : before(d, c)})]
               sorting == [k \in 1..Cardinality(S) |-> CHOOSE c \in S : mine[c] = k - 1]
    <3>1. \A c, d \in S : before(d, c) <=> <<d, c>> \in R
      <4>1. \A c \in S : place[c] = RankIn(hits, c) /\ Weight(c) = logit[c]
        BY <1>4 DEF Weight
      <4> HIDE DEF place
      <4> QED
        BY <2>1, <4>1 DEF RankedBefore
    <3>2. Rerank(hits, n) = FirstN(sorting, n)
      BY <1>4 DEF Rerank, SortedBy
    <3> HIDE DEF before
    <3>3. \A c \in S : {d \in S : before(d, c)} = {d \in S : <<d, c>> \in R}
      BY <3>1
    <3>4. mine = Others(R, S)
      BY <3>3 DEF Others
    <3> HIDE DEF mine
    <3>5. sorting = s
      BY <3>4 DEF Sorted
    <3> HIDE DEF sorting, s
    <3> QED
      BY <3>2, <3>5
  <2>4. /\ IsRanking(s, n, S) /\ Range(s) = S
        /\ \A i, j \in 1..n : i < j => <<s[i], s[j]>> \in R
    BY <1>2, <2>2, SortedByPlace
  <2> HIDE DEF s
  <2>5. FirstN(s, n) = s
    BY <2>4, WholePrefix
  <2>6. s \in [1..n -> S] /\ n \in Nat
    BY <2>4 DEF IsRanking
  <2>7. \A i, j \in 1..n : i < j => RankedBefore(hits, s[i], s[j])
    BY <2>1, <2>4, <2>6
  <2>8. IsRanking(s, n, Chunks)
    BY <1>2, <2>4, <2>6 DEF IsRanking
  <2> QED
    BY <1>1, <2>3, <2>4, <2>5, <2>7, <2>8
<1> QED
  BY <1>3, <1>4

-----------------------------------------------------------------------------
(***************************************************************************)
(* search_documents: what NextParent keeps of a ranked list.               *)
(***************************************************************************)
UpTo(r, k) == {ParentOf[r[j]] : j \in 1..k}
First(r, p) == Min({i \in DOMAIN r : ParentOf[r[i]] = p})
Most == IF limit = 0 THEN 1 ELSE limit
Accs == [seen: SUBSET Parents, docs: Seq(Parents), full: BOOLEAN]

LEMMA FirstFacts ==
  ASSUME NEW r, NEW n \in Nat, DOMAIN r = 1..n, NEW p \in UpTo(r, n)
  PROVE  /\ First(r, p) \in 1..n /\ ParentOf[r[First(r, p)]] = p
         /\ \A j \in 1..n : ParentOf[r[j]] = p => First(r, p) <= j
<1> DEFINE S == {i \in DOMAIN r : ParentOf[r[i]] = p}
<1>1. S \subseteq 1..n /\ S # {}
  BY DEF UpTo
<1>2. \A i : i \in S <=> i \in 1..n /\ ParentOf[r[i]] = p
  OBVIOUS
<1>3. First(r, p) = Min(S)
  BY DEF First
<1> HIDE DEF S
<1>4. S \subseteq Nat /\ S \subseteq Int
  BY <1>1
<1>5. PICK x \in S : \A y \in S : x <= y
  BY <1>1, <1>4, OverTimes!LeastIn
<1>6. Min(S) = x
  BY <1>4, <1>5, MinIs
<1> QED
  BY <1>1, <1>2, <1>3, <1>5, <1>6

(* After k chunks of a ranked list r, docs are the present parents of the  *)
(* first m of them, in the order of their best chunks; m is short of k     *)
(* only when the limit was reached.                                        *)
Kept(r, acc, k) ==
    /\ acc \in Accs
    /\ \A i, j \in DOMAIN acc.docs : i < j => First(r, acc.docs[i]) < First(r, acc.docs[j])
    /\ Len(acc.docs) <= Most
    /\ acc.full <=> Len(acc.docs) = Most
    /\ ~acc.full => acc.seen = UpTo(r, k)
    /\ \E m \in 0..k : /\ Range(acc.docs) = UpTo(r, m) \cap present
                       /\ ~acc.full => m = k

LEMMA NextParentTyped ==
  ASSUME NEW acc \in Accs, NEW c \in Chunks, SearchAssumption
  PROVE  NextParent(acc, c) \in Accs
<1>1. ParentOf[c] \in Parents
  BY DEF Parents, Range, SearchAssumption
<1> QED
  BY <1>1 DEF NextParent, Accs

LEMMA NextParentKeeps ==
  ASSUME SearchAssumption, Input, NEW n \in Nat, NEW r \in [1..n -> Chunks],
         NEW k \in 1..n, NEW acc, Kept(r, acc, k - 1)
  PROVE  Kept(r, NextParent(acc, r[k]), k)
<1> DEFINE p == ParentOf[r[k]]
           next == NextParent(acc, r[k])
           docs == acc.docs
<1>1. /\ acc \in Accs /\ r[k] \in Chunks /\ p \in Parents
      /\ docs \in Seq(Parents) /\ Len(docs) \in Nat /\ DOMAIN docs = 1..Len(docs)
  BY DEF Kept, Accs, Parents, Range, SearchAssumption
<1>2. next \in Accs
  BY <1>1, NextParentTyped
<1>3. /\ \A i, j \in DOMAIN docs : i < j => First(r, docs[i]) < First(r, docs[j])
      /\ Len(docs) <= Most /\ (acc.full <=> Len(docs) = Most)
      /\ ~acc.full => acc.seen = UpTo(r, k - 1)
  BY DEF Kept
<1>4. PICK m \in 0..(k - 1) : /\ Range(docs) = UpTo(r, m) \cap present
                              /\ ~acc.full => m = k - 1
  BY DEF Kept
<1>5. UpTo(r, k) = UpTo(r, k - 1) \cup {p}
  <2>1. \A j : j \in 1..k <=> (j \in 1..(k - 1) \/ j = k)
    OBVIOUS
  <2> QED
    BY <2>1 DEF UpTo
<1>6. Most \in Nat \ {0} /\ limit \in Nat /\ (limit = 0 => Most = 1) /\ (limit # 0 => Most = limit)
  BY DEF Most, Input
<1>7. CASE acc.full
  <2>1. next = acc
    BY <1>7 DEF NextParent
  <2>2. m \in 0..k
    BY <1>4
  <2> HIDE DEF next
  <2> QED
    BY <1>1, <1>3, <1>4, <1>7, <2>1, <2>2 DEF Kept, next
<1>8. CASE ~acc.full /\ p \in acc.seen
  <2>1. next = acc
    BY <1>8 DEF NextParent
  <2>2. UpTo(r, k) = UpTo(r, k - 1) /\ m = k - 1
    BY <1>3, <1>4, <1>5, <1>8
  <2>3. k \in 0..k
    OBVIOUS
  <2> HIDE DEF next
  <2> QED
    BY <1>1, <1>3, <1>4, <1>8, <2>1, <2>2, <2>3 DEF Kept, next
<1>9. CASE ~acc.full /\ p \notin acc.seen /\ p \notin present
  <2>1. next = [seen |-> acc.seen \cup {p}, docs |-> docs, full |-> FALSE]
    BY <1>9 DEF NextParent
  <2>2. m = k - 1 /\ acc.seen = UpTo(r, k - 1) /\ Len(docs) # Most
    BY <1>3, <1>4, <1>9
  <2>3. UpTo(r, k) \cap present = UpTo(r, k - 1) \cap present
    BY <1>5, <1>9
  <2>4. k \in 0..k
    OBVIOUS
  <2>5. next.seen = UpTo(r, k) /\ next.docs = docs /\ next.full = FALSE
    BY <1>5, <2>1, <2>2
  <2> HIDE DEF next
  <2> QED
    BY <1>1, <1>2, <1>3, <1>4, <2>2, <2>3, <2>4, <2>5 DEF Kept, next
<1>10. CASE ~acc.full /\ p \notin acc.seen /\ p \in present
  <2> DEFINE more == Append(docs, p)
             l == Len(docs)
  <2>1. next = [seen |-> acc.seen \cup {p}, docs |-> more,
                full |-> p \in present /\ Len(more) >= limit]
    BY <1>10 DEF NextParent
  <2>2. m = k - 1 /\ acc.seen = UpTo(r, k - 1) /\ l < Most /\ p \notin UpTo(r, k - 1)
    BY <1>1, <1>3, <1>4, <1>6, <1>10
  <2>3. /\ more \in Seq(Parents) /\ Len(more) = l + 1 /\ DOMAIN more = 1..(l + 1)
        /\ \A i \in 1..l : more[i] = docs[i]
        /\ more[l + 1] = p
    BY <1>1, AppendProperties
  <2> HIDE DEF more
  <2>4. Range(more) = Range(docs) \cup {p}
    <3>1. \A i : i \in 1..(l + 1) <=> (i \in 1..l \/ i = l + 1)
      BY <1>1
    <3> QED
      BY <1>1, <2>3, <3>1 DEF Range
  <2>5. Range(more) = UpTo(r, k) \cap present
    BY <1>4, <1>5, <1>10, <2>2, <2>4
  <2>6. ASSUME NEW q \in UpTo(r, k - 1) PROVE First(r, q) < First(r, p)
    <3>1. q \in UpTo(r, n) /\ p \in UpTo(r, n)
      <4>1. \A j \in 1..(k - 1) : j \in 1..n
        OBVIOUS
      <4> QED
        BY <4>1 DEF UpTo
    <3>2. /\ First(r, q) \in 1..n /\ \A j \in 1..n : ParentOf[r[j]] = q => First(r, q) <= j
          /\ First(r, p) \in 1..n /\ ParentOf[r[First(r, p)]] = p
      BY <3>1, FirstFacts
    <3>3. PICK j \in 1..(k - 1) : ParentOf[r[j]] = q
      BY DEF UpTo
    <3>4. First(r, q) <= k - 1
      BY <3>2, <3>3
    <3>5. ~ (First(r, p) \in 1..(k - 1))
      BY <2>2, <3>2 DEF UpTo
    <3> QED
      BY <3>2, <3>4, <3>5
  <2>7. \A i, j \in DOMAIN more : i < j => First(r, more[i]) < First(r, more[j])
    <3>1. SUFFICES ASSUME NEW i \in 1..(l + 1), NEW j \in 1..(l + 1), i < j
                   PROVE  First(r, more[i]) < First(r, more[j])
      BY <2>3
    <3>2. i \in 1..l /\ more[i] = docs[i]
      BY <1>1, <2>3, <3>1
    <3>3. CASE j = l + 1
      <4>1. docs[i] \in UpTo(r, k - 1)
        BY <1>1, <1>4, <2>2, <3>2 DEF Range
      <4> QED
        BY <2>3, <2>6, <3>2, <3>3, <4>1
    <3>4. CASE j # l + 1
      <4>1. j \in 1..l /\ more[j] = docs[j]
        BY <1>1, <2>3, <3>4
      <4> QED
        BY <1>1, <1>3, <3>1, <3>2, <4>1
    <3> QED
      BY <3>3, <3>4
  <2>8. /\ Len(more) <= Most
        /\ Len(more) >= limit <=> Len(more) = Most
    BY <1>1, <1>6, <2>2, <2>3
  <2>9. next.seen = UpTo(r, k) /\ next.docs = more /\ (next.full <=> Len(more) >= limit)
    <3>1. /\ next.seen = acc.seen \cup {p} /\ next.docs = more
          /\ next.full = (p \in present /\ Len(more) >= limit)
      BY <2>1
    <3> QED
      BY <1>5, <1>10, <2>2, <3>1
  <2>10. k \in 0..k
    OBVIOUS
  <2> HIDE DEF next
  <2> QED
    BY <1>2, <2>5, <2>7, <2>8, <2>9, <2>10 DEF Kept, next
<1> QED
  BY <1>7, <1>8, <1>9, <1>10

(* search_documents, whatever order the chunks are in.                     *)
LEMMA ParentsKept ==
  ASSUME SearchAssumption, Input, NEW n \in Nat, NEW r \in [1..n -> Chunks]
  PROVE  \E acc : Kept(r, acc, n) /\ ParentsIn(r) = acc.docs
<1> DEFINE base == [seen |-> {}, docs |-> <<>>, full |-> FALSE]
<1>1. ParentsIn(r) = OverParents!Result(base, r).docs
  BY DEF ParentsIn, OverParents!Result, FoldLeft, OverParents!FoldLeft,
         MapThenFoldSet, OverParents!MapThenFoldSet, Max, OverParents!Max
<1>2. DOMAIN r = 1..n
  OBVIOUS
<1>3. base \in Accs
  BY DEF Accs
<1>4. \A k \in 1..n : \A acc \in Accs : NextParent(acc, r[k]) \in Accs
  BY NextParentTyped
<1>5. Kept(r, base, 0)
  <2>1. /\ base.seen = {} /\ base.docs = <<>> /\ base.full = FALSE
        /\ DOMAIN <<>> = {} /\ Len(<<>>) = 0 /\ Range(<<>>) = {}
    BY DEF Range
  <2>2. UpTo(r, 0) = {} /\ 0 \in 0..0
    BY DEF UpTo
  <2>3. 0 <= Most /\ 0 # Most
    BY DEF Most, Input
  <2> HIDE DEF base
  <2> QED
    BY <1>3, <2>1, <2>2, <2>3 DEF Kept
<1> HIDE DEF base
<1>6. PICK c : OverParents!Folds(c, n, Accs, base, r)
  BY <1>2, <1>3, <1>4, OverParents!FoldSteps, Zenon
<1>7. /\ c[0] = base
      /\ \A k \in 1..n : c[k] = NextParent(c[k - 1], r[k])
      /\ OverParents!Result(base, r) = c[n]
  BY <1>6 DEF OverParents!Folds
<1> DEFINE I == {k \in 0..n : Kept(r, c[k], k)}
<1>8. 0 \in I
  BY <1>5, <1>7
<1>9. ASSUME NEW k \in 1..n, k - 1 \in I PROVE k \in I
  <2>1. Kept(r, c[k - 1], k - 1)
    BY <1>9
  <2>2. Kept(r, NextParent(c[k - 1], r[k]), k)
    BY <2>1, NextParentKeeps
  <2> QED
    BY <1>7, <2>2
<1> HIDE DEF I
<1>10. 0..n \subseteq I
  BY <1>8, <1>9, OverTimes!CountedInduction
<1>11. Kept(r, c[n], n)
  BY <1>10 DEF I
<1> QED
  BY <1>1, <1>7, <1>11

(* A parent's best chunk is the first of its own in the ranked list.       *)
BestOf(hits, p) ==
    LET own == {c \in Range(hits) : ParentOf[c] = p}
    IN  IF logit = Unavailable
        THEN <<0, Min({RankIn(hits, c) : c \in own})>>
        ELSE LET top == Max({logit[c] : c \in own})
             IN  <<top, Min({RankIn(hits, c) : c \in {c \in own : logit[c] = top}})>>

LEMMA BestIsFirst ==
  ASSUME SearchAssumption, Input, NEW n, NEW hits, IsRanking(hits, n, Chunks),
         NEW r, r = Rerank(hits, n), NEW p \in UpTo(r, n),
         NEW b, b = r[First(r, p)]
  PROVE  BestOf(hits, p) = <<Weight(b), RankIn(hits, b)>>
<1> DEFINE own == {c \in Range(hits) : ParentOf[c] = p}
<1>1. /\ IsRanking(r, n, Chunks) /\ Range(r) = Range(hits)
      /\ \A i, j \in 1..n : i < j => RankedBefore(hits, r[i], r[j])
      /\ \A c \in Chunks : Weight(c) \in Nat
  BY RerankedIsSorted
<1>2. n \in Nat /\ DOMAIN r = 1..n /\ r \in [1..n -> Chunks]
  BY <1>1 DEF IsRanking
<1>3. /\ First(r, p) \in 1..n /\ ParentOf[b] = p
      /\ \A j \in 1..n : ParentOf[r[j]] = p => First(r, p) <= j
  BY <1>2, FirstFacts
<1>4. \A c : c \in own <=> c \in Range(hits) /\ ParentOf[c] = p
  OBVIOUS
<1>5. b \in own
  BY <1>1, <1>2, <1>3 DEF Range
<1>6. \A c \in Range(hits) : c \in Chunks /\ Weight(c) \in Nat /\ RankIn(hits, c) \in Nat
  BY <1>1, RankFacts
<1> HIDE DEF own
<1>7. ASSUME NEW c \in own PROVE c = b \/ RankedBefore(hits, b, c)
  <2>1. PICK j \in 1..n : r[j] = c
    BY <1>1, <1>2, <1>4 DEF Range
  <2>2. First(r, p) <= j
    BY <1>3, <1>4, <2>1
  <2>3. CASE First(r, p) = j
    BY <2>1, <2>3
  <2>4. CASE First(r, p) # j
    <3>1. First(r, p) < j
      BY <1>2, <1>3, <2>2, <2>4
    <3> QED
      BY <1>1, <1>3, <2>1, <3>1
  <2> QED
    BY <2>3, <2>4
<1>8. CASE logit = Unavailable
  <2> DEFINE S == {RankIn(hits, c) : c \in own}
  <2>1. S \subseteq Int /\ RankIn(hits, b) \in S
    BY <1>4, <1>5, <1>6
  <2>2. \A c \in own : RankIn(hits, b) <= RankIn(hits, c)
    BY <1>4, <1>5, <1>6, <1>7, <1>8 DEF RankedBefore, Weight
  <2>3. Min(S) = RankIn(hits, b)
    <3>1. \A y \in S : RankIn(hits, b) <= y
      BY <2>2
    <3> HIDE DEF S
    <3> QED
      BY <2>1, <3>1, MinIs
  <2>4. BestOf(hits, p) = <<0, Min(S)>>
    BY <1>8 DEF BestOf, own
  <2> QED
    BY <1>8, <2>3, <2>4 DEF Weight
<1>9. CASE logit # Unavailable
  <2> DEFINE S == {logit[c] : c \in own}
             top == Max(S)
             T == {RankIn(hits, c) : c \in {c \in own : logit[c] = top}}
  <2>1. \A c : Weight(c) = logit[c]
    BY <1>9 DEF Weight
  <2>2. S \subseteq Int /\ logit[b] \in S
    BY <1>4, <1>5, <1>6, <2>1
  <2>3. \A c \in own : logit[c] <= logit[b]
    BY <1>4, <1>5, <1>6, <1>7, <2>1 DEF RankedBefore
  <2>4. top = logit[b]
    <3>1. \A y \in S : y <= logit[b]
      BY <2>3
    <3> HIDE DEF S
    <3> QED
      BY <2>2, <3>1, MaxIs
  <2>5. BestOf(hits, p) = <<top, Min(T)>>
    BY <1>9 DEF BestOf, own
  <2> HIDE DEF top
  <2>6. T \subseteq Int /\ RankIn(hits, b) \in T
    BY <1>4, <1>5, <1>6, <2>4
  <2>7. \A c \in own : logit[c] = top => RankIn(hits, b) <= RankIn(hits, c)
    BY <1>4, <1>5, <1>6, <1>7, <2>1, <2>4 DEF RankedBefore
  <2>8. Min(T) = RankIn(hits, b)
    <3>1. \A y \in T : RankIn(hits, b) <= y
      BY <2>7
    <3> HIDE DEF T
    <3> QED
      BY <2>6, <3>1, MinIs
  <2> QED
    BY <2>1, <2>4, <2>5, <2>8
<1> QED
  BY <1>8, <1>9

LEMMA MinOfTwo ==
  ASSUME NEW a \in Nat, NEW b \in Nat
  PROVE  Min({a, b}) = IF a <= b THEN a ELSE b
<1>1. {a, b} \subseteq Int
  OBVIOUS
<1>2. CASE a <= b
  <2>1. a \in {a, b} /\ \A y \in {a, b} : a <= y
    BY <1>2
  <2> QED
    BY <1>1, <1>2, <2>1, MinIs
<1>3. CASE ~ (a <= b)
  <2>1. b \in {a, b} /\ \A y \in {a, b} : b <= y
    BY <1>3
  <2> QED
    BY <1>1, <1>3, <2>1, MinIs
<1> QED
  BY <1>2, <1>3

(* search_documents answers with different, existing documents, as many as *)
(* the limit asks for or there are, in the order of their best chunks, and *)
(* leaves out only what is worse than all of them.                         *)
THEOREM BestParents ==
  SearchInit(Nat) \/ NoSearch => BestParentsReturned
<1> SUFFICES ASSUME SearchInit(Nat) \/ NoSearch PROVE BestParentsReturned
  OBVIOUS
<1>1. SearchAssumption
  BY SearchAssumption
<1>2. Input
  BY <1>1, InputOfSearch DEF SearchAssumption
<1> DEFINE hits == Candidates
           found == {ParentOf[c] : c \in Range(hits)} \cap present
           n == Len(hits)
           r == Rerank(hits, n)
           docs == SearchDocuments
           l == Len(docs)
<1>3. IsRanking(hits, n, Chunks)
  <2>1. PICK k \in 0..Cardinality(Found) : IsRanking(hits, k, Found)
    BY <1>1, <1>2, CandidatesAreFirst
  <2>2. Len(hits) = k
    BY <2>1, RankFacts
  <2>3. Found \subseteq Chunks
    BY <1>1, <1>2, FoundFacts
  <2> HIDE DEF hits
  <2> QED
    BY <2>1, <2>2, <2>3 DEF IsRanking
<1>4. docs = ParentsIn(r)
  BY DEF SearchDocuments
<1> HIDE DEF hits, docs
<1>5. /\ IsRanking(r, n, Chunks) /\ Range(r) = Range(hits)
      /\ \A i, j \in 1..n : i < j => RankedBefore(hits, r[i], r[j])
      /\ \A c \in Chunks : Weight(c) \in Nat
  BY <1>1, <1>2, <1>3, RerankedIsSorted
<1>6. n \in Nat /\ r \in [1..n -> Chunks] /\ DOMAIN r = 1..n
  BY <1>5 DEF IsRanking
<1>7. PICK acc : Kept(r, acc, n) /\ docs = acc.docs
  BY <1>1, <1>2, <1>4, <1>6, ParentsKept
<1>8. found = UpTo(r, n) \cap present
  <2>1. {ParentOf[c] : c \in Range(r)} = UpTo(r, n)
    BY <1>6 DEF UpTo, Range
  <2> QED
    BY <1>5, <2>1
<1>9. PICK m \in 0..n : /\ Range(docs) = UpTo(r, m) \cap present
                        /\ l # Most => m = n
  BY <1>7 DEF Kept
<1>10. /\ docs \in Seq(Parents) /\ l \in Nat /\ DOMAIN docs = 1..l /\ l <= Most
       /\ \A i, j \in 1..l : i < j => First(r, docs[i]) < First(r, docs[j])
  <2>1. docs \in Seq(Parents) /\ l <= Most
    BY <1>7 DEF Kept, Accs
  <2>2. l \in Nat /\ DOMAIN docs = 1..l
    BY <2>1
  <2> QED
    BY <1>7, <2>1, <2>2 DEF Kept
<1> HIDE DEF r, found, l
<1>11. Range(docs) \subseteq found
  <2>1. \A j \in 1..m : j \in 1..n
    BY <1>6, <1>9
  <2>2. UpTo(r, m) \subseteq UpTo(r, n)
    BY <2>1 DEF UpTo
  <2> QED
    BY <1>8, <1>9, <2>2
<1>12. ASSUME NEW p \in found
       PROVE  /\ First(r, p) \in 1..n /\ ParentOf[r[First(r, p)]] = p
              /\ \A j \in 1..n : ParentOf[r[j]] = p => First(r, p) <= j
  <2>1. p \in UpTo(r, n)
    BY <1>8
  <2> QED
    BY <1>6, <2>1, FirstFacts
<1>13. \A i \in 1..l : docs[i] \in Range(docs) /\ docs[i] \in found
  BY <1>10, <1>11 DEF Range
<1>14. \A i, j \in 1..l : docs[i] = docs[j] => i = j
  <2>1. \A i \in 1..l : First(r, docs[i]) \in Int
    BY <1>6, <1>12, <1>13
  <2>2. SUFFICES ASSUME NEW i \in 1..l, NEW j \in 1..l, docs[i] = docs[j], i # j PROVE FALSE
    OBVIOUS
  <2>3. i < j \/ j < i
    BY <1>10, <2>2
  <2> QED
    BY <1>10, <2>1, <2>2, <2>3
<1>15. IsInjective(docs)
  BY <1>10, <1>14 DEF IsInjective
<1>16. Len(docs) = Min({Most, Cardinality(found)})
  <2>1. IsFiniteSet(found) /\ Cardinality(found) \in Nat
    <3>1. IsFiniteSet(Range(hits))
      BY <1>3, RankFacts
    <3> DEFINE T == {ParentOf[c] : c \in Range(hits)}
               f == [c \in Range(hits) |-> ParentOf[c]]
    <3>2. IsFiniteSet(T)
      <4>1. f \in Surjection(Range(hits), T)
        BY DEF Surjection
      <4> HIDE DEF f, T
      <4> QED
        BY <3>1, <4>1, FS_Surjection
    <3>3. IsFiniteSet(found)
      BY <3>2, FS_Intersection DEF found
    <3> QED
      BY <3>3, FS_CardinalityType
  <2>2. IsRanking(docs, l, Parents)
    BY <1>10, <1>14, LenProperties DEF IsRanking, l
  <2>3. Cardinality(Range(docs)) = l
    BY <2>2, RankFacts
  <2>4. l <= Cardinality(found)
    BY <1>11, <2>1, <2>3, FS_Subset
  <2>5. l # Most => Range(docs) = found
    BY <1>8, <1>9
  <2>6. Most \in Nat
    BY <1>2 DEF Most, Input
  <2>7. Min({Most, Cardinality(found)}) =
            IF Most <= Cardinality(found) THEN Most ELSE Cardinality(found)
    BY <2>1, <2>6, MinOfTwo
  <2>8. l = IF Most <= Cardinality(found) THEN Most ELSE Cardinality(found)
    BY <1>10, <2>1, <2>3, <2>4, <2>5, <2>6
  <2> QED
    BY <2>7, <2>8 DEF l
<1>17. ASSUME NEW i \in 1..l, NEW p \in found, \A j \in 1..i : docs[j] # p
       PROVE  First(r, docs[i]) < First(r, p)
  <2>1. CASE p \in Range(docs)
    <3>1. PICK j \in 1..l : docs[j] = p
      BY <1>10, <2>1 DEF Range
    <3>2. i < j
      BY <1>10, <1>17, <3>1
    <3> QED
      BY <1>10, <3>1, <3>2
  <2>2. CASE p \notin Range(docs)
    <3>1. p \in present /\ p \notin UpTo(r, m)
      BY <1>8, <1>9, <2>2
    <3>2. First(r, p) \in 1..n /\ ~ (First(r, p) \in 1..m)
      BY <1>12, <3>1 DEF UpTo
    <3>3. PICK j \in 1..m : ParentOf[r[j]] = docs[i]
      BY <1>9, <1>13 DEF UpTo
    <3>4. First(r, docs[i]) <= m /\ First(r, docs[i]) \in 1..n
      <4>1. j \in 1..n
        BY <1>6, <1>9
      <4>2. First(r, docs[i]) <= j /\ First(r, docs[i]) \in 1..n
        BY <1>12, <1>13, <3>3, <4>1
      <4> QED
        BY <1>6, <1>9, <4>2
    <3> QED
      BY <1>6, <1>9, <3>2, <3>4
  <2> QED
    BY <2>1, <2>2
<1> DEFINE best == [p \in found |-> BestOf(hits, p)]
           Better(p, q) == LET b == best[p]  a == best[q] IN
                           b[1] > a[1] \/ (b[1] = a[1] /\ b[2] < a[2])
<1>18. ASSUME NEW p \in found, NEW q \in found, First(r, p) < First(r, q)
       PROVE  Better(p, q)
  <2> DEFINE b == r[First(r, p)]
             a == r[First(r, q)]
  <2>1. RankedBefore(hits, b, a)
    BY <1>5, <1>12, <1>18
  <2>2. p \in UpTo(r, n) /\ q \in UpTo(r, n)
    BY <1>8
  <2>3. /\ BestOf(hits, p) = <<Weight(b), RankIn(hits, b)>>
        /\ BestOf(hits, q) = <<Weight(a), RankIn(hits, a)>>
    BY <1>1, <1>2, <1>3, <2>2, BestIsFirst DEF r
  <2>4. best[p] = BestOf(hits, p) /\ best[q] = BestOf(hits, q)
    OBVIOUS
  <2> HIDE DEF best, a, b
  <2> QED
    BY <2>1, <2>3, <2>4 DEF RankedBefore
<1>19. \A i \in DOMAIN docs : \A p \in found :
          (\A j \in 1..i : docs[j] # p) => Better(docs[i], p)
  BY <1>10, <1>13, <1>17, <1>18
<1> QED
  BY <1>11, <1>15, <1>16, <1>19 DEF BestParentsReturned, BestOf, Most, hits, found, docs

-----------------------------------------------------------------------------
(***************************************************************************)
(* _parse_sections: what it keeps is lines of the text.                    *)
(***************************************************************************)
D == DOMAIN text
SectionsOf == [path: Seq(D), blocks: Seq(Seq(D))]
ParseStates == [stack: Seq(D), sections: Seq(SectionsOf), blocks: Seq(Seq(D)),
                lines: Seq(D), fenced: BOOLEAN]

LEMMA Prefix ==
  ASSUME NEW S, NEW s \in Seq(S), NEW m \in 0..Len(s)
  PROVE  /\ SubSeq(s, 1, m) \in Seq(S) /\ Len(SubSeq(s, 1, m)) = m
         /\ \A i \in 1..m : SubSeq(s, 1, m)[i] = s[i]
<1>1. 1 \in Int /\ m \in Int /\ \A i \in 1..m : s[i] \in S
  OBVIOUS
<1>2. /\ SubSeq(s, 1, m) \in Seq(S)
      /\ Len(SubSeq(s, 1, m)) = IF 1 <= m THEN m - 1 + 1 ELSE 0
      /\ \A i \in 1..(m - 1 + 1) : SubSeq(s, 1, m)[i] = s[1 + i - 1]
  BY <1>1, SubSeqProperties
<1>3. (IF 1 <= m THEN m - 1 + 1 ELSE 0) = m /\ 1..(m - 1 + 1) = 1..m
  OBVIOUS
<1>4. \A i \in 1..m : 1 + i - 1 = i
  OBVIOUS
<1> QED
  BY <1>2, <1>3, <1>4

(* strip(): blank lines are taken off the end, and no others.              *)
LEMMA StrippedFacts ==
  ASSUME NEW lines \in Seq(D)
  PROVE  /\ Stripped(lines) \in Seq(D)
         /\ \E m \in 0..Len(lines) :
              /\ Len(Stripped(lines)) = m /\ \A i \in 1..m : Stripped(lines)[i] = lines[i]
              /\ \A i \in (m + 1)..Len(lines) : Kind(lines[i]) = "blank"
<1> DEFINE J == {i \in 1..Len(lines) : Kind(lines[i]) # "blank"}
           m == IF J # {} THEN Max(J) ELSE 0
<1>1. Stripped(lines) = SubSeq(lines, 1, m)
  BY DEF Stripped, SelectLastInSeq
<1>2. J \subseteq 1..Len(lines) /\ Len(lines) \in Nat
  OBVIOUS
<1>3. \A i \in 1..Len(lines) : i \notin J => Kind(lines[i]) = "blank"
  OBVIOUS
<1> HIDE DEF J
<1>4. m \in 0..Len(lines) /\ \A i \in J : i <= m
  <2>1. CASE J = {}
    BY <1>2, <2>1
  <2>2. CASE J # {}
    <3>1. PICK x \in J : \A y \in J : y <= x
      BY <1>2, <2>2, OverTimes!GreatestIn
    <3>2. J \subseteq Int
      BY <1>2
    <3>3. Max(J) = x
      BY <3>1, <3>2, MaxIs
    <3> QED
      BY <1>2, <2>2, <3>1, <3>3
  <2> QED
    BY <2>1, <2>2
<1> HIDE DEF m
<1>5. \A i \in (m + 1)..Len(lines) : Kind(lines[i]) = "blank"
  <2>1. TAKE i \in (m + 1)..Len(lines)
  <2>2. i \in 1..Len(lines) /\ ~ (i <= m)
    BY <1>2, <1>4
  <2> QED
    BY <1>3, <1>4, <2>2
<1> QED
  BY <1>1, <1>4, <1>5, Prefix

(* The headings on the stack above a new one's level.                      *)
Outer(st, i) == SelectLastInSeq(st.stack, LAMBDA h : Level(h) < Level(i))

LEMMA OuterFacts ==
  ASSUME NEW st \in ParseStates, NEW i
  PROVE  /\ Outer(st, i) \in 0..Len(st.stack)
         /\ Outer(st, i) # 0 => Level(st.stack[Outer(st, i)]) < Level(i)
         /\ \A j \in (Outer(st, i) + 1)..Len(st.stack) : ~ (Level(st.stack[j]) < Level(i))
<1> DEFINE J == {j \in 1..Len(st.stack) : Level(st.stack[j]) < Level(i)}
           m == IF J # {} THEN Max(J) ELSE 0
<1>1. Outer(st, i) = m
  BY DEF Outer, SelectLastInSeq
<1>2. J \subseteq 1..Len(st.stack) /\ Len(st.stack) \in Nat
  BY DEF ParseStates
<1>3. \A j \in 1..Len(st.stack) : j \in J <=> Level(st.stack[j]) < Level(i)
  OBVIOUS
<1> HIDE DEF J
<1>4. m \in 0..Len(st.stack) /\ (\A j \in J : j <= m) /\ (m # 0 => m \in J)
  <2>1. CASE J = {}
    BY <1>2, <2>1
  <2>2. CASE J # {}
    <3>1. PICK x \in J : \A y \in J : y <= x
      BY <1>2, <2>2, OverTimes!GreatestIn
    <3>2. J \subseteq Int
      BY <1>2
    <3>3. Max(J) = x
      BY <3>1, <3>2, MaxIs
    <3> QED
      BY <1>2, <2>2, <3>1, <3>3
  <2> QED
    BY <2>1, <2>2
<1> HIDE DEF m
<1>5. ASSUME NEW j \in (m + 1)..Len(st.stack) PROVE ~ (Level(st.stack[j]) < Level(i))
  <2>1. j \in 1..Len(st.stack) /\ ~ (j <= m)
    BY <1>2, <1>4
  <2> QED
    BY <1>3, <1>4, <2>1
<1>6. m # 0 => Level(st.stack[m]) < Level(i)
  BY <1>2, <1>3, <1>4
<1> QED
  BY <1>1, <1>4, <1>5, <1>6

(* The parts of a parse state that its operations change.                  *)
LEMMA FlushFacts ==
  ASSUME NEW st \in ParseStates
  PROVE  /\ Flush(st) \in ParseStates
         /\ Flush(st).stack = st.stack /\ Flush(st).sections = st.sections
         /\ Flush(st).fenced = st.fenced /\ Flush(st).lines = <<>>
         /\ Flush(st).blocks = IF st.lines = <<>> THEN st.blocks
                               ELSE Append(st.blocks, Stripped(st.lines))
<1>1. Stripped(st.lines) \in Seq(D)
  BY StrippedFacts DEF ParseStates
<1> DEFINE new == IF st.lines = <<>> THEN st.blocks ELSE Append(st.blocks, Stripped(st.lines))
<1>2. new \in Seq(Seq(D)) /\ <<>> \in Seq(D)
  BY <1>1 DEF ParseStates
<1>3. Flush(st) = [st EXCEPT !.blocks = new, !.lines = <<>>]
  BY DEF Flush, ParseStates
<1> HIDE DEF new
<1>4. Flush(st) \in ParseStates
  BY <1>2, <1>3 DEF ParseStates
<1>5. /\ Flush(st).stack = st.stack /\ Flush(st).sections = st.sections
      /\ Flush(st).fenced = st.fenced /\ Flush(st).lines = <<>>
      /\ Flush(st).blocks = new
  BY <1>3 DEF ParseStates
<1> QED
  BY <1>4, <1>5 DEF new

LEMMA SaveFacts ==
  ASSUME NEW st \in ParseStates
  PROVE  /\ SaveSection(st) \in ParseStates
         /\ SaveSection(st).stack = st.stack /\ SaveSection(st).fenced = st.fenced
         /\ SaveSection(st).lines = st.lines /\ SaveSection(st).blocks = <<>>
         /\ SaveSection(st).sections =
              IF st.blocks = <<>> THEN st.sections
              ELSE Append(st.sections, [path |-> st.stack, blocks |-> st.blocks])
<1>1. [path |-> st.stack, blocks |-> st.blocks] \in SectionsOf
  BY DEF ParseStates, SectionsOf
<1> DEFINE new == Append(st.sections, [path |-> st.stack, blocks |-> st.blocks])
<1>2. new \in Seq(SectionsOf) /\ <<>> \in Seq(Seq(D))
  BY <1>1 DEF ParseStates
<1>3. st.blocks # <<>> => SaveSection(st) = [st EXCEPT !.sections = new, !.blocks = <<>>]
  BY DEF SaveSection, ParseStates
<1>4. st.blocks = <<>> => SaveSection(st) = st
  BY DEF SaveSection
<1> HIDE DEF new
<1>5. SaveSection(st) \in ParseStates
  BY <1>2, <1>3, <1>4 DEF ParseStates
<1>6. /\ SaveSection(st).stack = st.stack /\ SaveSection(st).fenced = st.fenced
      /\ SaveSection(st).lines = st.lines /\ SaveSection(st).blocks = <<>>
      /\ SaveSection(st).sections = IF st.blocks = <<>> THEN st.sections ELSE new
  BY <1>3, <1>4 DEF ParseStates
<1> QED
  BY <1>5, <1>6 DEF new

LEMMA TakeFacts ==
  ASSUME NEW st \in ParseStates, NEW i \in D
  PROVE  /\ Take(st, i) \in ParseStates
         /\ Take(st, i).stack = st.stack /\ Take(st, i).sections = st.sections
         /\ Take(st, i).blocks = st.blocks /\ Take(st, i).fenced = st.fenced
         /\ Take(st, i).lines = Append(st.lines, i)
<1> DEFINE new == Append(st.lines, i)
<1>1. new \in Seq(D)
  BY DEF ParseStates
<1>2. Take(st, i) = [st EXCEPT !.lines = new]
  BY DEF Take, ParseStates
<1> HIDE DEF new
<1>3. Take(st, i) \in ParseStates
  BY <1>1, <1>2 DEF ParseStates
<1>4. /\ Take(st, i).stack = st.stack /\ Take(st, i).sections = st.sections
      /\ Take(st, i).blocks = st.blocks /\ Take(st, i).fenced = st.fenced
      /\ Take(st, i).lines = new
  BY <1>2 DEF ParseStates
<1> QED
  BY <1>3, <1>4 DEF new

LEMMA FenceFacts ==
  ASSUME NEW st \in ParseStates, NEW i \in D
  PROVE  /\ Fence(st, i) \in ParseStates
         /\ Fence(st, i) = IF st.fenced THEN [Flush(Take(st, i)) EXCEPT !.fenced = FALSE]
                           ELSE [Take(Flush(st), i) EXCEPT !.fenced = TRUE]
<1>1. Flush(Take(st, i)) \in ParseStates /\ Take(Flush(st), i) \in ParseStates
  BY FlushFacts, TakeFacts
<1> QED
  BY <1>1 DEF Fence, ParseStates

LEMMA HeadingFacts ==
  ASSUME NEW st \in ParseStates, NEW i \in D
  PROVE  /\ Heading(st, i) \in ParseStates
         /\ Heading(st, i) = [SaveSection(Flush(st)) EXCEPT
                !.stack = Append(SubSeq(st.stack, 1, Outer(st, i)), i)]
<1>1. SaveSection(Flush(st)) \in ParseStates /\ SaveSection(Flush(st)).stack = st.stack
  BY FlushFacts, SaveFacts
<1>2. SubSeq(st.stack, 1, Outer(st, i)) \in Seq(D)
  <2>1. st.stack \in Seq(D) /\ Outer(st, i) \in 0..Len(st.stack)
    BY OuterFacts DEF ParseStates
  <2> QED
    BY <2>1, Prefix
<1>3. Append(SubSeq(st.stack, 1, Outer(st, i)), i) \in Seq(D)
  BY <1>2
<1>4. Heading(st, i) = [SaveSection(Flush(st)) EXCEPT
                !.stack = Append(SubSeq(st.stack, 1, Outer(st, i)), i)]
  BY <1>1 DEF Heading, Outer
<1> QED
  BY <1>1, <1>3, <1>4 DEF ParseStates

LEMMA ParseTyped ==
  ASSUME NEW st \in ParseStates, NEW i \in D
  PROVE  ParseLine(st, i) \in ParseStates
<1>1. /\ Fence(st, i) \in ParseStates /\ Take(st, i) \in ParseStates
      /\ Heading(st, i) \in ParseStates /\ BlankLine(st, i) \in ParseStates
  BY FenceFacts, TakeFacts, HeadingFacts, FlushFacts DEF BlankLine
<1> QED
  BY <1>1 DEF ParseLine

(* The text as it is folded: what its lines keep true is true of the whole.*)
Parsed == FoldLeftDomain(ParseLine, Start, text)

LEMMA ParsedIs ==
  Parsed = OverText!Result(Start, Numbers)
BY DEF Parsed, Numbers, FoldLeftDomain, OverText!Result, FoldLeft, OverText!FoldLeft,
       MapThenFoldSet, OverText!MapThenFoldSet, Max, OverText!Max

LEMMA StartTyped == Start \in ParseStates
BY DEF Start, ParseStates

LEMMA SectionsTyped ==
  ASSUME NEW n \in Nat, D = 1..n
  PROVE  Parsed \in ParseStates /\ Sections \in Seq(SectionsOf)
<1>1. DOMAIN Numbers = 1..n /\ \A k \in 1..n : Numbers[k] = k
  BY DEF Numbers, D
<1>2. \A k \in 1..n : \A st \in ParseStates : ParseLine(st, Numbers[k]) \in ParseStates
  BY <1>1, ParseTyped
<1>3. Start \in ParseStates
  BY StartTyped
<1>4. PICK c : OverText!Folds(c, n, ParseStates, Start, Numbers)
  BY <1>1, <1>2, <1>3, OverText!FoldSteps, Zenon
<1>5. c \in [0..n -> ParseStates] /\ OverText!Result(Start, Numbers) = c[n]
  BY <1>4 DEF OverText!Folds
<1>6. Parsed \in ParseStates
  BY <1>5, ParsedIs
<1>7. SaveSection(Flush(Parsed)) \in ParseStates
  BY <1>6, FlushFacts, SaveFacts
<1> QED
  BY <1>6, <1>7 DEF Sections, Parsed, ParseStates

-----------------------------------------------------------------------------
(***************************************************************************)
(* _chunk_content: sizes.                                                  *)
(***************************************************************************)
LEMMA TextFacts ==
  ASSUME text \in Seq(Lines), ChunkerAssumption
  PROVE  /\ Len(text) \in Nat /\ D = 1..Len(text)
         /\ \A i \in D : /\ Kind(i) \in Kinds /\ Level(i) \in 1..6
                         /\ text[i].width \in Nat
<1>1. Len(text) \in Nat /\ D = 1..Len(text) /\ \A i \in D : text[i] \in Lines
  BY DEF D
<1>2. \A x \in Lines : x \in [kind: Kinds, level: 1..6, width: Nat]
  BY DEF ChunkerAssumption
<1> QED
  BY <1>1, <1>2 DEF Kind, Level

LEMMA BlockSizeTyped ==
  ASSUME text \in Seq(Lines), ChunkerAssumption, NEW b \in Seq(D)
  PROVE  BlockSize(b) \in Int
<1>1. BlockSize(b) = OverLines!Result(0, b) - 1
  BY DEF BlockSize, OverLines!Result, FoldLeft, OverLines!FoldLeft,
         MapThenFoldSet, OverLines!MapThenFoldSet, Max, OverLines!Max
<1>2. OverLines!Closed(Int, D)
  BY TextFacts DEF OverLines!Closed, AddLine
<1>3. 0 \in Int /\ b \in Seq(D)
  OBVIOUS
<1>4. OverLines!Result(0, b) \in Int
  BY <1>2, <1>3, OverLines!FoldTyped, Zenon
<1> QED
  BY <1>1, <1>4

LEMMA BodySizeFacts ==
  ASSUME text \in Seq(Lines), ChunkerAssumption, NEW parts \in Seq(Seq(D)), NEW b \in Seq(D)
  PROVE  /\ BodySize(parts) \in Int /\ BlockSize(b) \in Int
         /\ BodySize(<<>>) = -2
         /\ BodySize(Append(parts, b)) = BodySize(parts) + BlockSize(b) + 2
<1>1. \A ps : BodySize(ps) = OverParts!Result(0, ps) - 2
  BY DEF BodySize, OverParts!Result, FoldLeft, OverParts!FoldLeft,
         MapThenFoldSet, OverParts!MapThenFoldSet, Max, OverParts!Max
<1>2. OverParts!Closed(Int, Seq(D))
  <2>1. \A x \in Seq(D) : BlockSize(x) \in Int
    BY BlockSizeTyped
  <2> QED
    BY <2>1 DEF OverParts!Closed, AddBlock
<1>3. 0 \in Int /\ parts \in Seq(Seq(D)) /\ b \in Seq(D)
  OBVIOUS
<1>4. /\ OverParts!Result(0, parts) \in Int
      /\ OverParts!Result(0, Append(parts, b)) = AddBlock(OverParts!Result(0, parts), b)
  <2>1. OverParts!Result(0, parts) \in Int
    BY <1>2, <1>3, OverParts!FoldTyped, Zenon
  <2>2. OverParts!Result(0, Append(parts, b)) = AddBlock(OverParts!Result(0, parts), b)
    <3>1. OverParts!Grows(Int, Seq(D))
      BY <1>2, OverParts!FoldAppend
    <3> QED
      BY <1>3, <3>1 DEF OverParts!Grows
  <2> QED
    BY <2>1, <2>2
<1>5. OverParts!Result(0, <<>>) = 0
  BY OverParts!FoldEmpty
<1>6. BlockSize(b) \in Int
  BY BlockSizeTyped
<1> DEFINE x == OverParts!Result(0, parts)
           y == OverParts!Result(0, Append(parts, b))
<1>7. y = x + BlockSize(b) + 2 /\ x \in Int
  BY <1>4 DEF AddBlock
<1>8. BodySize(parts) = x - 2 /\ BodySize(Append(parts, b)) = y - 2 /\ BodySize(<<>>) = 0 - 2
  BY <1>1, <1>5
<1> HIDE DEF x, y
<1> QED
  BY <1>6, <1>7, <1>8

LEMMA PrefixSizeTyped ==
  ASSUME text \in Seq(Lines), ChunkerAssumption, NEW path \in Seq(D)
  PROVE  PrefixSize(path) \in Int
<1>1. PrefixSize(path) = IF path = <<>> THEN 0 ELSE OverHeadings!Result(0, path) - 3 + 4
  BY DEF PrefixSize, OverHeadings!Result, FoldLeft, OverHeadings!FoldLeft,
         MapThenFoldSet, OverHeadings!MapThenFoldSet, Max, OverHeadings!Max
<1>2. OverHeadings!Closed(Int, D)
  <2>1. \A h \in D : text[h].width \in Nat /\ Level(h) \in 1..6
    BY TextFacts, Zenon
  <2>2. ASSUME NEW m \in Int, NEW h \in D PROVE AddHeading(m, h) \in Int
    <3> DEFINE w == text[h].width
               v == Level(h)
    <3>1. w \in Nat /\ v \in 1..6 /\ AddHeading(m, h) = m + (w - v - 1) + 3
      BY <2>1 DEF AddHeading
    <3> HIDE DEF w, v
    <3> QED
      BY <3>1
  <2> QED
    BY <2>2 DEF OverHeadings!Closed
<1>3. 0 \in Int /\ path \in Seq(D)
  OBVIOUS
<1>4. OverHeadings!Result(0, path) \in Int
  BY <1>2, <1>3, OverHeadings!FoldTyped, Zenon
<1> QED
  BY <1>1, <1>4

(* The lines of the tail.                                                  *)
TailLines == [line: D, behind: Int]
NumbersOf(lines) == {l.line : l \in lines}

LEMMA PlacedFacts ==
  ASSUME text \in Seq(Lines), ChunkerAssumption, NEW parts \in Seq(Seq(D))
  PROVE  Placed(parts) \subseteq TailLines /\ NumbersOf(Placed(parts)) = LinesIn(parts)
<1> DEFINE Behind(b, j) == BodySize(SubSeq(parts, b + 1, Len(parts))) + 2
                           + BlockSize(SubSeq(parts[b], j + 1, Len(parts[b]))) + 1
           At(b, j) == [line |-> parts[b][j], behind |-> Behind(b, j)]
<1>1. ASSUME NEW b \in DOMAIN parts, NEW j \in DOMAIN parts[b]
      PROVE  parts[b][j] \in D /\ Behind(b, j) \in Int
  <2>1. /\ parts[b] \in Seq(D) /\ Len(parts) \in Nat /\ DOMAIN parts = 1..Len(parts)
        /\ \A i \in 1..Len(parts) : parts[i] \in Seq(D)
    BY <1>1
  <2>2. /\ Len(parts[b]) \in Nat /\ DOMAIN parts[b] = 1..Len(parts[b])
        /\ \A i \in 1..Len(parts[b]) : parts[b][i] \in D
    BY <2>1
  <2>3. SubSeq(parts, b + 1, Len(parts)) \in Seq(Seq(D))
    BY <2>1, SubSeqProperties
  <2>4. SubSeq(parts[b], j + 1, Len(parts[b])) \in Seq(D)
    BY <2>2, SubSeqProperties
  <2>5. BodySize(SubSeq(parts, b + 1, Len(parts))) \in Int
    BY <2>1, <2>3, BodySizeFacts
  <2>6. BlockSize(SubSeq(parts[b], j + 1, Len(parts[b]))) \in Int
    BY <2>4, BlockSizeTyped
  <2> QED
    BY <1>1, <2>2, <2>5, <2>6
<1>2. \A l : l \in Placed(parts) <=>
               \E b \in DOMAIN parts : \E j \in DOMAIN parts[b] : l = At(b, j)
  BY DEF Placed
<1>3. \A b, j : At(b, j).line = parts[b][j] /\ At(b, j).behind = Behind(b, j)
  OBVIOUS
<1>4. \A b \in DOMAIN parts : \A j \in DOMAIN parts[b] : At(b, j) \in TailLines
  BY <1>1 DEF TailLines
<1> HIDE DEF At
<1>5. \A i : i \in LinesIn(parts) <=>
               \E b \in DOMAIN parts : \E j \in DOMAIN parts[b] : i = parts[b][j]
  BY DEF LinesIn, Range
<1>6. Placed(parts) \subseteq TailLines
  BY <1>2, <1>4
<1>7. \A i : i \in NumbersOf(Placed(parts)) <=> \E l \in Placed(parts) : i = l.line
  BY DEF NumbersOf
<1>8. ASSUME NEW i \in NumbersOf(Placed(parts)) PROVE i \in LinesIn(parts)
  <2>1. PICK l \in Placed(parts) : i = l.line
    BY <1>7, <1>8
  <2>2. PICK b \in DOMAIN parts : \E j \in DOMAIN parts[b] : l = At(b, j)
    BY <1>2, <2>1
  <2> QED
    BY <1>3, <1>5, <2>1, <2>2
<1>9. ASSUME NEW i \in LinesIn(parts) PROVE i \in NumbersOf(Placed(parts))
  <2>1. PICK b \in DOMAIN parts : \E j \in DOMAIN parts[b] : i = parts[b][j]
    BY <1>5, <1>9
  <2>2. PICK j \in DOMAIN parts[b] : i = parts[b][j]
    BY <2>1
  <2>3. At(b, j) \in Placed(parts)
    BY <1>2, <2>1, <2>2
  <2> QED
    BY <1>3, <1>7, <2>2, <2>3
<1> QED
  BY <1>6, <1>8, <1>9

LEMMA PushBackFacts ==
  ASSUME NEW lines \in SUBSET TailLines, NEW n \in Int
  PROVE  /\ PushBack(lines, n) \subseteq TailLines
         /\ NumbersOf(PushBack(lines, n)) = NumbersOf(lines)
<1> DEFINE P(l) == [l EXCEPT !.behind = @ + n]
<1>1. \A l \in TailLines : P(l) \in TailLines /\ P(l).line = l.line
  BY DEF TailLines
<1>2. PushBack(lines, n) = {P(l) : l \in lines}
  BY DEF PushBack
<1> HIDE DEF P
<1> QED
  BY <1>1, <1>2 DEF NumbersOf

ChunksOf == [path: Seq(D), parts: Seq(Seq(D)), over: SUBSET D, size: Int]
ChunkAccs == [chunks: Seq(ChunksOf), tail: Int, tailLines: SUBSET TailLines,
              parts: Seq(Seq(D)), size: Int, path: Seq(D)]

(* What the next chunk repeats.                                            *)
OverOf(acc) == IF acc.tail > 0 /\ acc.chunks # <<>> THEN acc.tailLines ELSE {}
BodyOf(acc) == PushBack(OverOf(acc), 2 + BodySize(acc.parts)) \cup Placed(acc.parts)

ChunkFits(chunk) ==
    Len(chunk.parts) > 1 =>
        /\ BodySize(chunk.parts) <= TargetSize
        /\ chunk.size <= PrefixSize(chunk.path) + Mark + OverlapSize + 2 + TargetSize

(* current_size is never less than the body it stands for, and no more     *)
(* than target_size once there are two blocks; last_tail is cut.           *)
Fitting ==
    {acc \in ChunkAccs :
        /\ acc.tail <= OverlapSize
        /\ \A c \in DOMAIN acc.chunks : ChunkFits(acc.chunks[c])
        /\ BodySize(acc.parts) <= acc.size
        /\ Len(acc.parts) > 1 => acc.size <= TargetSize}

LEMMA EmitFits ==
  ASSUME text \in Seq(Lines), ChunkerAssumption, NEW acc \in Fitting
  PROVE  /\ Emit(acc) \in Fitting /\ Emit(acc).parts = <<>> /\ Emit(acc).path = acc.path
         /\ Emit(acc).size = 0 /\ Emit(acc).tailLines = InTail(BodyOf(acc))
         /\ \E z \in Int : Emit(acc).chunks =
               Append(acc.chunks, [path |-> acc.path, parts |-> acc.parts,
                                   over |-> NumbersOf(OverOf(acc)), size |-> z])
<1> DEFINE body == BodySize(acc.parts)
                   + IF acc.tail > 0 /\ acc.chunks # <<>> THEN Mark + acc.tail + 2 ELSE 0
           chunk == [path |-> acc.path, parts |-> acc.parts,
                     over |-> NumbersOf(OverOf(acc)), size |-> PrefixSize(acc.path) + body]
           new == Append(acc.chunks, chunk)
           rest == IF body > OverlapSize THEN OverlapSize ELSE body
           last == InTail(BodyOf(acc))
<1>1. /\ acc \in ChunkAccs /\ acc.tail \in Int /\ acc.size \in Int /\ acc.chunks \in Seq(ChunksOf)
      /\ acc.tailLines \in SUBSET TailLines
      /\ acc.parts \in Seq(Seq(D)) /\ acc.path \in Seq(D)
  BY DEF Fitting, ChunkAccs
<1>2. /\ acc.tail <= OverlapSize /\ BodySize(acc.parts) <= acc.size
      /\ Len(acc.parts) > 1 => acc.size <= TargetSize
      /\ \A c \in DOMAIN acc.chunks : ChunkFits(acc.chunks[c])
  BY DEF Fitting
<1>3. BodySize(acc.parts) \in Int /\ BodySize(<<>>) = -2
  <2>1. <<>> \in Seq(D)
    OBVIOUS
  <2> QED
    BY <1>1, <2>1, BodySizeFacts
<1>4. TargetSize \in Nat /\ OverlapSize \in Nat /\ Mark = 5
  BY DEF ChunkerAssumption, Mark
<1>5. body \in Int /\ body <= BodySize(acc.parts) + Mark + OverlapSize + 2
  <2> DEFINE own == BodySize(acc.parts)
             tail == acc.tail
             more == IF acc.tail > 0 /\ acc.chunks # <<>> THEN Mark + acc.tail + 2 ELSE 0
  <2>1. more = 0 \/ (more = Mark + tail + 2)
    OBVIOUS
  <2>2. body = own + more
    OBVIOUS
  <2>3. own \in Int /\ tail \in Int /\ tail <= OverlapSize
    BY <1>1, <1>2, <1>3
  <2> HIDE DEF own, tail, more, body
  <2>4. body \in Int /\ body <= own + Mark + OverlapSize + 2
    BY <1>4, <2>1, <2>2, <2>3
  <2> QED
    BY <2>4 DEF own
<1>6. Emit(acc) = [acc EXCEPT !.chunks = new, !.tail = rest, !.tailLines = last,
                              !.parts = <<>>, !.size = 0]
  BY <1>1 DEF Emit, ChunkAccs, OverOf, BodyOf, NumbersOf
<1> HIDE DEF body
<1>p. PrefixSize(acc.path) \in Int
  BY <1>1, PrefixSizeTyped
<1>o. OverOf(acc) \in SUBSET TailLines /\ NumbersOf(OverOf(acc)) \in SUBSET D
  BY <1>1 DEF OverOf, NumbersOf, TailLines
<1>l. last \in SUBSET TailLines
  <2>1. 2 + BodySize(acc.parts) \in Int
    BY <1>3
  <2>2. PushBack(OverOf(acc), 2 + BodySize(acc.parts)) \subseteq TailLines
    BY <1>o, <2>1, PushBackFacts
  <2>3. Placed(acc.parts) \subseteq TailLines
    BY <1>1, PlacedFacts
  <2> QED
    BY <2>2, <2>3 DEF BodyOf, InTail
<1> HIDE DEF last
<1>7. ChunkFits(chunk)
  <2>1. chunk.parts = acc.parts /\ chunk.path = acc.path
        /\ chunk.size = PrefixSize(acc.path) + body
    OBVIOUS
  <2> HIDE DEF chunk
  <2>2. ASSUME Len(acc.parts) > 1
        PROVE  BodySize(acc.parts) <= TargetSize /\ body <= TargetSize + Mark + OverlapSize + 2
    <3> DEFINE own == BodySize(acc.parts)
               size == acc.size
    <3>1. /\ own \in Int /\ size \in Int /\ own <= size /\ size <= TargetSize
          /\ body \in Int /\ body <= own + Mark + OverlapSize + 2
      BY <1>1, <1>2, <1>3, <1>5, <2>2
    <3> HIDE DEF own, size
    <3>2. own <= TargetSize /\ body <= TargetSize + Mark + OverlapSize + 2
      BY <1>4, <3>1
    <3> QED
      BY <3>2 DEF own
  <2>3. ASSUME body <= TargetSize + Mark + OverlapSize + 2
        PROVE  PrefixSize(acc.path) + body
                 <= PrefixSize(acc.path) + Mark + OverlapSize + 2 + TargetSize
    BY <1>p, <1>4, <1>5, <2>3
  <2> QED
    BY <2>1, <2>2, <2>3 DEF ChunkFits
<1>8. chunk \in ChunksOf
  <2>1. PrefixSize(acc.path) + body \in Int
    BY <1>p, <1>5
  <2> QED
    BY <1>1, <1>o, <2>1 DEF ChunksOf
<1> HIDE DEF chunk
<1>9. new \in Seq(ChunksOf) /\ \A c \in DOMAIN new : ChunkFits(new[c])
  <2>1. /\ new \in Seq(ChunksOf) /\ DOMAIN new = 1..(Len(acc.chunks) + 1)
        /\ \A c \in 1..Len(acc.chunks) : new[c] = acc.chunks[c]
        /\ new[Len(acc.chunks) + 1] = chunk /\ Len(acc.chunks) \in Nat
        /\ DOMAIN acc.chunks = 1..Len(acc.chunks)
    BY <1>1, <1>8
  <2> HIDE DEF new
  <2> QED
    BY <1>2, <1>7, <2>1
<1>10. rest \in Int /\ rest <= OverlapSize
  BY <1>4, <1>5
<1> HIDE DEF new, rest
<1>11. Emit(acc) \in ChunkAccs
  <2>1. <<>> \in Seq(Seq(D)) /\ 0 \in Int
    OBVIOUS
  <2> QED
    BY <1>1, <1>6, <1>9, <1>10, <1>l, <2>1 DEF ChunkAccs
<1>12. /\ Emit(acc).chunks = new /\ Emit(acc).tail = rest /\ Emit(acc).parts = <<>>
       /\ Emit(acc).tailLines = last
       /\ Emit(acc).size = 0 /\ Emit(acc).path = acc.path
  BY <1>1, <1>6 DEF ChunkAccs
<1>13. Emit(acc) \in Fitting
  <2>1. Len(<<>>) = 0
    OBVIOUS
  <2> QED
    BY <1>3, <1>9, <1>10, <1>11, <1>12, <2>1 DEF Fitting
<1>14. PrefixSize(acc.path) + body \in Int
  BY <1>p, <1>5
<1> QED
  BY <1>12, <1>13, <1>14 DEF new, chunk, last

(* PlaceBlock closes a chunk or lengthens it.                              *)
Full(acc, b) == acc.parts # <<>> /\ acc.size + 2 + BlockSize(b) > TargetSize

LEMMA PlaceBlockFacts ==
  ASSUME text \in Seq(Lines), ChunkerAssumption, NEW acc \in Fitting, NEW b \in Seq(D)
  PROVE  /\ Full(acc, b) =>
              /\ PlaceBlock(acc, b).chunks = Emit(acc).chunks
              /\ PlaceBlock(acc, b).parts = <<b>>
              /\ PlaceBlock(acc, b).size = BlockSize(b)
              /\ PlaceBlock(acc, b).tail = Emit(acc).tail
              /\ PlaceBlock(acc, b).tailLines = Emit(acc).tailLines
         /\ ~Full(acc, b) =>
              /\ PlaceBlock(acc, b).chunks = acc.chunks
              /\ PlaceBlock(acc, b).parts = Append(acc.parts, b)
              /\ PlaceBlock(acc, b).size = acc.size + 2 + BlockSize(b)
              /\ PlaceBlock(acc, b).tail = acc.tail
              /\ PlaceBlock(acc, b).tailLines = acc.tailLines
         /\ PlaceBlock(acc, b).path = acc.path
         /\ PlaceBlock(acc, b) \in ChunkAccs
<1>1. acc \in ChunkAccs /\ Emit(acc) \in ChunkAccs /\ Emit(acc).path = acc.path
  BY EmitFits DEF Fitting
<1>2. BlockSize(b) \in Int /\ acc.size + 2 + BlockSize(b) \in Int
  <2>1. BlockSize(b) \in Int
    BY BlockSizeTyped
  <2> QED
    BY <1>1, <2>1 DEF ChunkAccs
<1>3. <<b>> \in Seq(Seq(D)) /\ Append(acc.parts, b) \in Seq(Seq(D))
  BY <1>1 DEF ChunkAccs
<1>4. CASE Full(acc, b)
  <2>1. PlaceBlock(acc, b) = [Emit(acc) EXCEPT !.parts = <<b>>, !.size = BlockSize(b)]
    BY <1>4 DEF PlaceBlock, Full
  <2> QED
    BY <1>1, <1>2, <1>3, <1>4, <2>1 DEF ChunkAccs
<1>5. CASE ~Full(acc, b)
  <2> DEFINE more == Append(acc.parts, b)
             size == acc.size + 2 + BlockSize(b)
  <2>1. PlaceBlock(acc, b) = [acc EXCEPT !.parts = more, !.size = size]
    BY <1>1, <1>5 DEF PlaceBlock, Full, ChunkAccs
  <2>2. more \in Seq(Seq(D)) /\ size \in Int
    BY <1>2, <1>3
  <2> HIDE DEF more, size
  <2>3. /\ PlaceBlock(acc, b).chunks = acc.chunks /\ PlaceBlock(acc, b).parts = more
        /\ PlaceBlock(acc, b).size = size /\ PlaceBlock(acc, b).tail = acc.tail
        /\ PlaceBlock(acc, b).tailLines = acc.tailLines
        /\ PlaceBlock(acc, b).path = acc.path /\ PlaceBlock(acc, b) \in ChunkAccs
    BY <1>1, <2>1, <2>2 DEF ChunkAccs
  <2> QED
    BY <1>5, <2>3 DEF more, size
<1> QED
  BY <1>4, <1>5

LEMMA PlaceBlockFits ==
  ASSUME text \in Seq(Lines), ChunkerAssumption, NEW acc \in Fitting, NEW b \in Seq(D)
  PROVE  PlaceBlock(acc, b) \in Fitting
<1> DEFINE next == PlaceBlock(acc, b)
<1>1. acc.size \in Int /\ acc.parts \in Seq(Seq(D)) /\ TargetSize \in Nat
  BY DEF Fitting, ChunkAccs, ChunkerAssumption
<1>2. /\ BlockSize(b) \in Int /\ BodySize(acc.parts) \in Int /\ BodySize(<<>>) = -2
      /\ BodySize(Append(acc.parts, b)) = BodySize(acc.parts) + BlockSize(b) + 2
  BY <1>1, BodySizeFacts
<1>3. BodySize(<<b>>) = BlockSize(b)
  <2>1. <<>> \in Seq(Seq(D)) /\ Append(<<>>, b) = <<b>>
    OBVIOUS
  <2>2. BodySize(Append(<<>>, b)) = BodySize(<<>>) + BlockSize(b) + 2
    BY <2>1, BodySizeFacts
  <2> QED
    BY <1>2, <2>1, <2>2
<1>4. CASE Full(acc, b)
  <2>1. /\ next.chunks = Emit(acc).chunks /\ next.parts = <<b>>
        /\ next.size = BlockSize(b) /\ next.tail = Emit(acc).tail /\ next \in ChunkAccs
    BY <1>4, PlaceBlockFacts
  <2>2. Emit(acc).tail <= OverlapSize
        /\ \A c \in DOMAIN Emit(acc).chunks : ChunkFits(Emit(acc).chunks[c])
    BY EmitFits DEF Fitting
  <2>3. Len(<<b>>) = 1
    OBVIOUS
  <2> HIDE DEF next
  <2>4. BodySize(next.parts) <= next.size
    BY <1>2, <1>3, <2>1
  <2>5. ~ (Len(next.parts) > 1)
    BY <2>1, <2>3
  <2>6. next.tail <= OverlapSize /\ \A c \in DOMAIN next.chunks : ChunkFits(next.chunks[c])
    BY <2>1, <2>2
  <2>7. next \in Fitting
    BY <2>1, <2>4, <2>5, <2>6 DEF Fitting
  <2> QED
    BY <2>7 DEF next
<1>5. CASE ~Full(acc, b)
  <2>1. /\ next.chunks = acc.chunks /\ next.parts = Append(acc.parts, b)
        /\ next.size = acc.size + 2 + BlockSize(b) /\ next.tail = acc.tail
        /\ next \in ChunkAccs
    BY <1>5, PlaceBlockFacts
  <2>2. acc.tail <= OverlapSize /\ BodySize(acc.parts) <= acc.size
        /\ \A c \in DOMAIN acc.chunks : ChunkFits(acc.chunks[c])
    BY DEF Fitting
  <2>3. Len(Append(acc.parts, b)) > 1 => acc.size + 2 + BlockSize(b) <= TargetSize
    <3>1. Len(Append(acc.parts, b)) = Len(acc.parts) + 1 /\ (acc.parts = <<>> => Len(acc.parts) = 0)
      BY <1>1
    <3> QED
      BY <1>1, <1>2, <1>5, <3>1 DEF Full
  <2>4. BodySize(Append(acc.parts, b)) <= acc.size + 2 + BlockSize(b)
    BY <1>1, <1>2, <2>2
  <2> HIDE DEF next
  <2> QED
    BY <2>1, <2>2, <2>3, <2>4 DEF Fitting, next
<1> QED
  BY <1>4, <1>5

(* A section's blocks, one after another.                                  *)
Placing(acc, s) == OverBlocks!Result([acc EXCEPT !.path = s.path], s.blocks)

LEMMA PlaceSectionIs ==
  ASSUME NEW acc, NEW s
  PROVE  PlaceSection(acc, s) = Emit(Placing(acc, s))
BY DEF PlaceSection, Placing, OverBlocks!Result, FoldLeft, OverBlocks!FoldLeft,
       MapThenFoldSet, OverBlocks!MapThenFoldSet, Max, OverBlocks!Max

LEMMA NewPath ==
  ASSUME NEW acc \in Fitting, NEW s \in SectionsOf, NEW base, base = [acc EXCEPT !.path = s.path]
  PROVE  /\ base \in Fitting /\ base.chunks = acc.chunks /\ base.parts = acc.parts
         /\ base.path = s.path /\ base.tailLines = acc.tailLines
<1>1. acc \in ChunkAccs /\ s.path \in Seq(D)
  BY DEF Fitting, SectionsOf
<1>2. /\ base.chunks = acc.chunks /\ base.tail = acc.tail /\ base.parts = acc.parts
      /\ base.size = acc.size /\ base.path = s.path /\ base \in ChunkAccs
      /\ base.tailLines = acc.tailLines
  BY <1>1 DEF ChunkAccs
<1> QED
  BY <1>2 DEF Fitting

LEMMA PlaceSectionFits ==
  ASSUME text \in Seq(Lines), ChunkerAssumption, NEW acc \in Fitting, NEW s \in SectionsOf
  PROVE  Placing(acc, s) \in Fitting /\ PlaceSection(acc, s) \in Fitting
<1> DEFINE base == [acc EXCEPT !.path = s.path]
<1>1. base \in Fitting
  BY NewPath
<1>2. s.blocks \in Seq(Seq(D))
  BY DEF SectionsOf
<1> HIDE DEF base
<1>3. OverBlocks!Closed(Fitting, Seq(D))
  BY PlaceBlockFits DEF OverBlocks!Closed
<1>4. OverBlocks!Result(base, s.blocks) \in Fitting
  BY <1>1, <1>2, <1>3, OverBlocks!FoldTyped, Zenon
<1>5. Placing(acc, s) \in Fitting
  BY <1>4 DEF Placing, base
<1> QED
  BY <1>5, PlaceSectionIs, EmitFits

Chunked == OverSections!Result(NoChunks, Sections)

LEMMA ChunkedIs ==
  ChunksOfText = IF Sections = <<>>
                 THEN <<[path |-> <<>>, parts |-> <<Numbers>>, over |-> {},
                         size |-> BlockSize(Numbers)]>>
                 ELSE Chunked.chunks
BY DEF ChunksOfText, Chunked, OverSections!Result, FoldLeft, OverSections!FoldLeft,
       MapThenFoldSet, OverSections!MapThenFoldSet, Max, OverSections!Max

LEMMA NoChunksFit ==
  ASSUME text \in Seq(Lines), ChunkerAssumption
  PROVE  NoChunks \in Fitting
<1>1. NoChunks \in ChunkAccs
  BY DEF NoChunks, ChunkAccs
<1>2. BodySize(<<>>) = -2
  <2>1. <<>> \in Seq(Seq(D)) /\ <<>> \in Seq(D)
    OBVIOUS
  <2> QED
    BY <2>1, BodySizeFacts
<1>3. /\ NoChunks.tail = 0 /\ NoChunks.chunks = <<>> /\ NoChunks.parts = <<>>
      /\ NoChunks.size = 0 /\ Len(<<>>) = 0 /\ DOMAIN <<>> = {}
  BY DEF NoChunks
<1>4. OverlapSize \in Nat
  BY DEF ChunkerAssumption
<1> HIDE DEF NoChunks
<1> QED
  BY <1>1, <1>2, <1>3, <1>4 DEF Fitting

(* Whatever the text, the stored text of a chunk of several blocks is no   *)
(* longer than target_size, but for the tail of the chunk before it, its   *)
(* mark, and the heading path in front.                                    *)
THEOREM ChunksNeverTooLong ==
  text \in Seq(Lines) => ChunksFit
<1> SUFFICES ASSUME text \in Seq(Lines) PROVE ChunksFit
  OBVIOUS
<1>1. ChunkerAssumption
  BY ChunkerAssumption
<1>2. Sections \in Seq(SectionsOf)
  BY <1>1, TextFacts, SectionsTyped
<1>3. OverSections!Closed(Fitting, SectionsOf)
  BY <1>1, PlaceSectionFits DEF OverSections!Closed
<1>4. Chunked \in Fitting
  <2>1. NoChunks \in Fitting
    BY <1>1, NoChunksFit
  <2>2. OverSections!Result(NoChunks, Sections) \in Fitting
    BY <1>2, <1>3, <2>1, OverSections!FoldTyped, Zenon
  <2> QED
    BY <2>2 DEF Chunked
<1>5. ASSUME Sections # <<>>, NEW c \in DOMAIN ChunksOfText
      PROVE  ChunkFits(ChunksOfText[c])
  <2>1. ChunksOfText = Chunked.chunks
    BY <1>5, ChunkedIs
  <2> QED
    BY <1>4, <1>5, <2>1 DEF Fitting
<1> QED
  BY <1>5 DEF ChunksFit, ChunkFits

-----------------------------------------------------------------------------
(***************************************************************************)
(* Where lines are: blocks and sections in order, each under its headings. *)
(***************************************************************************)
Below(A, B) == \A x \in A, y \in B : x < y
Tells(S) == \E i \in S : Kind(i) # "blank"

(* Blocks of lines in their order, all under the headings of path.         *)
UnderPath(path, parts) ==
    /\ \A b \in DOMAIN parts : Increasing(parts[b])
    /\ \A a, b \in DOMAIN parts : a < b => Below(Range(parts[a]), Range(parts[b]))
    /\ \A i \in LinesIn(parts) : IsPathOf(path, i)

LinesOf(ss) == UNION {LinesIn(ss[t].blocks) : t \in DOMAIN ss}
Laid(ss) ==
    /\ \A t \in DOMAIN ss : UnderPath(ss[t].path, ss[t].blocks)
    /\ \A t \in DOMAIN ss : Tells(LinesIn(ss[t].blocks))
    /\ \A t, u \in DOMAIN ss : t < u => Below(LinesIn(ss[t].blocks), LinesIn(ss[u].blocks))

LEMMA InLines ==
  ASSUME NEW parts, NEW i
  PROVE  i \in LinesIn(parts) <=> \E b \in DOMAIN parts : i \in Range(parts[b])
BY DEF LinesIn

LEMMA InSections ==
  ASSUME NEW ss, NEW i
  PROVE  i \in LinesOf(ss) <=> \E t \in DOMAIN ss : i \in LinesIn(ss[t].blocks)
BY DEF LinesOf

LEMMA AppendIs ==
  ASSUME NEW S, NEW s \in Seq(S), NEW x \in S
  PROVE  /\ Append(s, x) \in Seq(S) /\ Len(s) \in Nat /\ DOMAIN s = 1..Len(s)
         /\ DOMAIN Append(s, x) = 1..(Len(s) + 1)
         /\ \A i \in 1..Len(s) : Append(s, x)[i] = s[i]
         /\ Append(s, x)[Len(s) + 1] = x
         /\ Append(s, x) # <<>>
OBVIOUS

LEMMA RangeOfAppend ==
  ASSUME NEW S, NEW s \in Seq(S), NEW x \in S
  PROVE  Range(Append(s, x)) = Range(s) \cup {x}
<1> DEFINE t == Append(s, x)
           n == Len(s)
<1>1. /\ n \in Nat /\ DOMAIN s = 1..n /\ DOMAIN t = 1..(n + 1)
      /\ (\A i \in 1..n : t[i] = s[i]) /\ t[n + 1] = x
  BY AppendIs
<1> HIDE DEF t, n
<1>2. ASSUME NEW y \in Range(t) PROVE y \in Range(s) \cup {x}
  <2>1. PICK i \in 1..(n + 1) : t[i] = y
    BY <1>1 DEF Range
  <2>2. i = n + 1 \/ i \in 1..n
    BY <1>1
  <2> QED
    BY <1>1, <2>1, <2>2 DEF Range
<1>3. ASSUME NEW y \in Range(s) PROVE y \in Range(t)
  <2>1. PICK i \in 1..n : s[i] = y
    BY <1>1 DEF Range
  <2>2. i \in 1..(n + 1)
    BY <1>1
  <2> QED
    BY <1>1, <2>1, <2>2 DEF Range
<1>4. x \in Range(t)
  <2>1. n + 1 \in 1..(n + 1)
    BY <1>1
  <2> QED
    BY <1>1, <2>1 DEF Range
<1> QED
  BY <1>2, <1>3, <1>4 DEF t

LEMMA LinesOfAppend ==
  ASSUME NEW parts \in Seq(Seq(D)), NEW b \in Seq(D)
  PROVE  LinesIn(Append(parts, b)) = LinesIn(parts) \cup Range(b)
<1> DEFINE t == Append(parts, b)
           n == Len(parts)
<1>1. /\ n \in Nat /\ DOMAIN parts = 1..n /\ DOMAIN t = 1..(n + 1)
      /\ (\A i \in 1..n : t[i] = parts[i]) /\ t[n + 1] = b
  BY AppendIs
<1> HIDE DEF t, n
<1>2. ASSUME NEW y \in LinesIn(t) PROVE y \in LinesIn(parts) \cup Range(b)
  <2>1. PICK i \in 1..(n + 1) : y \in Range(t[i])
    BY <1>1, InLines
  <2>2. i = n + 1 \/ i \in 1..n
    BY <1>1
  <2> QED
    BY <1>1, <2>1, <2>2, InLines
<1>3. ASSUME NEW y \in LinesIn(parts) PROVE y \in LinesIn(t)
  <2>1. PICK i \in 1..n : y \in Range(parts[i])
    BY <1>1, InLines
  <2>2. i \in 1..(n + 1)
    BY <1>1
  <2> QED
    BY <1>1, <2>1, <2>2, InLines
<1>4. ASSUME NEW y \in Range(b) PROVE y \in LinesIn(t)
  <2>1. n + 1 \in 1..(n + 1)
    BY <1>1
  <2> QED
    BY <1>1, <2>1, InLines
<1> QED
  BY <1>2, <1>3, <1>4 DEF t

(* A block after the others, under the same headings.                      *)
LEMMA PathGrows ==
  ASSUME NEW parts \in Seq(Seq(D)), NEW b \in Seq(D), NEW path, UnderPath(path, parts),
         Increasing(b), Below(LinesIn(parts), Range(b)),
         \A i \in Range(b) : IsPathOf(path, i)
  PROVE  UnderPath(path, Append(parts, b))
<1> DEFINE t == Append(parts, b)
           n == Len(parts)
<1>1. /\ n \in Nat /\ DOMAIN parts = 1..n /\ DOMAIN t = 1..(n + 1)
      /\ (\A i \in 1..n : t[i] = parts[i]) /\ t[n + 1] = b
  BY AppendIs
<1>2. LinesIn(t) = LinesIn(parts) \cup Range(b)
  BY LinesOfAppend
<1> HIDE DEF t, n
<1>3. \A i \in 1..(n + 1) : Increasing(t[i])
  <2>1. TAKE i \in 1..(n + 1)
  <2>2. i = n + 1 \/ i \in 1..n
    BY <1>1
  <2> QED
    BY <1>1, <2>2 DEF UnderPath
<1>4. ASSUME NEW i \in 1..(n + 1), NEW j \in 1..(n + 1), i < j
      PROVE  Below(Range(t[i]), Range(t[j]))
  <2>1. i \in 1..n
    BY <1>1, <1>4
  <2>2. CASE j \in 1..n
    BY <1>1, <1>4, <2>1, <2>2 DEF UnderPath
  <2>3. CASE j = n + 1
    <3>1. \A x \in Range(parts[i]) : x \in LinesIn(parts)
      BY <1>1, <2>1, InLines
    <3> QED
      BY <1>1, <2>1, <2>3, <3>1 DEF Below
  <2> QED
    BY <1>1, <2>2, <2>3
<1>5. \A i \in LinesIn(t) : IsPathOf(path, i)
  BY <1>2 DEF UnderPath
<1>6. UnderPath(path, t)
  BY <1>1, <1>3, <1>4, <1>5 DEF UnderPath
<1> QED
  BY <1>6 DEF t

LEMMA NothingUnder ==
  ASSUME NEW path
  PROVE  UnderPath(path, <<>>) /\ LinesIn(<<>>) = {} /\ Range(<<>>) = {}
<1>1. DOMAIN <<>> = {}
  OBVIOUS
<1>2. LinesIn(<<>>) = {}
  BY <1>1 DEF LinesIn
<1>3. Range(<<>>) = {}
  BY <1>1 DEF Range
<1> QED
  BY <1>1, <1>2, <1>3 DEF UnderPath

LEMMA SectionsGrow ==
  ASSUME NEW ss \in Seq(SectionsOf), NEW s \in SectionsOf
  PROVE  LinesOf(Append(ss, s)) = LinesOf(ss) \cup LinesIn(s.blocks)
<1> DEFINE t == Append(ss, s)
           n == Len(ss)
<1>1. /\ n \in Nat /\ DOMAIN ss = 1..n /\ DOMAIN t = 1..(n + 1)
      /\ (\A i \in 1..n : t[i] = ss[i]) /\ t[n + 1] = s
  BY AppendIs
<1> HIDE DEF t, n
<1>2. ASSUME NEW y \in LinesOf(t) PROVE y \in LinesOf(ss) \cup LinesIn(s.blocks)
  <2>1. PICK i \in 1..(n + 1) : y \in LinesIn(t[i].blocks)
    BY <1>1, InSections
  <2>2. i = n + 1 \/ i \in 1..n
    BY <1>1
  <2> QED
    BY <1>1, <2>1, <2>2, InSections
<1>3. ASSUME NEW y \in LinesOf(ss) PROVE y \in LinesOf(t)
  <2>1. PICK i \in 1..n : y \in LinesIn(ss[i].blocks)
    BY <1>1, InSections
  <2>2. i \in 1..(n + 1)
    BY <1>1
  <2> QED
    BY <1>1, <2>1, <2>2, InSections
<1>4. ASSUME NEW y \in LinesIn(s.blocks) PROVE y \in LinesOf(t)
  <2>1. n + 1 \in 1..(n + 1)
    BY <1>1
  <2> QED
    BY <1>1, <2>1, InSections
<1> QED
  BY <1>2, <1>3, <1>4 DEF t

LEMMA LaidGrows ==
  ASSUME NEW ss \in Seq(SectionsOf), NEW s \in SectionsOf, Laid(ss),
         UnderPath(s.path, s.blocks), Tells(LinesIn(s.blocks)),
         Below(LinesOf(ss), LinesIn(s.blocks))
  PROVE  Laid(Append(ss, s))
<1> DEFINE t == Append(ss, s)
           n == Len(ss)
<1>1. /\ n \in Nat /\ DOMAIN ss = 1..n /\ DOMAIN t = 1..(n + 1)
      /\ (\A i \in 1..n : t[i] = ss[i]) /\ t[n + 1] = s
  BY AppendIs
<1> HIDE DEF t, n
<1>2. \A i \in 1..(n + 1) : UnderPath(t[i].path, t[i].blocks) /\ Tells(LinesIn(t[i].blocks))
  <2>1. TAKE i \in 1..(n + 1)
  <2>2. i = n + 1 \/ i \in 1..n
    BY <1>1
  <2> QED
    BY <1>1, <2>2 DEF Laid
<1>3. ASSUME NEW i \in 1..(n + 1), NEW j \in 1..(n + 1), i < j
      PROVE  Below(LinesIn(t[i].blocks), LinesIn(t[j].blocks))
  <2>1. i \in 1..n
    BY <1>1, <1>3
  <2>2. CASE j \in 1..n
    BY <1>1, <1>3, <2>1, <2>2 DEF Laid
  <2>3. CASE j = n + 1
    <3>1. \A x \in LinesIn(ss[i].blocks) : x \in LinesOf(ss)
      BY <1>1, <2>1, InSections
    <3> QED
      BY <1>1, <2>1, <2>3, <3>1 DEF Below
  <2> QED
    BY <1>1, <2>2, <2>3
<1>4. Laid(t)
  BY <1>1, <1>2, <1>3 DEF Laid
<1> QED
  BY <1>4 DEF t

(* What a parse state holds, and in which order.                           *)
Held(st) == LinesOf(st.sections) \cup LinesIn(st.blocks) \cup Range(st.lines)
Tidy(st) ==
    /\ Laid(st.sections)
    /\ UnderPath(st.stack, st.blocks)
    /\ st.blocks # <<>> => Tells(LinesIn(st.blocks))
    /\ Increasing(st.lines)
    /\ \A i \in Range(st.lines) : IsPathOf(st.stack, i)
    /\ st.lines # <<>> => Kind(st.lines[1]) # "blank"
    /\ Below(LinesOf(st.sections), LinesIn(st.blocks))
    /\ Below(LinesOf(st.sections), Range(st.lines))
    /\ Below(LinesIn(st.blocks), Range(st.lines))

LEMMA StripKeeps ==
  ASSUME NEW lines \in Seq(D), Increasing(lines), NEW b, b = Stripped(lines)
  PROVE  /\ b \in Seq(D) /\ Increasing(b) /\ Range(b) \subseteq Range(lines)
         /\ \A i \in Range(lines) : i \in Range(b) \/ Kind(i) = "blank"
<1>1. b \in Seq(D)
  BY StrippedFacts
<1>2. PICK m \in 0..Len(lines) :
        /\ Len(b) = m /\ \A i \in 1..m : b[i] = lines[i]
        /\ \A i \in (m + 1)..Len(lines) : Kind(lines[i]) = "blank"
  BY StrippedFacts
<1>3. /\ Len(lines) \in Nat /\ DOMAIN lines = 1..Len(lines) /\ DOMAIN b = 1..m
      /\ \A i \in 1..m : i \in 1..Len(lines)
  BY <1>1, <1>2
<1>4. Increasing(b)
  BY <1>2, <1>3 DEF Increasing
<1>5. Range(b) \subseteq Range(lines)
  BY <1>2, <1>3 DEF Range
<1>6. ASSUME NEW i \in Range(lines), Kind(i) # "blank" PROVE i \in Range(b)
  <2>1. PICK j \in 1..Len(lines) : lines[j] = i
    BY <1>3 DEF Range
  <2>2. j \in 1..m
    <3>1. j \in 1..m \/ j \in (m + 1)..Len(lines)
      BY <1>3
    <3> QED
      BY <1>2, <1>6, <2>1, <3>1
  <2> QED
    BY <1>2, <1>3, <2>1, <2>2 DEF Range
<1> QED
  BY <1>1, <1>4, <1>5, <1>6

(* The end of a block loses blank lines only.                              *)
LEMMA FlushTidy ==
  ASSUME NEW st \in ParseStates, Tidy(st)
  PROVE  /\ Tidy(Flush(st)) /\ Held(Flush(st)) \subseteq Held(st)
         /\ \A i \in Held(st) : i \in Held(Flush(st)) \/ Kind(i) = "blank"
<1> DEFINE fl == Flush(st)
           b == Stripped(st.lines)
<1>1. /\ st.lines \in Seq(D) /\ st.blocks \in Seq(Seq(D)) /\ st.sections \in Seq(SectionsOf)
  BY DEF ParseStates
<1>2. /\ fl.stack = st.stack /\ fl.sections = st.sections /\ fl.lines = <<>>
      /\ fl.blocks = IF st.lines = <<>> THEN st.blocks ELSE Append(st.blocks, b)
  BY FlushFacts
<1>3. Increasing(st.lines)
  BY DEF Tidy
<1>4. /\ b \in Seq(D) /\ Increasing(b) /\ Range(b) \subseteq Range(st.lines)
      /\ \A i \in Range(st.lines) : i \in Range(b) \/ Kind(i) = "blank"
  BY <1>1, <1>3, StripKeeps
<1> HIDE DEF fl, b
<1>5. Range(<<>>) = {} /\ Increasing(<<>>) /\ \A S : Below(S, {})
  BY NothingUnder DEF Increasing, Below
<1>6. CASE st.lines = <<>>
  <2>1. Held(fl) = Held(st)
    BY <1>2, <1>6 DEF Held
  <2>2. Tidy(fl)
    BY <1>2, <1>6 DEF Tidy
  <2> QED
    BY <2>1, <2>2 DEF fl
<1>7. CASE st.lines # <<>>
  <2>1. fl.blocks = Append(st.blocks, b)
    BY <1>2, <1>7
  <2>2. LinesIn(fl.blocks) = LinesIn(st.blocks) \cup Range(b)
    BY <1>1, <1>4, <2>1, LinesOfAppend
  <2>3. Held(fl) = LinesOf(st.sections) \cup LinesIn(st.blocks) \cup Range(b)
    BY <1>2, <1>5, <2>2 DEF Held
  <2>4. UnderPath(fl.stack, fl.blocks)
    <3>1. Below(LinesIn(st.blocks), Range(b)) /\ \A i \in Range(b) : IsPathOf(st.stack, i)
      BY <1>4 DEF Tidy, Below
    <3>2. UnderPath(st.stack, st.blocks)
      BY DEF Tidy
    <3> QED
      BY <1>1, <1>2, <1>4, <2>1, <3>1, <3>2, PathGrows
  <2>5. Tells(LinesIn(fl.blocks))
    <3>1. Kind(st.lines[1]) # "blank" /\ st.lines[1] \in Range(st.lines)
      <4>1. 1 \in DOMAIN st.lines
        BY <1>1, <1>7
      <4> QED
        BY <1>7, <4>1 DEF Tidy, Range
    <3> QED
      BY <1>4, <2>2, <3>1 DEF Tells
  <2>6. Below(LinesOf(fl.sections), LinesIn(fl.blocks))
    BY <1>2, <1>4, <2>2 DEF Tidy, Below
  <2>7. Laid(fl.sections)
    BY <1>2 DEF Tidy
  <2>8. \A i \in Range(fl.lines) : IsPathOf(fl.stack, i)
    BY <1>2, <1>5
  <2>9. Tidy(fl)
    BY <1>2, <1>5, <2>4, <2>5, <2>6, <2>7, <2>8 DEF Tidy
  <2>10. Held(fl) \subseteq Held(st) /\ \A i \in Held(st) : i \in Held(fl) \/ Kind(i) = "blank"
    BY <1>4, <2>3 DEF Held
  <2> QED
    BY <2>9, <2>10 DEF fl
<1> QED
  BY <1>6, <1>7

(* A section saved loses nothing.                                          *)
LEMMA SaveTidy ==
  ASSUME NEW st \in ParseStates, Tidy(st), st.lines = <<>>
  PROVE  Tidy(SaveSection(st)) /\ Held(SaveSection(st)) = Held(st)
<1> DEFINE sv == SaveSection(st)
           s == [path |-> st.stack, blocks |-> st.blocks]
<1>1. st.blocks \in Seq(Seq(D)) /\ st.sections \in Seq(SectionsOf) /\ s \in SectionsOf
  BY DEF ParseStates, SectionsOf
<1>2. /\ sv.stack = st.stack /\ sv.lines = <<>> /\ sv.blocks = <<>>
      /\ sv.sections = IF st.blocks = <<>> THEN st.sections ELSE Append(st.sections, s)
  BY SaveFacts
<1>3. s.path = st.stack /\ s.blocks = st.blocks
  OBVIOUS
<1> HIDE DEF sv, s
<1>4. /\ LinesIn(<<>>) = {} /\ Range(<<>>) = {} /\ UnderPath(st.stack, <<>>)
      /\ \A S : Below(S, {})
  BY NothingUnder DEF Below
<1>5. CASE st.blocks = <<>>
  <2>1. Held(sv) = Held(st) /\ Tidy(sv)
    BY <1>2, <1>5 DEF Held, Tidy
  <2> QED
    BY <2>1 DEF sv
<1>6. CASE st.blocks # <<>>
  <2>1. sv.sections = Append(st.sections, s)
    BY <1>2, <1>6
  <2>2. LinesOf(sv.sections) = LinesOf(st.sections) \cup LinesIn(st.blocks)
    BY <1>1, <1>3, <2>1, SectionsGrow
  <2>3. Held(sv) = Held(st)
    BY <1>2, <1>4, <2>2 DEF Held
  <2>4. Laid(sv.sections)
    <3>1. /\ Laid(st.sections) /\ UnderPath(s.path, s.blocks) /\ Tells(LinesIn(s.blocks))
          /\ Below(LinesOf(st.sections), LinesIn(s.blocks))
      BY <1>3, <1>6 DEF Tidy
    <3> QED
      BY <1>1, <2>1, <3>1, LaidGrows
  <2>5. Increasing(<<>>)
    BY DEF Increasing
  <2>6. Tidy(sv)
    BY <1>2, <1>4, <2>4, <2>5 DEF Tidy
  <2> QED
    BY <2>3, <2>6 DEF sv
<1> QED
  BY <1>5, <1>6

(* A line taken comes after all that is held, under the same headings.     *)
LEMMA TakeTidy ==
  ASSUME NEW st \in ParseStates, NEW i \in D, Tidy(st), Below(Held(st), {i}),
         IsPathOf(st.stack, i), st.lines = <<>> => Kind(i) # "blank"
  PROVE  Tidy(Take(st, i)) /\ Held(Take(st, i)) = Held(st) \cup {i}
<1> DEFINE tk == Take(st, i)
           n == Len(st.lines)
<1>1. st.lines \in Seq(D)
  BY DEF ParseStates
<1>2. /\ tk.stack = st.stack /\ tk.sections = st.sections /\ tk.blocks = st.blocks
      /\ tk.lines = Append(st.lines, i)
  BY TakeFacts
<1>3. /\ n \in Nat /\ DOMAIN st.lines = 1..n /\ DOMAIN tk.lines = 1..(n + 1)
      /\ (\A j \in 1..n : tk.lines[j] = st.lines[j]) /\ tk.lines[n + 1] = i
      /\ st.lines = <<>> => n = 0
      /\ n = 0 => st.lines = <<>>
  BY <1>1, <1>2, AppendIs
<1>4. Range(tk.lines) = Range(st.lines) \cup {i}
  BY <1>1, <1>2, RangeOfAppend
<1> HIDE DEF tk, n
<1>5. Held(tk) = Held(st) \cup {i}
  BY <1>2, <1>4 DEF Held
<1>6. Increasing(tk.lines)
  <2>1. SUFFICES ASSUME NEW j \in 1..(n + 1), NEW k \in 1..(n + 1), j < k
                 PROVE  tk.lines[j] < tk.lines[k]
    BY <1>3 DEF Increasing
  <2>2. j \in 1..n /\ (k \in 1..n \/ k = n + 1)
    BY <1>3, <2>1
  <2>3. CASE k \in 1..n
    BY <1>3, <2>1, <2>2, <2>3 DEF Tidy, Increasing
  <2>4. CASE k = n + 1
    <3>1. st.lines[j] \in Held(st)
      BY <1>3, <2>2 DEF Held, Range
    <3> QED
      BY <1>3, <2>2, <2>4, <3>1 DEF Below
  <2> QED
    BY <2>2, <2>3, <2>4
<1>7. Kind(tk.lines[1]) # "blank"
  <2>1. CASE n = 0
    BY <1>3, <2>1
  <2>2. CASE n # 0
    <3>1. 1 \in 1..n /\ st.lines # <<>>
      BY <1>3, <2>2
    <3> QED
      BY <1>3, <3>1 DEF Tidy
  <2> QED
    BY <2>1, <2>2
<1>8. /\ Below(LinesOf(tk.sections), Range(tk.lines)) /\ Below(LinesIn(tk.blocks), Range(tk.lines))
  BY <1>2, <1>4 DEF Tidy, Below, Held
<1>9. \A j \in Range(tk.lines) : IsPathOf(tk.stack, j)
  BY <1>2, <1>4 DEF Tidy
<1>10. /\ Laid(tk.sections) /\ UnderPath(tk.stack, tk.blocks)
       /\ tk.blocks # <<>> => Tells(LinesIn(tk.blocks))
       /\ Below(LinesOf(tk.sections), LinesIn(tk.blocks))
  BY <1>2 DEF Tidy
<1>11. Tidy(tk)
  BY <1>6, <1>7, <1>8, <1>9, <1>10 DEF Tidy
<1> QED
  BY <1>5, <1>11 DEF tk

(* The flag and, between sections, the stack say nothing of what is held.  *)
LEMMA FlagTidy ==
  ASSUME NEW st \in ParseStates, Tidy(st), NEW x \in BOOLEAN, NEW u, u = [st EXCEPT !.fenced = x]
  PROVE  /\ u \in ParseStates /\ Tidy(u) /\ Held(u) = Held(st)
         /\ u.fenced = x /\ u.stack = st.stack /\ u.lines = st.lines
<1>1. /\ u.fenced = x /\ u.stack = st.stack /\ u.lines = st.lines
      /\ u.sections = st.sections /\ u.blocks = st.blocks /\ u \in ParseStates
  BY DEF ParseStates
<1> QED
  BY <1>1 DEF Tidy, Held

LEMMA StackTidy ==
  ASSUME NEW st \in ParseStates, Tidy(st), st.lines = <<>>, st.blocks = <<>>,
         NEW x \in Seq(D), NEW u, u = [st EXCEPT !.stack = x]
  PROVE  /\ u \in ParseStates /\ Tidy(u) /\ Held(u) = Held(st)
         /\ u.fenced = st.fenced /\ u.stack = x /\ u.lines = <<>>
<1>1. /\ u.fenced = st.fenced /\ u.stack = x /\ u.lines = st.lines
      /\ u.sections = st.sections /\ u.blocks = st.blocks /\ u \in ParseStates
  BY DEF ParseStates
<1>2. UnderPath(x, <<>>) /\ Range(<<>>) = {}
  BY NothingUnder
<1>3. Held(u) = Held(st)
  BY <1>1 DEF Held
<1>4. Tidy(u)
  BY <1>1, <1>2 DEF Tidy
<1> QED
  BY <1>1, <1>3, <1>4

-----------------------------------------------------------------------------
(***************************************************************************)
(* The reference definitions, from one line to the next.                   *)
(***************************************************************************)
LEMMA FencedNext ==
  ASSUME NEW k \in Nat \ {0}
  PROVE  Fenced(k + 1) <=> IF Kind(k) = "fence" THEN ~Fenced(k) ELSE Fenced(k)
<1> DEFINE F(j) == {i \in 1..(j - 1) : Kind(i) = "fence"}
<1>1. \A j : Fenced(j) <=> Cardinality(F(j)) % 2 = 1
  BY DEF Fenced
<1>2. F(k + 1) = IF Kind(k) = "fence" THEN F(k) \cup {k} ELSE F(k)
  <2>1. (k + 1) - 1 = k /\ \A i : i \in 1..k <=> i \in 1..(k - 1) \/ i = k
    OBVIOUS
  <2> QED
    BY <2>1
<1>3. k \notin F(k)
  OBVIOUS
<1>4. IsFiniteSet(F(k)) /\ Cardinality(F(k)) \in Nat
  <2>1. IsFiniteSet(1..(k - 1))
    BY FS_Interval
  <2>2. F(k) \subseteq 1..(k - 1)
    OBVIOUS
  <2>3. IsFiniteSet(F(k))
    BY <2>1, <2>2, FS_Subset
  <2> QED
    BY <2>3, FS_CardinalityType
<1> HIDE DEF F
<1>5. Cardinality(F(k) \cup {k}) = Cardinality(F(k)) + 1
  BY <1>3, <1>4, FS_AddElement
<1>6. \A n \in Nat : (n + 1) % 2 = 1 <=> ~ (n % 2 = 1)
  OBVIOUS
<1> QED
  BY <1>1, <1>2, <1>4, <1>5, <1>6

(* A heading leaves of those before it the ones at a higher level.         *)
LEMMA HeadingsNext ==
  ASSUME NEW k \in Nat \ {0}, \A j \in 1..k : Level(j) \in Int
  PROVE  HeadingsOf(k + 1) = IF IsHeading(k)
                             THEN {j \in HeadingsOf(k) : Level(j) < Level(k)} \cup {k}
                             ELSE HeadingsOf(k)
<1> DEFINE Open(j, n) == /\ IsHeading(j)
                         /\ \A l \in (j + 1)..(n - 1) : IsHeading(l) => Level(l) > Level(j)
<1>1. \A j, n : j \in HeadingsOf(n) <=> j \in 1..(n - 1) /\ Open(j, n)
  BY DEF HeadingsOf
<1>2. (k + 1) - 1 = k /\ \A i : i \in 1..k <=> i \in 1..(k - 1) \/ i = k
  OBVIOUS
<1>3. ASSUME NEW j \in 1..(k - 1)
      PROVE  Open(j, k + 1) <=> Open(j, k) /\ (IsHeading(k) => Level(k) > Level(j))
  <2>1. \A l : l \in (j + 1)..((k + 1) - 1) <=> l \in (j + 1)..(k - 1) \/ l = k
    BY <1>3
  <2> QED
    BY <2>1
<1>4. Open(k, k + 1) <=> IsHeading(k)
  <2>1. (k + 1)..((k + 1) - 1) = {}
    OBVIOUS
  <2> QED
    BY <2>1
<1>5. ~ (k \in 1..(k - 1)) /\ k \in 1..k
  OBVIOUS
<1> HIDE DEF Open
<1>6. \A j : j \in HeadingsOf(k + 1) <=>
         \/ j \in HeadingsOf(k) /\ (IsHeading(k) => Level(k) > Level(j))
         \/ j = k /\ IsHeading(k)
  BY <1>1, <1>2, <1>3, <1>4, <1>5
<1>7. \A j \in HeadingsOf(k) : Level(k) > Level(j) <=> Level(j) < Level(k)
  <2>1. \A j \in HeadingsOf(k) : j \in 1..k
    BY <1>1, <1>2
  <2> QED
    BY <1>5, <2>1
<1> QED
  BY <1>6, <1>7

(* The levels of the headings above a line grow from one to the next.      *)
LEMMA LevelsGrow ==
  ASSUME NEW k \in Nat, NEW path, IsPathOf(path, k)
  PROVE  \A i, j \in DOMAIN path : i < j => Level(path[j]) > Level(path[i])
<1> SUFFICES ASSUME NEW i \in DOMAIN path, NEW j \in DOMAIN path, i < j
             PROVE  Level(path[j]) > Level(path[i])
  OBVIOUS
<1>1. path[i] < path[j]
  BY DEF IsPathOf, Increasing
<1>2. path[i] \in HeadingsOf(k) /\ path[j] \in HeadingsOf(k)
  BY DEF IsPathOf, Range
<1>3. /\ path[i] \in 1..(k - 1) /\ path[j] \in 1..(k - 1) /\ IsHeading(path[j])
      /\ \A l \in (path[i] + 1)..(k - 1) : IsHeading(l) => Level(l) > Level(path[i])
  BY <1>2 DEF HeadingsOf
<1>4. path[j] \in (path[i] + 1)..(k - 1)
  BY <1>1, <1>3
<1> QED
  BY <1>3, <1>4

(* The stack after a heading is the headings of the line after it.         *)
LEMMA StackIsPath ==
  ASSUME text \in Seq(Lines), ChunkerAssumption, NEW st \in ParseStates, NEW k \in D,
         IsPathOf(st.stack, k), IsHeading(k)
  PROVE  IsPathOf(Append(SubSeq(st.stack, 1, Outer(st, k)), k), k + 1)
<1> DEFINE s == st.stack
           m == Outer(st, k)
           p == SubSeq(s, 1, m)
           q == Append(p, k)
<1>1. s \in Seq(D) /\ Len(s) \in Nat /\ DOMAIN s = 1..Len(s)
  BY DEF ParseStates
<1>2. /\ m \in 0..Len(s) /\ (m # 0 => Level(s[m]) < Level(k))
      /\ \A j \in (m + 1)..Len(s) : ~ (Level(s[j]) < Level(k))
  BY OuterFacts
<1>3. p \in Seq(D) /\ Len(p) = m /\ \A i \in 1..m : p[i] = s[i]
  BY <1>1, <1>2, Prefix
<1>4. /\ DOMAIN q = 1..(m + 1) /\ (\A i \in 1..m : q[i] = s[i]) /\ q[m + 1] = k
  BY <1>1, <1>2, <1>3, AppendIs
<1>5. /\ k \in Nat \ {0} /\ \A j \in 1..k : j \in D /\ Level(j) \in Int
  <2>1. Len(text) \in Nat /\ D = 1..Len(text) /\ \A i \in D : Level(i) \in 1..6
    BY TextFacts
  <2> QED
    BY <2>1
<1>6. HeadingsOf(k + 1) = {j \in HeadingsOf(k) : Level(j) < Level(k)} \cup {k}
  BY <1>5, HeadingsNext
<1>7. \A i, j \in 1..Len(s) : i < j => Level(s[j]) > Level(s[i])
  BY <1>1, <1>5, LevelsGrow
<1>8. Increasing(s) /\ Range(s) = HeadingsOf(k)
  BY DEF IsPathOf
<1>9. \A i \in 1..Len(s) : s[i] \in HeadingsOf(k) /\ s[i] \in 1..(k - 1) /\ Level(s[i]) \in Int
  <2>1. TAKE i \in 1..Len(s)
  <2>2. s[i] \in HeadingsOf(k)
    BY <1>1, <1>8 DEF Range
  <2>3. s[i] \in 1..(k - 1)
    BY <2>2 DEF HeadingsOf
  <2> QED
    BY <1>5, <2>2, <2>3
<1>10. ASSUME NEW i \in 1..Len(s) PROVE Level(s[i]) < Level(k) <=> i \in 1..m
  <2>1. k \in 1..k
    BY <1>5
  <2>2. CASE i \in 1..m
    <3>1. m # 0 /\ m \in 1..Len(s) /\ i <= m
      BY <1>1, <1>2, <2>2
    <3>2. i = m \/ Level(s[m]) > Level(s[i])
      BY <1>1, <1>7, <3>1
    <3> QED
      BY <1>2, <1>5, <1>9, <2>1, <2>2, <3>1, <3>2
  <2>3. CASE ~ (i \in 1..m)
    <3>1. i \in (m + 1)..Len(s)
      BY <1>1, <1>2, <2>3
    <3> QED
      BY <1>2, <2>3, <3>1
  <2> QED
    BY <2>2, <2>3
<1> HIDE DEF s, m, p, q
<1>11. Increasing(q)
  <2>1. SUFFICES ASSUME NEW i \in 1..(m + 1), NEW j \in 1..(m + 1), i < j PROVE q[i] < q[j]
    BY <1>4 DEF Increasing
  <2>2. i \in 1..m /\ i \in 1..Len(s) /\ (j \in 1..m \/ j = m + 1)
    BY <1>1, <1>2, <2>1
  <2>3. CASE j \in 1..m
    <3>1. j \in 1..Len(s)
      BY <1>1, <1>2, <2>3
    <3> QED
      BY <1>1, <1>4, <1>8, <2>1, <2>2, <2>3, <3>1 DEF Increasing
  <2>4. CASE j = m + 1
    BY <1>4, <1>5, <1>9, <2>2, <2>4
  <2> QED
    BY <2>2, <2>3, <2>4
<1>12. ASSUME NEW x \in Range(q) PROVE x \in HeadingsOf(k + 1)
  <2>1. PICK i \in 1..(m + 1) : q[i] = x
    BY <1>4 DEF Range
  <2>2. CASE i \in 1..m
    <3>1. i \in 1..Len(s)
      BY <1>1, <1>2, <2>2
    <3> QED
      BY <1>4, <1>6, <1>9, <1>10, <2>1, <2>2, <3>1
  <2>3. CASE i = m + 1
    BY <1>4, <1>6, <2>1, <2>3
  <2> QED
    BY <1>1, <1>2, <2>2, <2>3
<1>13. ASSUME NEW x \in HeadingsOf(k + 1) PROVE x \in Range(q)
  <2>1. CASE x = k
    <3>1. m + 1 \in 1..(m + 1)
      BY <1>1, <1>2
    <3> QED
      BY <1>4, <2>1, <3>1 DEF Range
  <2>2. CASE x # k
    <3>1. x \in HeadingsOf(k) /\ Level(x) < Level(k)
      BY <1>6, <2>2
    <3>2. PICK i \in 1..Len(s) : s[i] = x
      BY <1>1, <1>8, <3>1 DEF Range
    <3>3. i \in 1..m
      BY <1>10, <3>1, <3>2
    <3>4. i \in 1..(m + 1)
      BY <1>1, <1>2, <3>3
    <3> QED
      BY <1>4, <3>2, <3>3, <3>4 DEF Range
  <2> QED
    BY <2>1, <2>2
<1>14. IsPathOf(q, k + 1)
  BY <1>11, <1>12, <1>13 DEF IsPathOf
<1> QED
  BY <1>14 DEF q, p, m, s

(* After k lines a parse state holds those that are shown, perhaps blank   *)
(* ones, and no heading; its stack and its fence are those of the next.    *)
Read(st, k) ==
    /\ Tidy(st)
    /\ Held(st) \subseteq 1..k
    /\ \A i \in 1..k : Shown(i) => i \in Held(st)
    /\ \A i \in Held(st) : ~IsHeading(i)
    /\ st.fenced <=> Fenced(k + 1)
    /\ st.fenced => st.lines # <<>>
    /\ IsPathOf(st.stack, k + 1)

(* What one line may change of what is held.                               *)
Adds(st, u, i) ==
    /\ Tidy(u)
    /\ Held(u) \subseteq Held(st) \cup {i}
    /\ i \in Held(u) => ~IsHeading(i)
    /\ Shown(i) => i \in Held(u)
    /\ \A j \in Held(st) : j \in Held(u) \/ Kind(j) = "blank"

Expects(u, k) ==
    /\ u.fenced <=> Fenced(k + 1)
    /\ u.fenced => u.lines # <<>>
    /\ IsPathOf(u.stack, k + 1)

LEMMA AddsOne ==
  ASSUME NEW k \in Nat \ {0}, NEW st, Read(st, k - 1), NEW u, Adds(st, u, k), Expects(u, k)
  PROVE  Read(u, k)
<1>1. \A i : i \in 1..k <=> i \in 1..(k - 1) \/ i = k
  OBVIOUS
<1>2. Held(u) \subseteq 1..k /\ \A i \in Held(u) : ~IsHeading(i)
  BY <1>1 DEF Adds, Read
<1>3. ASSUME NEW i \in 1..k, Shown(i) PROVE i \in Held(u)
  <2>1. CASE i = k
    BY <1>3, <2>1 DEF Adds
  <2>2. CASE i # k
    <3>1. i \in Held(st) /\ Kind(i) # "blank"
      BY <1>1, <1>3, <2>2 DEF Read, Shown
    <3> QED
      BY <3>1 DEF Adds
  <2> QED
    BY <2>1, <2>2
<1> QED
  BY <1>2, <1>3, Zenon DEF Adds, Expects, Read

(* Each kind of line, in a fence and out of it.                            *)
LEMMA ReadNext ==
  ASSUME text \in Seq(Lines), ChunkerAssumption, NEW k \in D,
         NEW st \in ParseStates, Read(st, k - 1)
  PROVE  Read(ParseLine(st, k), k)
<1> DEFINE u == ParseLine(st, k)
<1>1. k \in Nat \ {0} /\ (k - 1) + 1 = k /\ Kind(k) \in Kinds /\ \A j \in 1..k : Level(j) \in Int
  <2>1. Len(text) \in Nat /\ D = 1..Len(text) /\ \A i \in D : Level(i) \in 1..6 /\ Kind(i) \in Kinds
    BY TextFacts
  <2>2. \A j \in 1..k : j \in D
    BY <2>1
  <2>3. \A j \in 1..k : Level(j) \in Int
    BY <2>1, <2>2
  <2>4. k \in Nat \ {0} /\ (k - 1) + 1 = k
    BY <2>1
  <2>5. Kind(k) \in Kinds
    BY <2>1
  <2> QED
    BY <2>3, <2>4, <2>5
<1>2. Tidy(st) /\ IsPathOf(st.stack, k) /\ (st.fenced <=> Fenced(k))
      /\ (st.fenced => st.lines # <<>>) /\ st.fenced \in BOOLEAN
  BY <1>1 DEF Read, ParseStates
<1>3. Below(Held(st), {k})
  <2>1. \A i \in Held(st) : i \in 1..(k - 1)
    BY DEF Read
  <2> QED
    BY <1>1, <2>1 DEF Below
<1>4. Fenced(k + 1) <=> IF Kind(k) = "fence" THEN ~Fenced(k) ELSE Fenced(k)
  BY <1>1, FencedNext
<1>5. ~IsHeading(k) => IsPathOf(st.stack, k + 1)
  <2>1. ~IsHeading(k) => HeadingsOf(k + 1) = HeadingsOf(k)
    BY <1>1, HeadingsNext
  <2> QED
    BY <1>2, <2>1 DEF IsPathOf
<1>6. IsHeading(k) <=> Kind(k) = "heading" /\ ~st.fenced
  BY <1>2 DEF IsHeading
<1>7. Shown(k) => Kind(k) # "blank"
  BY DEF Shown
<1> DEFINE fl == Flush(st)
           tk == Take(st, k)
<1>8. /\ fl \in ParseStates /\ fl.stack = st.stack /\ fl.fenced = st.fenced /\ fl.lines = <<>>
      /\ Tidy(fl) /\ Held(fl) \subseteq Held(st)
      /\ \A i \in Held(st) : i \in Held(fl) \/ Kind(i) = "blank"
  BY <1>2, FlushFacts, FlushTidy
<1>9. ASSUME ~IsHeading(k), st.lines # <<>> \/ Kind(k) # "blank"
      PROVE  /\ tk \in ParseStates /\ tk.stack = st.stack /\ tk.fenced = st.fenced
             /\ tk.lines # <<>> /\ Tidy(tk) /\ Held(tk) = Held(st) \cup {k}
  <2>1. /\ tk \in ParseStates /\ tk.stack = st.stack /\ tk.fenced = st.fenced
        /\ tk.lines = Append(st.lines, k)
    BY TakeFacts
  <2>2. tk.lines # <<>>
    <3>1. st.lines \in Seq(D)
      BY DEF ParseStates
    <3> QED
      BY <2>1, <3>1, AppendIs
  <2>3. Tidy(tk) /\ Held(tk) = Held(st) \cup {k}
    BY <1>2, <1>3, <1>9, TakeTidy
  <2> QED
    BY <2>1, <2>2, <2>3
<1> HIDE DEF fl, tk, u
<1> SUFFICES Read(u, k)
  BY DEF u
<1>10. ASSUME ~IsHeading(k), st.lines # <<>> \/ Kind(k) # "blank", Kind(k) # "fence", u = tk
       PROVE  Read(u, k)
  <2>1. Adds(st, u, k)
    BY <1>9, <1>10 DEF Adds
  <2>2. Expects(u, k)
    BY <1>2, <1>4, <1>5, <1>9, <1>10, Zenon DEF Expects
  <2> QED
    BY <1>1, <2>1, <2>2, AddsOne, Zenon
<1>11. CASE Kind(k) = "fence" /\ st.fenced
  <2> DEFINE f == Flush(tk)
  <2>1. ~IsHeading(k)
    BY <1>6, <1>11
  <2>2. /\ tk \in ParseStates /\ tk.stack = st.stack /\ Tidy(tk) /\ Held(tk) = Held(st) \cup {k}
    BY <1>9, <1>11, <2>1
  <2>3. /\ f \in ParseStates /\ f.stack = st.stack /\ Tidy(f) /\ Held(f) \subseteq Held(tk)
        /\ \A i \in Held(tk) : i \in Held(f) \/ Kind(i) = "blank"
    BY <2>2, FlushFacts, FlushTidy
  <2>4. u = [f EXCEPT !.fenced = FALSE]
    <3>1. u = Fence(st, k)
      BY <1>11 DEF u, ParseLine
    <3>2. Fence(st, k) = [Flush(Take(st, k)) EXCEPT !.fenced = FALSE]
      BY <1>11 DEF Fence
    <3> QED
      BY <3>1, <3>2 DEF tk
  <2> HIDE DEF f
  <2>5. Tidy(u) /\ Held(u) = Held(f) /\ u.fenced = FALSE /\ u.stack = f.stack
    BY <2>3, <2>4, FlagTidy
  <2>6. Adds(st, u, k)
    BY <1>7, <2>1, <2>2, <2>3, <2>5 DEF Adds
  <2>7. ~Fenced(k + 1) /\ u.stack = st.stack
    BY <1>2, <1>4, <1>11, <2>3, <2>5, Zenon
  <2>8. Expects(u, k)
    BY <1>5, <2>1, <2>5, <2>7, Zenon DEF Expects
  <2> QED
    BY <1>1, <2>6, <2>8, AddsOne, Zenon
<1>12. CASE Kind(k) = "fence" /\ ~st.fenced
  <2> DEFINE t == Take(fl, k)
  <2>1. ~IsHeading(k)
    BY <1>6, <1>12
  <2>2. Below(Held(fl), {k}) /\ IsPathOf(fl.stack, k)
    BY <1>2, <1>3, <1>8 DEF Below
  <2>3. /\ t \in ParseStates /\ t.stack = st.stack /\ t.lines = Append(fl.lines, k)
    BY <1>8, TakeFacts
  <2>4. Tidy(t) /\ Held(t) = Held(fl) \cup {k}
    BY <1>8, <1>12, <2>2, TakeTidy
  <2>5. t.lines # <<>>
    <3>1. Append(<<>>, k) # <<>>
      OBVIOUS
    <3> QED
      BY <1>8, <2>3, <3>1
  <2>6. u = [t EXCEPT !.fenced = TRUE]
    <3>1. u = Fence(st, k)
      BY <1>12 DEF u, ParseLine
    <3>2. Fence(st, k) = [Take(Flush(st), k) EXCEPT !.fenced = TRUE]
      BY <1>12 DEF Fence
    <3> QED
      BY <3>1, <3>2 DEF fl
  <2> HIDE DEF t
  <2>7. Tidy(u) /\ Held(u) = Held(t) /\ u.fenced = TRUE /\ u.stack = t.stack /\ u.lines = t.lines
    BY <2>3, <2>4, <2>6, FlagTidy
  <2>8. Adds(st, u, k)
    BY <1>8, <2>1, <2>4, <2>7 DEF Adds
  <2>9. Fenced(k + 1) /\ u.stack = st.stack /\ u.lines # <<>>
    BY <1>2, <1>4, <1>12, <2>3, <2>5, <2>7, Zenon
  <2>10. Expects(u, k)
    BY <1>5, <2>1, <2>7, <2>9, Zenon DEF Expects
  <2> QED
    BY <1>1, <2>8, <2>10, AddsOne, Zenon
<1>13. CASE Kind(k) # "fence" /\ st.fenced
  <2>1. u = tk
    BY <1>13 DEF u, ParseLine, tk
  <2>2. ~IsHeading(k) /\ st.lines # <<>>
    BY <1>2, <1>6, <1>13
  <2> QED
    BY <1>10, <1>13, <2>1, <2>2, Zenon
<1>14. CASE Kind(k) = "heading" /\ ~st.fenced
  <2> DEFINE sv == SaveSection(fl)
             p == Append(SubSeq(st.stack, 1, Outer(st, k)), k)
  <2>1. /\ sv \in ParseStates /\ sv.fenced = st.fenced /\ sv.lines = <<>> /\ sv.blocks = <<>>
        /\ Tidy(sv) /\ Held(sv) = Held(fl)
    BY <1>8, SaveFacts, SaveTidy
  <2>2. u = [sv EXCEPT !.stack = p] /\ u \in ParseStates
    BY <1>14, HeadingFacts DEF u, ParseLine, fl
  <2>3. IsPathOf(p, k + 1)
    BY <1>2, <1>6, <1>14, StackIsPath
  <2>4. p \in Seq(D)
    <3>1. u.stack = p
      BY <2>1, <2>2 DEF ParseStates
    <3> QED
      BY <2>2, <3>1 DEF ParseStates
  <2> HIDE DEF sv, p
  <2>5. Tidy(u) /\ Held(u) = Held(sv) /\ u.fenced = st.fenced /\ u.stack = p
    BY <2>1, <2>2, <2>4, StackTidy
  <2>6. k \notin Held(st)
    BY <1>1, <1>3 DEF Below
  <2>7. ~Shown(k)
    BY <1>6, <1>14 DEF Shown
  <2>8. Adds(st, u, k)
    BY <1>8, <2>1, <2>5, <2>6, <2>7 DEF Adds
  <2>9. ~Fenced(k + 1) /\ Kind(k) # "fence"
    BY <1>2, <1>4, <1>14
  <2>10. Expects(u, k)
    BY <1>14, <2>3, <2>5, <2>9, Zenon DEF Expects
  <2> QED
    BY <1>1, <2>8, <2>10, AddsOne, Zenon
<1>15. CASE Kind(k) = "blank" /\ ~st.fenced
  <2>1. ~IsHeading(k) /\ u = BlankLine(st, k)
    BY <1>6, <1>15 DEF u, ParseLine
  <2>2. CASE st.lines # <<>> /\ Kind(st.lines[1]) = "item"
    <3>1. u = tk
      BY <2>1, <2>2 DEF BlankLine, tk
    <3>2. Kind(k) # "fence"
      BY <1>15
    <3> QED
      BY <1>10, <2>1, <2>2, <3>1, <3>2, Zenon
  <2>3. CASE ~ (st.lines # <<>> /\ Kind(st.lines[1]) = "item")
    <3>1. u = fl
      BY <2>1, <2>3 DEF BlankLine, fl
    <3>2. Adds(st, u, k)
      BY <1>7, <1>8, <1>15, <2>1, <3>1 DEF Adds
    <3>3. ~Fenced(k + 1)
      BY <1>2, <1>4, <1>15
    <3>4. Expects(u, k)
      BY <1>5, <1>8, <1>15, <2>1, <3>1, <3>3, Zenon DEF Expects
    <3> QED
      BY <1>1, <3>2, <3>4, AddsOne, Zenon
  <2> QED
    BY <2>2, <2>3
<1>16. CASE Kind(k) \in {"item", "plain"} /\ ~st.fenced
  <2>1. ~IsHeading(k) /\ u = tk
    BY <1>6, <1>16 DEF u, ParseLine, tk
  <2>2. Kind(k) # "fence" /\ Kind(k) # "blank"
    BY <1>16
  <2> QED
    BY <1>10, <2>1, <2>2, Zenon
<1>17. \/ Kind(k) = "fence" \/ Kind(k) = "heading" \/ Kind(k) = "blank"
       \/ Kind(k) \in {"item", "plain"}
  BY <1>1 DEF Kinds
<1> QED
  BY <1>11, <1>12, <1>13, <1>14, <1>15, <1>16, <1>17, Zenon

LEMMA ReadStart ==
  Read(Start, 0)
<1>1. /\ Start.stack = <<>> /\ Start.sections = <<>> /\ Start.blocks = <<>>
      /\ Start.lines = <<>> /\ Start.fenced = FALSE
  BY DEF Start
<1>2. DOMAIN <<>> = {} /\ Range(<<>>) = {} /\ LinesIn(<<>>) = {} /\ UnderPath(<<>>, <<>>)
  BY NothingUnder
<1>3. Laid(<<>>) /\ LinesOf(<<>>) = {} /\ Increasing(<<>>)
  BY <1>2 DEF Laid, LinesOf, Increasing
<1>4. 1..((0 + 1) - 1) = {} /\ 1..0 = {}
  OBVIOUS
<1>5. ~Fenced(0 + 1)
  <2>1. {j \in 1..((0 + 1) - 1) : Kind(j) = "fence"} = {}
    BY <1>4
  <2>2. Cardinality({}) = 0
    BY FS_EmptySet
  <2> QED
    BY <2>1, <2>2 DEF Fenced
<1>6. IsPathOf(<<>>, 0 + 1)
  BY <1>2, <1>3, <1>4 DEF IsPathOf, HeadingsOf
<1>7. Held(Start) = {}
  BY <1>1, <1>2, <1>3 DEF Held
<1>8. Tidy(Start)
  BY <1>1, <1>2, <1>3 DEF Tidy, Below
<1> HIDE DEF Start
<1> QED
  BY <1>1, <1>4, <1>5, <1>6, <1>7, <1>8 DEF Read

(* What _parse_sections keeps of a text: its shown lines, in order, in     *)
(* sections under their headings.                                          *)
LEMMA SectionsAreTidy ==
  ASSUME text \in Seq(Lines), ChunkerAssumption
  PROVE  /\ Sections \in Seq(SectionsOf) /\ Laid(Sections)
         /\ {i \in LinesOf(Sections) : Kind(i) # "blank"} = {i \in D : Shown(i)}
<1> DEFINE n == Len(text)
           J == [k \in 0..n |-> {st \in ParseStates : Read(st, k)}]
<1>1. n \in Nat /\ D = 1..n /\ DOMAIN Numbers = 1..n /\ \A k \in 1..n : Numbers[k] = k
  BY TextFacts DEF Numbers, D
<1> HIDE DEF n
<1>2. \A k \in 0..n : \A st : st \in J[k] <=> st \in ParseStates /\ Read(st, k)
  OBVIOUS
<1> HIDE DEF J
<1>3. \A k \in 1..n : \A st \in ParseStates : ParseLine(st, Numbers[k]) \in ParseStates
  BY <1>1, ParseTyped
<1>4. Start \in ParseStates /\ Start \in J[0]
  BY <1>1, <1>2, StartTyped, ReadStart
<1>5. \A k \in 1..n : \A st \in ParseStates :
          st \in J[k - 1] => ParseLine(st, Numbers[k]) \in J[k]
  <2> SUFFICES ASSUME NEW k \in 1..n, NEW st \in ParseStates, st \in J[k - 1]
               PROVE  ParseLine(st, k) \in J[k]
    BY <1>1
  <2>1. k - 1 \in 0..n /\ k \in 0..n /\ k \in D
    BY <1>1
  <2>2. Read(ParseLine(st, k), k)
    BY <1>2, <2>1, ReadNext
  <2> QED
    BY <1>1, <1>2, <2>1, <2>2, ParseTyped
<1>6. OverText!Result(Start, Numbers) \in ParseStates /\ OverText!Result(Start, Numbers) \in J[n]
  BY <1>1, <1>3, <1>4, <1>5, OverText!FoldKeeps, Zenon
<1>7. Parsed \in ParseStates /\ Read(Parsed, n)
  BY <1>1, <1>2, <1>6, ParsedIs
<1> DEFINE fl == Flush(Parsed)
           sv == SaveSection(fl)
<1>8. /\ fl \in ParseStates /\ fl.lines = <<>> /\ Tidy(fl) /\ Held(fl) \subseteq Held(Parsed)
      /\ \A i \in Held(Parsed) : i \in Held(fl) \/ Kind(i) = "blank"
  BY <1>7, FlushFacts, FlushTidy DEF Read
<1> HIDE DEF fl
<1>9. /\ sv \in ParseStates /\ sv.lines = <<>> /\ sv.blocks = <<>>
      /\ Tidy(sv) /\ Held(sv) = Held(fl)
  BY <1>8, SaveFacts, SaveTidy
<1>10. Sections = sv.sections
  BY DEF Sections, sv, fl, Parsed
<1> HIDE DEF sv
<1>11. Sections \in Seq(SectionsOf) /\ Laid(Sections) /\ LinesOf(Sections) = Held(fl)
  <2>1. Range(<<>>) = {} /\ LinesIn(<<>>) = {}
    BY NothingUnder
  <2> QED
    BY <1>9, <1>10, <2>1 DEF Tidy, Held, ParseStates
<1>12. \A i \in Held(fl) : i \in D /\ ~IsHeading(i)
  BY <1>1, <1>7, <1>8 DEF Read
<1>13. \A i \in D : Shown(i) => i \in Held(fl)
  BY <1>1, <1>7, <1>8 DEF Read, Shown
<1>14. {i \in LinesOf(Sections) : Kind(i) # "blank"} = {i \in D : Shown(i)}
  BY <1>11, <1>12, <1>13 DEF Shown
<1> QED
  BY <1>11, <1>14

-----------------------------------------------------------------------------
(***************************************************************************)
(* _chunk_content: the sections' lines, in the chunks as in the sections.  *)
(***************************************************************************)
ChunkedLines(cs) == UNION {LinesIn(cs[c].parts) : c \in DOMAIN cs}

Cut(cs) ==
    /\ \A c \in DOMAIN cs : UnderPath(cs[c].path, cs[c].parts)
    /\ \A c, d \in DOMAIN cs : c < d => Below(LinesIn(cs[c].parts), LinesIn(cs[d].parts))

(* What a chunk repeats are the last of the lines before its own, and so   *)
(* are the lines of last_tail.                                             *)
Before(cs, c) == UNION {LinesIn(cs[d].parts) : d \in 1..(c - 1)}
LastOf(O, A) == O \subseteq A /\ \A i \in O, k \in A : i < k => k \in O
Repeats(cs) == \A c \in DOMAIN cs : LastOf(cs[c].over, Before(cs, c))

AllOf(acc) == ChunkedLines(acc.chunks) \cup LinesIn(acc.parts)
Ordered(acc) ==
    /\ Cut(acc.chunks)
    /\ Repeats(acc.chunks)
    /\ LastOf(NumbersOf(acc.tailLines), ChunkedLines(acc.chunks))
    /\ UnderPath(acc.path, acc.parts)
    /\ Below(ChunkedLines(acc.chunks), LinesIn(acc.parts))

LEMMA InChunks ==
  ASSUME NEW cs, NEW i
  PROVE  i \in ChunkedLines(cs) <=> \E c \in DOMAIN cs : i \in LinesIn(cs[c].parts)
BY DEF ChunkedLines

LEMMA ChunksGrow ==
  ASSUME NEW cs \in Seq(ChunksOf), NEW x \in ChunksOf
  PROVE  ChunkedLines(Append(cs, x)) = ChunkedLines(cs) \cup LinesIn(x.parts)
<1> DEFINE t == Append(cs, x)
           n == Len(cs)
<1>1. /\ n \in Nat /\ DOMAIN cs = 1..n /\ DOMAIN t = 1..(n + 1)
      /\ (\A i \in 1..n : t[i] = cs[i]) /\ t[n + 1] = x
  BY AppendIs
<1> HIDE DEF t, n
<1>2. ASSUME NEW y \in ChunkedLines(t) PROVE y \in ChunkedLines(cs) \cup LinesIn(x.parts)
  <2>1. PICK i \in 1..(n + 1) : y \in LinesIn(t[i].parts)
    BY <1>1, InChunks
  <2>2. i = n + 1 \/ i \in 1..n
    BY <1>1
  <2> QED
    BY <1>1, <2>1, <2>2, InChunks
<1>3. ASSUME NEW y \in ChunkedLines(cs) PROVE y \in ChunkedLines(t)
  <2>1. PICK i \in 1..n : y \in LinesIn(cs[i].parts)
    BY <1>1, InChunks
  <2>2. i \in 1..(n + 1)
    BY <1>1
  <2> QED
    BY <1>1, <2>1, <2>2, InChunks
<1>4. ASSUME NEW y \in LinesIn(x.parts) PROVE y \in ChunkedLines(t)
  <2>1. n + 1 \in 1..(n + 1)
    BY <1>1
  <2> QED
    BY <1>1, <2>1, InChunks
<1> QED
  BY <1>2, <1>3, <1>4 DEF t

LEMMA CutGrows ==
  ASSUME NEW cs \in Seq(ChunksOf), NEW x \in ChunksOf, Cut(cs), UnderPath(x.path, x.parts),
         Below(ChunkedLines(cs), LinesIn(x.parts))
  PROVE  Cut(Append(cs, x))
<1> DEFINE t == Append(cs, x)
           n == Len(cs)
<1>1. /\ n \in Nat /\ DOMAIN cs = 1..n /\ DOMAIN t = 1..(n + 1)
      /\ (\A i \in 1..n : t[i] = cs[i]) /\ t[n + 1] = x
  BY AppendIs
<1> HIDE DEF t, n
<1>2. \A i \in 1..(n + 1) : UnderPath(t[i].path, t[i].parts)
  <2>1. TAKE i \in 1..(n + 1)
  <2>2. i = n + 1 \/ i \in 1..n
    BY <1>1
  <2> QED
    BY <1>1, <2>2 DEF Cut
<1>3. ASSUME NEW i \in 1..(n + 1), NEW j \in 1..(n + 1), i < j
      PROVE  Below(LinesIn(t[i].parts), LinesIn(t[j].parts))
  <2>1. i \in 1..n
    BY <1>1, <1>3
  <2>2. CASE j \in 1..n
    BY <1>1, <1>3, <2>1, <2>2 DEF Cut
  <2>3. CASE j = n + 1
    <3>1. \A y \in LinesIn(cs[i].parts) : y \in ChunkedLines(cs)
      BY <1>1, <2>1, InChunks
    <3> QED
      BY <1>1, <2>1, <2>3, <3>1 DEF Below
  <2> QED
    BY <1>1, <2>2, <2>3
<1>4. Cut(t)
  BY <1>1, <1>2, <1>3 DEF Cut
<1> QED
  BY <1>4 DEF t

LEMMA RepeatsGrow ==
  ASSUME NEW cs \in Seq(ChunksOf), NEW x \in ChunksOf, Repeats(cs),
         LastOf(x.over, ChunkedLines(cs))
  PROVE  Repeats(Append(cs, x))
<1> DEFINE t == Append(cs, x)
           n == Len(cs)
<1>1. /\ n \in Nat /\ DOMAIN cs = 1..n /\ DOMAIN t = 1..(n + 1)
      /\ (\A i \in 1..n : t[i] = cs[i]) /\ t[n + 1] = x
  BY AppendIs
<1> HIDE DEF t, n
<1>2. ASSUME NEW i \in 1..(n + 1) PROVE LastOf(t[i].over, Before(t, i))
  <2>1. \A d \in 1..(i - 1) : t[d] = cs[d]
    BY <1>1
  <2>2. Before(t, i) = Before(cs, i)
    BY <2>1 DEF Before
  <2>3. CASE i \in 1..n
    BY <1>1, <2>2, <2>3 DEF Repeats
  <2>4. CASE i = n + 1
    <3>1. 1..(i - 1) = DOMAIN cs
      BY <1>1, <2>4
    <3>2. Before(cs, i) = ChunkedLines(cs)
      BY <3>1 DEF Before, ChunkedLines
    <3> QED
      BY <1>1, <2>2, <2>4, <3>2
  <2> QED
    BY <1>1, <2>3, <2>4
<1>3. Repeats(t)
  BY <1>1, <1>2 DEF Repeats
<1> QED
  BY <1>3 DEF t

(* The tail of a body are the last lines of it, and so of all before.      *)
LEMMA TailIsLast ==
  ASSUME NEW lines, NEW O \in SUBSET Nat, NEW A \in SUBSET Nat, NEW P \in SUBSET Nat,
         NumbersOf(lines) = O \cup P, LastOf(O, A), Below(A, P)
  PROVE  LastOf(NumbersOf(InTail(lines)), A \cup P)
<1>1. \A l : l \in InTail(lines) <=>
        /\ l \in lines
        /\ \A m \in lines : m.line >= l.line => m.behind < OverlapSize
  BY DEF InTail
<1>2. \A i : i \in NumbersOf(InTail(lines)) <=> \E l \in InTail(lines) : i = l.line
  BY DEF NumbersOf
<1>3. \A i : i \in O \cup P <=> \E l \in lines : i = l.line
  BY DEF NumbersOf
<1>4. ASSUME NEW i \in NumbersOf(InTail(lines)) PROVE i \in O \cup P
  BY <1>1, <1>2, <1>3, <1>4
<1>5. O \cup P \subseteq A \cup P
  BY DEF LastOf
<1>6. ASSUME NEW i \in NumbersOf(InTail(lines)), NEW k \in A \cup P, i < k
      PROVE  k \in NumbersOf(InTail(lines))
  <2>1. PICK l \in InTail(lines) : i = l.line
    BY <1>2, <1>6
  <2>2. k \in O \cup P
    <3>1. CASE k \in A /\ i \in P
      <4>1. k < i /\ k \in Nat /\ i \in Nat
        BY <3>1 DEF Below
      <4> QED
        BY <1>6, <4>1
    <3>2. CASE k \in A /\ i \in O
      BY <1>6, <3>2 DEF LastOf
    <3> QED
      BY <1>4, <3>1, <3>2
  <2>3. PICK m \in lines : k = m.line
    BY <1>3, <2>2
  <2>4. ASSUME NEW f \in lines, f.line >= m.line PROVE f.behind < OverlapSize
    <3> DEFINE y == f.line
    <3>1. y \in O \cup P
      BY <1>3
    <3>2. i \in Nat /\ k \in Nat /\ y \in Nat /\ y >= k
      BY <1>4, <1>6, <2>2, <2>3, <2>4, <3>1
    <3> HIDE DEF y
    <3>3. y >= i
      BY <1>6, <3>2
    <3>4. f.line >= l.line
      BY <2>1, <3>3 DEF y
    <3> QED
      BY <1>1, <2>1, <3>4
  <2> QED
    BY <1>1, <1>2, <2>3, <2>4
<1> QED
  BY <1>4, <1>5, <1>6 DEF LastOf

(* A chunk emitted holds what was gathered for it.                         *)
LEMMA EmitOrdered ==
  ASSUME text \in Seq(Lines), ChunkerAssumption, NEW acc \in Fitting, Ordered(acc)
  PROVE  Ordered(Emit(acc)) /\ AllOf(Emit(acc)) = AllOf(acc)
<1> DEFINE em == Emit(acc)
           O == NumbersOf(OverOf(acc))
<1>1. /\ em \in Fitting /\ em.parts = <<>> /\ em.path = acc.path
      /\ em.tailLines = InTail(BodyOf(acc))
  BY EmitFits
<1>2. PICK z \in Int :
         em.chunks = Append(acc.chunks, [path |-> acc.path, parts |-> acc.parts,
                                         over |-> NumbersOf(OverOf(acc)), size |-> z])
  BY EmitFits
<1> DEFINE x == [path |-> acc.path, parts |-> acc.parts, over |-> O, size |-> z]
<1>3. x.path = acc.path /\ x.parts = acc.parts /\ x.over = O
  OBVIOUS
<1>a. acc.chunks \in Seq(ChunksOf) /\ acc.parts \in Seq(Seq(D)) /\ acc.path \in Seq(D)
      /\ acc.tailLines \in SUBSET TailLines
  BY DEF Fitting, ChunkAccs
<1>b. OverOf(acc) \in SUBSET TailLines /\ O \in SUBSET D
  BY <1>a DEF OverOf, NumbersOf, TailLines
<1>4. x \in ChunksOf
  BY <1>a, <1>b DEF ChunksOf
<1>5. em.chunks = Append(acc.chunks, x)
  BY <1>2
<1> HIDE DEF em, x, O
<1>6. ChunkedLines(em.chunks) = AllOf(acc)
  BY <1>3, <1>4, <1>5, <1>a, ChunksGrow DEF AllOf
<1>7. Cut(em.chunks)
  <2>1. /\ Cut(acc.chunks) /\ UnderPath(x.path, x.parts)
        /\ Below(ChunkedLines(acc.chunks), LinesIn(x.parts))
    BY <1>3 DEF Ordered
  <2> QED
    BY <1>4, <1>5, <1>a, <2>1, CutGrows
<1>8. LinesIn(em.parts) = {} /\ UnderPath(em.path, em.parts)
  BY <1>1, NothingUnder
<1>9. LastOf(O, ChunkedLines(acc.chunks))
  <2>1. OverOf(acc) = acc.tailLines \/ OverOf(acc) = {}
    BY DEF OverOf
  <2>2. CASE OverOf(acc) = acc.tailLines
    BY <2>2 DEF Ordered, O
  <2>3. CASE OverOf(acc) = {}
    BY <2>3 DEF O, NumbersOf, LastOf
  <2> QED
    BY <2>1, <2>2, <2>3
<1>10. Repeats(em.chunks)
  BY <1>3, <1>4, <1>5, <1>9, <1>a, RepeatsGrow DEF Ordered
<1>11. LastOf(NumbersOf(em.tailLines), ChunkedLines(em.chunks))
  <2> DEFINE A == ChunkedLines(acc.chunks)
             P == LinesIn(acc.parts)
             n == 2 + BodySize(acc.parts)
  <2>1. n \in Int
    <3>1. <<>> \in Seq(D)
      OBVIOUS
    <3>2. BodySize(acc.parts) \in Int
      BY <1>a, <3>1, BodySizeFacts
    <3> QED
      BY <3>2
  <2>2. NumbersOf(PushBack(OverOf(acc), n)) = O
    BY <1>b, <2>1, PushBackFacts DEF O
  <2>3. NumbersOf(Placed(acc.parts)) = P
    BY <1>a, PlacedFacts
  <2>4. NumbersOf(BodyOf(acc)) = O \cup P
    BY <2>2, <2>3 DEF BodyOf, NumbersOf
  <2>5. D \subseteq Nat
    BY TextFacts
  <2>6. P \in SUBSET D
    BY <1>a DEF LinesIn, Range
  <2>7. A \in SUBSET D
    <3>1. \A c \in DOMAIN acc.chunks : acc.chunks[c].parts \in Seq(Seq(D))
      <4>1. \A y \in ChunksOf : y.parts \in Seq(Seq(D))
        BY DEF ChunksOf
      <4> QED
        BY <1>a, <4>1
    <3>2. \A c \in DOMAIN acc.chunks : LinesIn(acc.chunks[c].parts) \subseteq D
      BY <3>1 DEF LinesIn, Range
    <3> QED
      BY <3>2 DEF ChunkedLines
  <2>8. Below(A, P)
    BY DEF Ordered
  <2> HIDE DEF A, P
  <2>9. LastOf(NumbersOf(InTail(BodyOf(acc))), A \cup P)
    <3>1. O \in SUBSET Nat /\ A \in SUBSET Nat /\ P \in SUBSET Nat
      BY <1>b, <2>5, <2>6, <2>7
    <3>2. LastOf(O, A)
      BY <1>9 DEF A
    <3> QED
      BY <2>4, <2>8, <3>1, <3>2, TailIsLast
  <2> QED
    BY <1>1, <1>6, <2>9 DEF AllOf, A, P
<1>12. Ordered(em) /\ AllOf(em) = AllOf(acc)
  BY <1>6, <1>7, <1>8, <1>10, <1>11 DEF Ordered, AllOf, Below
<1> QED
  BY <1>12 DEF em

(* The next block comes after all others, in this chunk or in a new one.   *)
LEMMA PlaceBlockOrdered ==
  ASSUME text \in Seq(Lines), ChunkerAssumption, NEW acc \in Fitting, Ordered(acc),
         NEW b \in Seq(D), Increasing(b), \A i \in Range(b) : IsPathOf(acc.path, i),
         Below(AllOf(acc), Range(b))
  PROVE  /\ Ordered(PlaceBlock(acc, b)) /\ PlaceBlock(acc, b).path = acc.path
         /\ AllOf(PlaceBlock(acc, b)) = AllOf(acc) \cup Range(b)
<1> DEFINE next == PlaceBlock(acc, b)
<1>1. next.path = acc.path
  BY PlaceBlockFacts
<1>2. CASE Full(acc, b)
  <2>1. /\ next.chunks = Emit(acc).chunks /\ next.parts = <<b>>
        /\ next.tailLines = Emit(acc).tailLines
    BY <1>2, PlaceBlockFacts
  <2>2. Ordered(Emit(acc)) /\ AllOf(Emit(acc)) = AllOf(acc) /\ Emit(acc).parts = <<>>
    BY EmitOrdered, EmitFits
  <2>3. <<>> \in Seq(Seq(D)) /\ <<b>> = Append(<<>>, b)
    OBVIOUS
  <2>4. UnderPath(acc.path, <<>>) /\ LinesIn(<<>>) = {}
    BY NothingUnder
  <2> HIDE DEF next
  <2>5. LinesIn(next.parts) = Range(b)
    BY <2>1, <2>3, <2>4, LinesOfAppend
  <2>6. UnderPath(next.path, next.parts)
    <3>1. Below(LinesIn(<<>>), Range(b))
      BY <2>4 DEF Below
    <3> QED
      BY <1>1, <2>1, <2>3, <2>4, <3>1, PathGrows
  <2>7. ChunkedLines(next.chunks) = AllOf(acc)
    BY <2>1, <2>2, <2>4 DEF AllOf
  <2>8. Ordered(next) /\ AllOf(next) = AllOf(acc) \cup Range(b)
    <3>1. /\ Cut(next.chunks) /\ Repeats(next.chunks)
          /\ LastOf(NumbersOf(next.tailLines), ChunkedLines(next.chunks))
      BY <2>1, <2>2 DEF Ordered
    <3>2. Below(ChunkedLines(next.chunks), LinesIn(next.parts))
      BY <2>5, <2>7
    <3> QED
      BY <2>5, <2>6, <2>7, <3>1, <3>2 DEF Ordered, AllOf
  <2> QED
    BY <1>1, <2>8 DEF next
<1>3. CASE ~Full(acc, b)
  <2>1. /\ next.chunks = acc.chunks /\ next.parts = Append(acc.parts, b)
        /\ next.tailLines = acc.tailLines
    BY <1>3, PlaceBlockFacts
  <2>2. acc.parts \in Seq(Seq(D))
    BY DEF Fitting, ChunkAccs
  <2> HIDE DEF next
  <2>3. LinesIn(next.parts) = LinesIn(acc.parts) \cup Range(b)
    BY <2>1, <2>2, LinesOfAppend
  <2>4. UnderPath(next.path, next.parts)
    <3>1. UnderPath(acc.path, acc.parts) /\ Below(LinesIn(acc.parts), Range(b))
      BY DEF Ordered, AllOf, Below
    <3> QED
      BY <1>1, <2>1, <2>2, <3>1, PathGrows
  <2>5. Below(ChunkedLines(next.chunks), LinesIn(next.parts))
    BY <2>1, <2>3 DEF Ordered, AllOf, Below
  <2>6. /\ Cut(next.chunks) /\ Repeats(next.chunks)
        /\ LastOf(NumbersOf(next.tailLines), ChunkedLines(next.chunks))
    BY <2>1 DEF Ordered
  <2>7. Ordered(next) /\ AllOf(next) = AllOf(acc) \cup Range(b)
    BY <2>1, <2>3, <2>4, <2>5, <2>6 DEF Ordered, AllOf
  <2> QED
    BY <1>1, <2>7 DEF next
<1> QED
  BY <1>2, <1>3

LEMMA PlaceSectionOrdered ==
  ASSUME text \in Seq(Lines), ChunkerAssumption, NEW acc \in Fitting, Ordered(acc),
         acc.parts = <<>>, NEW s \in SectionsOf, UnderPath(s.path, s.blocks),
         Below(AllOf(acc), LinesIn(s.blocks))
  PROVE  /\ Ordered(PlaceSection(acc, s)) /\ PlaceSection(acc, s).parts = <<>>
         /\ AllOf(PlaceSection(acc, s)) = AllOf(acc) \cup LinesIn(s.blocks)
<1> DEFINE n == Len(s.blocks)
           base == [acc EXCEPT !.path = s.path]
           B(k) == UNION {Range(s.blocks[j]) : j \in 1..k}
           J == [k \in 0..n |-> {a \in Fitting : /\ Ordered(a) /\ a.path = s.path
                                                 /\ AllOf(a) = AllOf(acc) \cup B(k)}]
<1>1. n \in Nat /\ DOMAIN s.blocks = 1..n /\ \A k \in 1..n : s.blocks[k] \in Seq(D)
  BY DEF SectionsOf
<1>2. /\ base \in Fitting /\ base.chunks = acc.chunks /\ base.parts = acc.parts
      /\ base.path = s.path /\ base.tailLines = acc.tailLines
  BY NewPath
<1>3. \A k, i : i \in B(k) <=> \E j \in 1..k : i \in Range(s.blocks[j])
  OBVIOUS
<1>4. \A k \in 0..n : \A a : a \in J[k] <=> /\ a \in Fitting /\ Ordered(a) /\ a.path = s.path
                                            /\ AllOf(a) = AllOf(acc) \cup B(k)
  OBVIOUS
<1> HIDE DEF n, base, B, J
<1>5. B(0) = {} /\ B(n) = LinesIn(s.blocks)
  <2>1. 1..0 = {}
    OBVIOUS
  <2>2. \A i : i \in LinesIn(s.blocks) <=> i \in B(n)
    BY <1>1, <1>3, InLines
  <2> QED
    BY <1>3, <2>1, <2>2
<1>6. base \in J[0]
  <2>1. UnderPath(base.path, base.parts)
    BY <1>2, NothingUnder
  <2>2. Ordered(base)
    BY <1>2, <2>1 DEF Ordered
  <2>3. AllOf(base) = AllOf(acc) \cup B(0)
    BY <1>2, <1>5 DEF AllOf
  <2> QED
    BY <1>1, <1>2, <1>4, <2>2, <2>3
<1>7. \A k \in 1..n : \A a \in Fitting : PlaceBlock(a, s.blocks[k]) \in Fitting
  BY <1>1, PlaceBlockFits
<1>8. \A k \in 1..n : \A a \in Fitting : a \in J[k - 1] => PlaceBlock(a, s.blocks[k]) \in J[k]
  <2> SUFFICES ASSUME NEW k \in 1..n, NEW a \in Fitting, a \in J[k - 1]
               PROVE  PlaceBlock(a, s.blocks[k]) \in J[k]
    OBVIOUS
  <2> DEFINE b == s.blocks[k]
             next == PlaceBlock(a, b)
  <2>1. k - 1 \in 0..n /\ k \in 0..n /\ \A j : j \in 1..k <=> j \in 1..(k - 1) \/ j = k
    BY <1>1
  <2>2. Ordered(a) /\ a.path = s.path /\ AllOf(a) = AllOf(acc) \cup B(k - 1)
    BY <1>4, <2>1
  <2>3. b \in Seq(D) /\ Increasing(b)
    BY <1>1 DEF UnderPath
  <2>4. \A i \in Range(b) : i \in LinesIn(s.blocks)
    BY <1>1, InLines
  <2>5. \A i \in Range(b) : IsPathOf(a.path, i)
    BY <2>2, <2>4 DEF UnderPath
  <2>6. Below(AllOf(a), Range(b))
    <3>1. SUFFICES ASSUME NEW x \in AllOf(a), NEW y \in Range(b) PROVE x < y
      BY DEF Below
    <3>2. CASE x \in AllOf(acc)
      BY <2>4, <3>1, <3>2 DEF Below
    <3>3. CASE x \in B(k - 1)
      <4>1. PICK j \in 1..(k - 1) : x \in Range(s.blocks[j])
        BY <1>3, <3>3
      <4>2. j \in 1..n /\ j < k
        BY <1>1, <2>1
      <4> QED
        BY <1>1, <4>1, <4>2 DEF UnderPath, Below
    <3> QED
      BY <2>2, <3>2, <3>3
  <2>7. B(k) = B(k - 1) \cup Range(b)
    BY <1>3, <2>1
  <2> HIDE DEF b
  <2>8. Ordered(next) /\ next.path = a.path /\ AllOf(next) = AllOf(a) \cup Range(b)
    BY <2>2, <2>3, <2>5, <2>6, PlaceBlockOrdered
  <2>9. next \in Fitting
    BY <2>3, PlaceBlockFits
  <2>10. AllOf(next) = AllOf(acc) \cup B(k)
    BY <2>2, <2>7, <2>8
  <2> HIDE DEF next
  <2>11. next \in J[k]
    BY <1>4, <2>1, <2>2, <2>8, <2>9, <2>10
  <2> QED
    BY <2>11 DEF next, b
<1>9. OverBlocks!Result(base, s.blocks) \in Fitting /\ OverBlocks!Result(base, s.blocks) \in J[n]
  BY <1>1, <1>2, <1>6, <1>7, <1>8, OverBlocks!FoldKeeps, Zenon
<1> DEFINE p == Placing(acc, s)
<1>10. p = OverBlocks!Result(base, s.blocks)
  BY DEF Placing, base
<1>11. p \in Fitting /\ Ordered(p) /\ AllOf(p) = AllOf(acc) \cup LinesIn(s.blocks)
  BY <1>1, <1>4, <1>5, <1>9, <1>10
<1>12. PlaceSection(acc, s) = Emit(p)
  BY PlaceSectionIs
<1> HIDE DEF p
<1>13. Ordered(Emit(p)) /\ AllOf(Emit(p)) = AllOf(p) /\ Emit(p).parts = <<>>
  BY <1>11, EmitOrdered, EmitFits
<1> QED
  BY <1>11, <1>12, <1>13

(* The chunks of a text hold the lines of its sections, as those do.       *)
LEMMA ChunkedOrdered ==
  ASSUME text \in Seq(Lines), ChunkerAssumption, Sections \in Seq(SectionsOf), Laid(Sections)
  PROVE  /\ Chunked \in Fitting /\ Cut(Chunked.chunks) /\ Repeats(Chunked.chunks)
         /\ ChunkedLines(Chunked.chunks) = LinesOf(Sections)
<1> DEFINE ss == Sections
           n == Len(ss)
           L(k) == UNION {LinesIn(ss[t].blocks) : t \in 1..k}
           J == [k \in 0..n |-> {a \in Fitting : /\ Ordered(a) /\ a.parts = <<>>
                                                 /\ AllOf(a) = L(k)}]
<1>1. n \in Nat /\ DOMAIN ss = 1..n /\ \A k \in 1..n : ss[k] \in SectionsOf
  OBVIOUS
<1>2. \A k, i : i \in L(k) <=> \E t \in 1..k : i \in LinesIn(ss[t].blocks)
  OBVIOUS
<1>3. \A k \in 0..n : \A a : a \in J[k] <=> /\ a \in Fitting /\ Ordered(a) /\ a.parts = <<>>
                                            /\ AllOf(a) = L(k)
  OBVIOUS
<1>4. Laid(ss)
  OBVIOUS
<1>5. Chunked = OverSections!Result(NoChunks, ss)
  BY DEF Chunked
<1>6. L(n) = LinesOf(Sections)
  BY <1>1 DEF LinesOf
<1> HIDE DEF ss, n, L, J
<1>7. NoChunks \in Fitting /\ NoChunks \in J[0]
  <2>1. NoChunks \in Fitting
    BY NoChunksFit
  <2>2. /\ NoChunks.chunks = <<>> /\ NoChunks.parts = <<>> /\ NoChunks.tailLines = {}
        /\ DOMAIN <<>> = {} /\ 1..0 = {}
    BY DEF NoChunks
  <2> HIDE DEF NoChunks
  <2>3. UnderPath(NoChunks.path, <<>>) /\ LinesIn(<<>>) = {}
    BY NothingUnder
  <2>4. ChunkedLines(<<>>) = {} /\ Cut(<<>>) /\ L(0) = {}
    BY <1>2, <2>2 DEF ChunkedLines, Cut
  <2>5. Repeats(<<>>) /\ LastOf(NumbersOf({}), {})
    BY <2>2 DEF Repeats, LastOf, NumbersOf
  <2>6. Ordered(NoChunks) /\ AllOf(NoChunks) = L(0)
    BY <2>2, <2>3, <2>4, <2>5 DEF Ordered, AllOf, Below
  <2> QED
    BY <1>1, <1>3, <2>1, <2>2, <2>6
<1>8. \A k \in 1..n : \A a \in Fitting : PlaceSection(a, ss[k]) \in Fitting
  BY <1>1, PlaceSectionFits
<1>9. \A k \in 1..n : \A a \in Fitting : a \in J[k - 1] => PlaceSection(a, ss[k]) \in J[k]
  <2> SUFFICES ASSUME NEW k \in 1..n, NEW a \in Fitting, a \in J[k - 1]
               PROVE  PlaceSection(a, ss[k]) \in J[k]
    OBVIOUS
  <2> DEFINE s == ss[k]
             next == PlaceSection(a, s)
  <2>1. k - 1 \in 0..n /\ k \in 0..n /\ \A j : j \in 1..k <=> j \in 1..(k - 1) \/ j = k
    BY <1>1
  <2>2. Ordered(a) /\ a.parts = <<>> /\ AllOf(a) = L(k - 1)
    BY <1>3, <2>1
  <2>3. s \in SectionsOf /\ UnderPath(s.path, s.blocks)
    BY <1>1, <1>4 DEF Laid
  <2>4. Below(AllOf(a), LinesIn(s.blocks))
    <3>1. SUFFICES ASSUME NEW x \in AllOf(a), NEW y \in LinesIn(s.blocks) PROVE x < y
      BY DEF Below
    <3>2. PICK t \in 1..(k - 1) : x \in LinesIn(ss[t].blocks)
      BY <1>2, <2>2
    <3>3. t \in 1..n /\ t < k
      BY <1>1, <2>1
    <3> QED
      BY <1>1, <1>4, <3>2, <3>3 DEF Laid, Below
  <2>5. L(k) = L(k - 1) \cup LinesIn(s.blocks)
    BY <1>2, <2>1
  <2> HIDE DEF s
  <2>6. Ordered(next) /\ next.parts = <<>> /\ AllOf(next) = AllOf(a) \cup LinesIn(s.blocks)
    BY <2>2, <2>3, <2>4, PlaceSectionOrdered
  <2>7. next \in Fitting
    BY <2>3, PlaceSectionFits
  <2> HIDE DEF next
  <2>8. next \in J[k]
    BY <1>3, <2>1, <2>2, <2>5, <2>6, <2>7
  <2> QED
    BY <2>8 DEF next, s
<1>10. OverSections!Result(NoChunks, ss) \in Fitting /\ OverSections!Result(NoChunks, ss) \in J[n]
  BY <1>1, <1>7, <1>8, <1>9, OverSections!FoldKeeps, Zenon
<1>11. /\ Chunked \in Fitting /\ Ordered(Chunked) /\ Chunked.parts = <<>>
       /\ AllOf(Chunked) = LinesOf(Sections)
  BY <1>1, <1>3, <1>5, <1>6, <1>10
<1>12. LinesIn(<<>>) = {}
  BY NothingUnder
<1> QED
  BY <1>11, <1>12 DEF Ordered, AllOf

(* Every line of a text that is neither blank nor a heading is put into    *)
(* one chunk, once, in its place, and under its own headings, and a chunk  *)
(* repeats the last lines before its own, for texts of any length and any  *)
(* target_size: by induction along both folds.                             *)
THEOREM LinesKept ==
  text \in Seq(Lines) => LinesKeepTheirPlace
<1> SUFFICES ASSUME text \in Seq(Lines) PROVE LinesKeepTheirPlace
  OBVIOUS
<1>1. ChunkerAssumption
  BY ChunkerAssumption
<1> DEFINE shown == {i \in DOMAIN text : Shown(i)}
           chunks == ChunksOfText
           lines == [c \in DOMAIN chunks |-> LinesIn(chunks[c].parts)]
           before == [c \in DOMAIN chunks |-> UNION {lines[d] : d \in 1..(c - 1)}]
<1>2. /\ Sections \in Seq(SectionsOf) /\ Laid(Sections)
      /\ {i \in LinesOf(Sections) : Kind(i) # "blank"} = shown
  BY <1>1, SectionsAreTidy DEF D
<1> HIDE DEF shown, chunks
<1>3. CASE Sections = <<>>
  <2>1. LinesOf(Sections) = {}
    BY <1>3 DEF LinesOf
  <2>2. shown = {}
    BY <1>2, <2>1
  <2>3. Len(chunks) = 1
    <3>1. \A x : Len(<<x>>) = 1
      OBVIOUS
    <3> QED
      BY <1>3, <3>1, ChunkedIs DEF chunks
  <2> QED
    BY <2>2, <2>3 DEF LinesKeepTheirPlace, shown, chunks
<1>4. CASE Sections # <<>>
  <2>1. chunks = Chunked.chunks
    BY <1>4, ChunkedIs DEF chunks
  <2>2. /\ Cut(chunks) /\ ChunkedLines(chunks) = LinesOf(Sections)
        /\ Repeats(chunks) /\ chunks \in Seq(ChunksOf)
    BY <1>1, <1>2, <2>1, ChunkedOrdered DEF Fitting, ChunkAccs
  <2>3. shown # {}
    <3>1. 1 \in DOMAIN Sections
      BY <1>2, <1>4
    <3>2. PICK i \in LinesIn(Sections[1].blocks) : Kind(i) # "blank"
      BY <1>2, <3>1 DEF Laid, Tells
    <3>3. i \in LinesOf(Sections)
      BY <3>1, <3>2, InSections
    <3> QED
      BY <1>2, <3>2, <3>3
  <2>4. UNION Range(lines) = ChunkedLines(chunks)
    BY DEF Range, ChunkedLines
  <2>5. {i \in UNION Range(lines) : Kind(i) # "blank"} = shown
    BY <1>2, <2>2, <2>4
  <2>6. Ascending(lines)
    BY <2>2 DEF Ascending, Cut, Below
  <2>7. ASSUME NEW c \in DOMAIN chunks
        PROVE  LET parts == chunks[c].parts
                   over  == chunks[c].over IN
               /\ Ascending([b \in DOMAIN parts |-> Range(parts[b])])
               /\ \A b \in DOMAIN parts : Increasing(parts[b])
               /\ \A i \in lines[c] : IsPathOf(chunks[c].path, i)
               /\ over \subseteq before[c]
               /\ \A i \in over, k \in before[c] : i < k => k \in over
    <3> DEFINE parts == chunks[c].parts
               over == chunks[c].over
    <3>1. UnderPath(chunks[c].path, parts)
      BY <2>2 DEF Cut
    <3>2. lines[c] = LinesIn(parts)
      OBVIOUS
    <3>o. before[c] = Before(chunks, c)
      <4>1. \A d \in 1..(c - 1) : d \in DOMAIN chunks
        BY <2>2
      <4> QED
        BY <4>1 DEF Before
    <3>p. LastOf(over, before[c])
      BY <2>2, <3>o DEF Repeats
    <3> HIDE DEF lines, before, parts, over
    <3>3. Ascending([b \in DOMAIN parts |-> Range(parts[b])])
      BY <3>1 DEF Ascending, UnderPath, Below
    <3>4. /\ \A b \in DOMAIN parts : Increasing(parts[b])
          /\ \A i \in lines[c] : IsPathOf(chunks[c].path, i)
      BY <3>1, <3>2 DEF UnderPath
    <3>5. over \subseteq before[c] /\ \A i \in over, k \in before[c] : i < k => k \in over
      BY <3>p DEF LastOf
    <3> QED
      BY <3>3, <3>4, <3>5 DEF parts, over
  <2> QED
    BY <2>3, <2>5, <2>6, <2>7 DEF LinesKeepTheirPlace, shown, chunks
<1> QED
  BY <1>3, <1>4
==============================================================================
