---------------------------- MODULE FoldTheorems ----------------------------
(***************************************************************************)
(* What the proofs about folds and sorted sequences rest on.  The          *)
(* library's induction theorems are about operators; these are about sets  *)
(* and functions, and follow from the well-foundedness of Nat.  A proof    *)
(* about FoldLeft(F, ...) takes an instance of this module WITH Op <- F.   *)
(***************************************************************************)
EXTENDS Integers, SequencesExt, FiniteSetTheorems, WellFoundedInduction, TLAPS

CONSTANT Op(_, _)

LEMMA LeastIn ==
  ASSUME NEW S, S \subseteq Nat, S # {}
  PROVE  \E x \in S : \A y \in S : x <= y
<1> DEFINE L == OpToRel(<, Nat)
<1>0. \A y, x \in Nat : y < x => <<y, x>> \in L
  BY DEF OpToRel
<1>1. IsWellFoundedOn(L, Nat)
  BY NatLessThanWellFounded
<1> HIDE DEF L
<1>2. PICK x \in S : \A y \in S : ~ (<<y, x>> \in L)
  BY <1>1, WFMin
<1>3. ASSUME NEW y \in S PROVE x <= y
  <2>1. y \in Nat /\ x \in Nat  OBVIOUS
  <2>2. ~ (<<y, x>> \in L)  BY <1>2
  <2>3. ~ (y < x)  BY <2>1, <2>2, <1>0
  <2> QED  BY <2>1, <2>3
<1> QED  BY <1>3

LEMMA GreatestIn ==
  ASSUME NEW n \in Nat, NEW S, S \subseteq 1..n, S # {}
  PROVE  \E x \in S : \A y \in S : y <= x
<1> DEFINE D == {n - x : x \in S}
<1>0. \A x \in S : n - x \in Nat
  <2>1. TAKE x \in S
  <2>2. x \in 1..n  OBVIOUS
  <2> QED  BY <2>2
<1>1. D \subseteq Nat /\ D # {}  BY <1>0
<1> HIDE DEF D
<1>2. PICK d \in D : \A e \in D : d <= e  BY <1>1, LeastIn
<1>3. PICK x \in S : d = n - x  BY DEF D
<1>4. ASSUME NEW y \in S PROVE y <= x
  <2>1. n - y \in D  BY DEF D
  <2>2. n - x <= n - y  BY <2>1, <1>2, <1>3
  <2>3. x \in 1..n /\ y \in 1..n  OBVIOUS
  <2> QED  BY <2>2, <2>3
<1> QED  BY <1>4

\* Induction along 0..n, for a set of numbers.
LEMMA CountedInduction ==
  ASSUME NEW n \in Nat, NEW I, 0 \in I, \A k \in 1..n : k - 1 \in I => k \in I
  PROVE  0..n \subseteq I
<1> SUFFICES ASSUME ~ (0..n \subseteq I) PROVE FALSE
  OBVIOUS
<1> DEFINE S == (0..n) \ I
<1>1. S \subseteq Nat /\ S # {}
  OBVIOUS
<1> HIDE DEF S
<1>2. PICK k \in S : \A j \in S : k <= j
  BY <1>1, LeastIn
<1>3. k \in 0..n /\ k \notin I
  BY DEF S
<1>4. k \in 1..n
  BY <1>3
<1>5. k - 1 \notin S
  BY <1>1, <1>2, <1>4
<1>6. k - 1 \in I
  BY <1>4, <1>5 DEF S
<1> QED
  BY <1>3, <1>4, <1>6

-----------------------------------------------------------------------------
(***************************************************************************)
(* Folds.  FoldLeft is a recursive function on the subsets of the          *)
(* sequence's domain, which takes the greatest element off.                *)
(***************************************************************************)
LEMMA GreatestIsMax ==
  ASSUME NEW n \in Nat, NEW S, S \subseteq 1..n, S # {}
  PROVE  Max(S) \in S /\ Max(S) \in 1..n /\ \A y \in S : y <= Max(S)
<1>1. \E x \in S : \A y \in S : x >= y
  <2>1. PICK x \in S : \A y \in S : y <= x
    BY GreatestIn
  <2>2. \A y \in S : x >= y
    BY <2>1
  <2> QED
    BY <2>2
<1>2. Max(S) \in S /\ \A y \in S : Max(S) >= y
  BY <1>1 DEF Max
<1> QED
  BY <1>2

LEMMA IntervalMax ==
  ASSUME NEW k \in Nat \ {0}
  PROVE  Max(1..k) = k /\ (1..k) \ {k} = 1..(k - 1) /\ 1..k # {}
<1>1. k \in 1..k
  OBVIOUS
<1>2. Max(1..k) \in 1..k /\ k <= Max(1..k)
  BY <1>1, GreatestIsMax
<1> QED
  BY <1>1, <1>2

IsFold(g, n, St, base, G) ==
    /\ g \in [SUBSET (1..n) -> St]
    /\ \A s \in SUBSET (1..n) :
          g[s] = IF s = {} THEN base ELSE G[Max(s)][g[s \ {Max(s)}]]

LEMMA FoldExists ==
  ASSUME NEW n \in Nat, NEW St, NEW base \in St, NEW G \in [1..n -> [St -> St]]
  PROVE  \E g : IsFold(g, n, St, base, G)
<1> DEFINE Good(g, k) == \A s \in SUBSET (1..k) :
              g[s] = IF s = {} THEN base ELSE G[Max(s)][g[s \ {Max(s)}]]
           I == {k \in 0..n : \E g \in [SUBSET (1..k) -> St] : Good(g, k)}
<1>1. 0 \in I
  <2> DEFINE z == [s \in SUBSET (1..0) |-> base]
  <2>1. z \in [SUBSET (1..0) -> St]
    OBVIOUS
  <2>2. \A s \in SUBSET (1..0) : s = {} /\ z[s] = base
    OBVIOUS
  <2> HIDE DEF z
  <2>3. Good(z, 0)
    BY <2>2
  <2> HIDE DEF Good
  <2>4. \E g \in [SUBSET (1..0) -> St] : Good(g, 0)
    BY <2>1, <2>3, Zenon
  <2>5. 0 \in 0..n
    OBVIOUS
  <2> QED
    BY <2>4, <2>5, Zenon
<1>2. ASSUME NEW k \in 1..n, k - 1 \in I PROVE k \in I
  <2>1. PICK g \in [SUBSET (1..(k - 1)) -> St] : Good(g, k - 1)
    BY <1>2
  <2> DEFINE h == [s \in SUBSET (1..k) |-> IF k \in s THEN G[k][g[s \ {k}]] ELSE g[s]]
  <2>2. \A s \in SUBSET (1..k) : s \ {k} \in SUBSET (1..(k - 1))
    OBVIOUS
  <2>3. \A s \in SUBSET (1..k) : k \notin s => s \in SUBSET (1..(k - 1))
    OBVIOUS
  <2>4. h \in [SUBSET (1..k) -> St]
    BY <2>2, <2>3
  <2>5. ASSUME NEW s \in SUBSET (1..k), k \in s
        PROVE  h[s] = IF s = {} THEN base ELSE G[Max(s)][h[s \ {Max(s)}]]
    <3>1. Max(s) = k
      <4>1. Max(s) \in 1..k /\ k <= Max(s)
        <5>1. k \in Nat /\ s \subseteq 1..k /\ s # {}
          BY <2>5
        <5> QED
          BY <2>5, <5>1, GreatestIsMax
      <4> QED
        BY <4>1
    <3>2. s \ {k} \in SUBSET (1..k) /\ k \notin s \ {k}
      OBVIOUS
    <3>3. h[s \ {k}] = g[s \ {k}]
      BY <3>2
    <3>4. h[s] = G[k][g[s \ {k}]]
      BY <2>5
    <3> QED
      BY <2>5, <3>1, <3>3, <3>4
  <2>6. ASSUME NEW s \in SUBSET (1..k), k \notin s
        PROVE  h[s] = IF s = {} THEN base ELSE G[Max(s)][h[s \ {Max(s)}]]
    <3>1. s \in SUBSET (1..(k - 1)) /\ h[s] = g[s]
      BY <2>3, <2>6
    <3>2. CASE s = {}
      BY <2>1, <3>1, <3>2
    <3>3. CASE s # {}
      <4>1. g[s] = G[Max(s)][g[s \ {Max(s)}]]
        BY <2>1, <3>1, <3>3
      <4>2. s \ {Max(s)} \in SUBSET (1..k) /\ k \notin s \ {Max(s)}
        BY <2>6
      <4>3. h[s \ {Max(s)}] = g[s \ {Max(s)}]
        BY <4>2
      <4> QED
        BY <3>1, <3>3, <4>1, <4>3
    <3> QED
      BY <3>2, <3>3
  <2>7. Good(h, k)
    BY <2>5, <2>6
  <2> HIDE DEF h, Good
  <2> QED
    BY <2>4, <2>7
<1> HIDE DEF I
<1>3. 0..n \subseteq I
  BY <1>1, <1>2, CountedInduction
<1>4. n \in I
  BY <1>3
<1>5. \E g \in [SUBSET (1..n) -> St] : Good(g, n)
  <2> HIDE DEF Good
  <2> QED
    BY <1>4, Zenon DEF I
<1>6. PICK g \in [SUBSET (1..n) -> St] : Good(g, n)
  BY <1>5
<1> QED
  BY <1>6 DEF IsFold

(* What a fold goes through, from its base to its result.                  *)
Result(base, seq) == FoldLeft(Op, base, seq)
Folds(c, n, St, base, seq) ==
    /\ c \in [0..n -> St]
    /\ c[0] = base
    /\ \A k \in 1..n : c[k] = Op(c[k - 1], seq[k])
    /\ Result(base, seq) = c[n]

LEMMA FoldSteps ==
  ASSUME NEW n \in Nat, NEW seq, DOMAIN seq = 1..n, NEW St, NEW base \in St,
         \A k \in 1..n : \A a \in St : Op(a, seq[k]) \in St
  PROVE  \E c : Folds(c, n, St, base, seq)
<1> DEFINE G == [k \in 1..n |-> [a \in St |-> Op(a, seq[k])]]
           Is(it) == it = [s \in SUBSET (1..n) |->
                 IF s = {} THEN base ELSE Op(it[s \ {Max(s)}], seq[Max(s)])]
           it == CHOOSE g : Is(g)
<1>1. G \in [1..n -> [St -> St]]
  OBVIOUS
<1>2. \A k \in 1..n, a \in St : G[k][a] = Op(a, seq[k])
  OBVIOUS
<1> HIDE DEF G
<1>3. PICK g \in [SUBSET (1..n) -> St] : \A s \in SUBSET (1..n) :
            g[s] = IF s = {} THEN base ELSE G[Max(s)][g[s \ {Max(s)}]]
  <2>1. n \in Nat /\ base \in St
    OBVIOUS
  <2>2. PICK g : IsFold(g, n, St, base, G)
    BY <1>1, <2>1, FoldExists, Zenon
  <2> QED
    BY <2>2 DEF IsFold
<1>4. \A s \in SUBSET (1..n) : g[s] = IF s = {} THEN base ELSE Op(g[s \ {Max(s)}], seq[Max(s)])
  <2>1. TAKE s \in SUBSET (1..n)
  <2>2. CASE s = {}
     BY <2>2, <1>3
  <2>3. CASE s # {}
     <3>1. Max(s) \in 1..n  BY <2>3, GreatestIsMax
     <3>2. g[s \ {Max(s)}] \in St  OBVIOUS
     <3> QED BY <3>1, <3>2, <2>3, <1>2, <1>3
  <2> QED BY <2>2, <2>3
<1>5. Is(g)
  BY <1>4
<1> HIDE DEF Is
<1>6. Is(it)
  BY <1>5, Zenon
<1>7. \A s \in SUBSET (1..n) : it[s] = IF s = {} THEN base ELSE Op(it[s \ {Max(s)}], seq[Max(s)])
  <2> HIDE DEF it
  <2> QED BY <1>6 DEF Is
<1>8. Result(base, seq) = it[1..n]
  BY DEF Result, FoldLeft, MapThenFoldSet, it, Is
<1> HIDE DEF it
<1> DEFINE c == [k \in 0..n |-> it[1..k]]
           I == {k \in 0..n : c[k] \in St}
<1>9. c[0] = base
  <2>1. 1..0 = {} /\ c[0] = it[1..0]
    OBVIOUS
  <2>2. it[{}] = base
    BY <1>7
  <2> QED
    BY <2>1, <2>2
<1>10. \A k \in 1..n : c[k] = Op(c[k - 1], seq[k])
  <2>1. TAKE k \in 1..n
  <2>2. Max(1..k) = k /\ (1..k) \ {k} = 1..(k - 1) /\ 1..k # {}
    <3>1. k \in Nat \ {0}
      OBVIOUS
    <3> QED
      BY <3>1, IntervalMax, Zenon
  <2>3. it[1..k] = Op(it[1..(k - 1)], seq[k])
    <3>1. 1..k \in SUBSET (1..n)
      OBVIOUS
    <3> QED
      BY <1>7, <2>2, <3>1
  <2> QED
    BY <2>3
<1>11. c[n] = Result(base, seq)
  BY <1>8
<1> HIDE DEF c
<1>12. 0..n \subseteq I
  <2>1. 0 \in I
    BY <1>9
  <2>2. ASSUME NEW k \in 1..n, k - 1 \in I PROVE k \in I
    <3>1. c[k] = Op(c[k - 1], seq[k]) /\ c[k - 1] \in St
      BY <1>10, <2>2
    <3> QED
      BY <3>1
  <2> HIDE DEF I
  <2> QED
    BY <2>1, <2>2, CountedInduction
<1>13. c \in [0..n -> St]
  BY <1>12 DEF c
<1> QED
  BY <1>9, <1>10, <1>11, <1>13 DEF Folds

LEMMA FoldEmpty ==
  ASSUME NEW base
  PROVE  Result(base, <<>>) = base
<1>1. 0 \in Nat /\ DOMAIN <<>> = 1..0 /\ base \in {base}
  OBVIOUS
<1>2. \A k \in 1..0 : \A a \in {base} : Op(a, <<>>[k]) \in {base}
  OBVIOUS
<1>3. PICK c : Folds(c, 0, {base}, base, <<>>)
  BY <1>1, <1>2, FoldSteps, Zenon
<1> QED
  BY <1>3 DEF Folds

Closed(St, E) == \A a \in St, e \in E : Op(a, e) \in St

LEMMA FoldTyped ==
  ASSUME NEW St, NEW E, NEW base \in St, NEW s \in Seq(E), Closed(St, E)
  PROVE  Result(base, s) \in St
<1>1. Len(s) \in Nat /\ DOMAIN s = 1..Len(s) /\ \A k \in 1..Len(s) : s[k] \in E
  OBVIOUS
<1>2. \A k \in 1..Len(s) : \A a \in St : Op(a, s[k]) \in St
  BY <1>1 DEF Closed
<1>3. PICK c : Folds(c, Len(s), St, base, s)
  BY <1>1, <1>2, FoldSteps, Zenon
<1> QED
  BY <1>1, <1>3 DEF Folds

Grows(St, E) ==
    \A base \in St, s \in Seq(E), x \in E :
        Result(base, Append(s, x)) = Op(Result(base, s), x)

LEMMA FoldAppend ==
  ASSUME NEW St, NEW E, Closed(St, E)
  PROVE  Grows(St, E)
<1> SUFFICES ASSUME NEW base \in St, NEW s \in Seq(E), NEW x \in E
             PROVE  Result(base, Append(s, x)) = Op(Result(base, s), x)
  BY DEF Grows
<1> DEFINE n == Len(s)
           t == Append(s, x)
<1>1. n \in Nat /\ n + 1 \in Nat /\ DOMAIN s = 1..n /\ \A k \in 1..n : s[k] \in E
  OBVIOUS
<1>2. DOMAIN t = 1..(n + 1) /\ (\A k \in 1..n : t[k] = s[k]) /\ t[n + 1] = x
  OBVIOUS
<1>3. \A k \in 1..(n + 1) : t[k] \in E
  BY <1>1, <1>2
<1> HIDE DEF t, n
<1>4. \A k \in 1..n : \A a \in St : Op(a, s[k]) \in St
  BY <1>1 DEF Closed
<1>5. \A k \in 1..(n + 1) : \A a \in St : Op(a, t[k]) \in St
  BY <1>3 DEF Closed
<1>6. PICK c : Folds(c, n, St, base, s)
  BY <1>1, <1>4, FoldSteps, Zenon
<1>7. PICK d : Folds(d, n + 1, St, base, t)
  BY <1>1, <1>2, <1>5, FoldSteps, Zenon
<1>8. /\ c \in [0..n -> St] /\ c[0] = base /\ Result(base, s) = c[n]
      /\ \A k \in 1..n : c[k] = Op(c[k - 1], s[k])
  BY <1>6 DEF Folds
<1>9. /\ d[0] = base /\ Result(base, t) = d[n + 1]
      /\ \A k \in 1..(n + 1) : d[k] = Op(d[k - 1], t[k])
  BY <1>7 DEF Folds
<1> DEFINE I == {k \in 0..n : c[k] = d[k]}
<1>10. 0 \in I
  BY <1>1, <1>8, <1>9
<1>11. ASSUME NEW k \in 1..n, k - 1 \in I PROVE k \in I
  <2>1. c[k - 1] = d[k - 1] /\ k \in 1..(n + 1)
    BY <1>1, <1>11
  <2>2. c[k] = d[k]
    BY <1>2, <1>8, <1>9, <2>1
  <2> QED
    BY <1>1, <2>2
<1> HIDE DEF I
<1>12. 0..n \subseteq I
  BY <1>1, <1>10, <1>11, CountedInduction
<1>13. c[n] = d[n]
  BY <1>1, <1>12 DEF I
<1>14. d[n + 1] = Op(d[n], x)
  <2>1. n + 1 \in 1..(n + 1) /\ (n + 1) - 1 = n
    BY <1>1
  <2> QED
    BY <1>2, <1>9, <2>1
<1> QED
  BY <1>8, <1>9, <1>13, <1>14 DEF t

(* Induction along a fold: what holds of the base, and of each step's      *)
(* result when it holds before, holds of the result.                       *)
LEMMA FoldKeeps ==
  ASSUME NEW n \in Nat, NEW seq, DOMAIN seq = 1..n, NEW St, NEW base \in St,
         \A k \in 1..n : \A a \in St : Op(a, seq[k]) \in St,
         NEW J, base \in J[0],
         \A k \in 1..n : \A a \in St : a \in J[k - 1] => Op(a, seq[k]) \in J[k]
  PROVE  Result(base, seq) \in St /\ Result(base, seq) \in J[n]
<1>1. PICK c : Folds(c, n, St, base, seq)
  BY FoldSteps, Zenon
<1>2. /\ c \in [0..n -> St] /\ c[0] = base /\ Result(base, seq) = c[n]
      /\ \A k \in 1..n : c[k] = Op(c[k - 1], seq[k])
  BY <1>1 DEF Folds
<1> DEFINE I == {k \in 0..n : c[k] \in J[k]}
<1>3. 0 \in I
  BY <1>2
<1>4. ASSUME NEW k \in 1..n, k - 1 \in I PROVE k \in I
  <2>1. c[k - 1] \in J[k - 1] /\ c[k - 1] \in St
    BY <1>2, <1>4
  <2>2. c[k] \in J[k]
    BY <1>2, <2>1
  <2> QED
    BY <2>2
<1> HIDE DEF I
<1>5. 0..n \subseteq I
  BY <1>3, <1>4, CountedInduction
<1>6. c[n] \in J[n] /\ c[n] \in St
  BY <1>2, <1>5 DEF I
<1> QED
  BY <1>2, <1>6
=============================================================================
