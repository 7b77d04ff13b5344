---------------------------- MODULE ListsProofs ----------------------------
(***************************************************************************)
(* What sorting, filtering and folding come to, for data of any length.    *)
(* An order is given as the set of its pairs and a fold by a function, so  *)
(* that these facts can be cited of any operator.                          *)
(***************************************************************************)
EXTENDS Lists, FiniteSetTheorems, SequenceTheorems, WellFoundedInduction, TLAPS

-----------------------------------------------------------------------------
(* Induction, by a least counterexample.                                   *)

LEMMA LessThanIsWellFounded ==
    IsWellFoundedOn({ss \in Nat \X Nat : ss[1] < ss[2]}, Nat)
  BY NatLessThanWellFounded DEF OpToRel

(* A set of numbers that is not empty has a least element.                 *)
LEMMA Least ==
    ASSUME NEW T \in SUBSET Nat, T # {}
    PROVE  \E x \in T : \A y \in T : x <= y
<1> DEFINE R == {ss \in Nat \X Nat : ss[1] < ss[2]}
<1>1. PICK x \in T : \A y \in T : <<y, x>> \notin R
  <2> HIDE DEF R
  <2> QED
    BY LessThanIsWellFounded, WFMin DEF R
<1>2. ASSUME NEW y \in T
      PROVE  x <= y
  <2>1. x \in Nat /\ y \in Nat
    OBVIOUS
  <2>2. ~(y < x)
    BY <1>1, <2>1
  <2> QED
    BY <2>1, <2>2
<1> QED
  BY <1>2

(* A set that holds 0, and with a number the next one, holds them all.     *)
LEMMA SetInduction ==
    ASSUME NEW T, 0 \in T, \A n \in Nat : n \in T => n + 1 \in T
    PROVE  \A n \in Nat : n \in T
<1> DEFINE bad == {n \in Nat : n \notin T}
<1> SUFFICES ASSUME bad # {} PROVE FALSE
  OBVIOUS
<1>1. PICK x \in bad : \A y \in bad : x <= y
  BY Least
<1>2. x - 1 \in Nat /\ x - 1 \notin bad
  BY <1>1
<1> QED
  BY <1>1, <1>2

(* The same up to a bound.                                                 *)
LEMMA UpTo ==
    ASSUME NEW n \in Nat, NEW T, 0 \in T,
           \A k \in 0 .. n - 1 : k \in T => k + 1 \in T
    PROVE  \A k \in 0 .. n : k \in T
<1> DEFINE U == {k \in Nat : k <= n => k \in T}
<1>1. \A k \in Nat : k \in U
  <2>1. 0 \in U
    OBVIOUS
  <2>2. \A k \in Nat : k \in U => k + 1 \in U
    OBVIOUS
  <2> HIDE DEF U
  <2> QED
    BY <2>1, <2>2, SetInduction
<1> QED
  BY <1>1

-----------------------------------------------------------------------------
(* Sorting.                                                                *)

StrictTotal(R, S) ==
    /\ \A x \in S : <<x, x>> \notin R
    /\ \A x, y, z \in S : <<x, y>> \in R /\ <<y, z>> \in R => <<x, z>> \in R
    /\ \A x, y \in S : x # y => <<x, y>> \in R \/ <<y, x>> \in R

(* In a strict total order of a finite set no two elements have the same   *)
(* number of elements under them, and each number below the size of the    *)
(* set is that of one.                                                     *)
LEMMA Ranks ==
    ASSUME NEW S, IsFiniteSet(S), NEW R, StrictTotal(R, S)
    PROVE  /\ \A x \in S : Cardinality(Under(R, S, x)) \in 0 .. Cardinality(S) - 1
           /\ \A x, y \in S : <<x, y>> \in R =>
                 Cardinality(Under(R, S, x)) < Cardinality(Under(R, S, y))
           /\ \A k \in 1 .. Cardinality(S) :
                 \E x \in S : Cardinality(Under(R, S, x)) = k - 1
<1> DEFINE n == Cardinality(S)
           rank == [x \in S |-> Cardinality(Under(R, S, x))]
           T == 0 .. n - 1
<1>1. n \in Nat
  BY FS_CardinalityType
<1>2. \A x \in S : /\ IsFiniteSet(Under(R, S, x))
                   /\ Cardinality(Under(R, S, x)) \in Nat
  <2> TAKE x \in S
  <2>1. Under(R, S, x) \in SUBSET S
    BY DEF Under
  <2> QED
    BY <2>1, FS_Subset, FS_CardinalityType
<1>3. ASSUME NEW x \in S
      PROVE  Cardinality(Under(R, S, x)) \in T
  <2>1. Under(R, S, x) \in SUBSET S /\ Under(R, S, x) # S
    BY DEF Under, StrictTotal
  <2> QED
    BY <1>1, <1>2, <2>1, FS_Subset
<1>4. ASSUME NEW x \in S, NEW y \in S, <<x, y>> \in R
      PROVE  Cardinality(Under(R, S, x)) < Cardinality(Under(R, S, y))
  <2>1. Under(R, S, x) \in SUBSET Under(R, S, y)
    BY <1>4 DEF Under, StrictTotal
  <2>2. x \in Under(R, S, y) /\ x \notin Under(R, S, x)
    BY <1>4 DEF Under, StrictTotal
  <2> QED
    BY <1>2, <2>1, <2>2, FS_Subset
<1>5. rank \in Injection(S, T)
  <2>1. rank \in [S -> T]
    BY <1>3
  <2>2. \A x, y \in S : rank[x] = rank[y] => x = y
    <3> SUFFICES ASSUME NEW x \in S, NEW y \in S, x # y
                 PROVE  rank[x] # rank[y]
      OBVIOUS
    <3>1. <<x, y>> \in R \/ <<y, x>> \in R
      BY DEF StrictTotal
    <3>2. rank[x] < rank[y] \/ rank[y] < rank[x]
      BY <1>4, <3>1
    <3>3. rank[x] \in Nat /\ rank[y] \in Nat
      BY <1>2
    <3> QED
      BY <3>2, <3>3
  <2> QED
    BY <2>1, <2>2 DEF Injection, IsInjective
<1>6. IsFiniteSet(T) /\ Cardinality(T) = n
  BY <1>1, FS_Interval
<1>7. rank \in Surjection(S, T)
  <2> HIDE DEF rank, T, n
  <2> QED
    BY <1>5, <1>6, FS_Injection DEF n
<1>8. ASSUME NEW k \in 1 .. n
      PROVE  \E x \in S : Cardinality(Under(R, S, x)) = k - 1
  <2>1. k - 1 \in T
    BY <1>1
  <2> QED
    BY <1>7, <2>1 DEF Surjection
<1> QED
  BY <1>3, <1>4, <1>8

(* A sorted set: every element once, in the order.                         *)
LEMMA RankedIs ==
    ASSUME NEW S, IsFiniteSet(S), NEW R, StrictTotal(R, S)
    PROVE  LET s == Ranked(S, R)
           IN  /\ Cardinality(S) \in Nat
               /\ s \in [1 .. Cardinality(S) -> S]
               /\ s \in Seq(S) /\ Len(s) = Cardinality(S)
               /\ \A j, k \in DOMAIN s : j < k <=> <<s[j], s[k]>> \in R
               /\ \A j, k \in DOMAIN s : s[j] = s[k] => j = k
               /\ \A x \in S : \E k \in DOMAIN s : s[k] = x
<1> DEFINE n == Cardinality(S)
           s == Ranked(S, R)
           rank(x) == Cardinality(Under(R, S, x))
<1>1. n \in Nat
  BY FS_CardinalityType
<1>2. ASSUME NEW k \in 1 .. n
      PROVE  s[k] \in S /\ rank(s[k]) = k - 1
  <2>1. \E x \in S : rank(x) = k - 1
    BY Ranks
  <2> QED
    BY <2>1 DEF Ranked
<1>3. s \in [1 .. n -> S]
  BY <1>2 DEF Ranked
<1>4. s \in Seq(S) /\ Len(s) = n /\ DOMAIN s = 1 .. n
  BY <1>1, <1>3, IsASeq
<1> HIDE DEF s
<1>5. ASSUME NEW x \in S
      PROVE  \E k \in 1 .. n : s[k] = x
  <2> DEFINE k == rank(x) + 1
  <2>1. k \in 1 .. n
    BY <1>1, Ranks
  <2>2. rank(s[k]) = rank(x) /\ s[k] \in S
    BY <1>1, <1>2, <2>1, Ranks
  <2>3. ~(rank(s[k]) < rank(x)) /\ ~(rank(x) < rank(s[k]))
    BY <1>1, <2>2, Ranks
  <2>4. s[k] = x
    BY <2>2, <2>3, Ranks DEF StrictTotal
  <2> QED
    BY <2>1, <2>4
<1>6. ASSUME NEW j \in 1 .. n, NEW k \in 1 .. n, s[j] = s[k]
      PROVE  j = k
  <2>1. j - 1 = k - 1
    BY <1>2, <1>6
  <2> QED
    BY <1>1, <2>1
<1>7. ASSUME NEW j \in 1 .. n, NEW k \in 1 .. n
      PROVE  j < k <=> <<s[j], s[k]>> \in R
  <2>1. s[j] \in S /\ s[k] \in S /\ rank(s[j]) = j - 1 /\ rank(s[k]) = k - 1
    BY <1>2
  <2>2. <<s[j], s[k]>> \in R => rank(s[j]) < rank(s[k])
    BY <2>1, Ranks
  <2>3. <<s[k], s[j]>> \in R => rank(s[k]) < rank(s[j])
    BY <2>1, Ranks
  <2>4. j # k => <<s[j], s[k]>> \in R \/ <<s[k], s[j]>> \in R
    BY <1>6, <2>1 DEF StrictTotal
  <2> HIDE DEF rank
  <2> QED
    BY <1>1, <2>1, <2>2, <2>3, <2>4
<1>8. /\ n \in Nat
      /\ s \in [1 .. n -> S]
      /\ s \in Seq(S) /\ Len(s) = n
      /\ \A j, k \in DOMAIN s : j < k <=> <<s[j], s[k]>> \in R
      /\ \A j, k \in DOMAIN s : s[j] = s[k] => j = k
      /\ \A x \in S : \E k \in DOMAIN s : s[k] = x
  <2> HIDE DEF n
  <2> QED
    BY <1>1, <1>3, <1>4, <1>5, <1>6, <1>7
<1> QED
  BY <1>8 DEF s

-----------------------------------------------------------------------------
(* Orders made of orders.                                                  *)

Lex(R, E) ==
    {p \in Seq(E) \X Seq(E) :
        \E k \in 1 .. Len(p[2]) :
            /\ k <= Len(p[1]) + 1
            /\ \A i \in 1 .. k - 1 : p[1][i] = p[2][i]
            /\ k <= Len(p[1]) => <<p[1][k], p[2][k]>> \in R}

ByKey(key, R, Q, S) ==
    {p \in S \X S : \/ <<key[p[1]], key[p[2]]>> \in R
                    \/ key[p[1]] = key[p[2]] /\ p \in Q}

LessThan == {p \in Nat \X Nat : p[1] < p[2]}

LEMMA LessThanIsStrict ==
    ASSUME NEW S \in SUBSET Nat
    PROVE  StrictTotal(LessThan, S)
BY DEF StrictTotal, LessThan

(* Sequences in the order of the first place where they differ.            *)
LEMMA LexIsStrict ==
    ASSUME NEW E, NEW R, StrictTotal(R, E)
    PROVE  StrictTotal(Lex(R, E), Seq(E))
<1> DEFINE Differ(a, b, k) ==
              /\ k \in 1 .. Len(b) /\ k <= Len(a) + 1
              /\ \A i \in 1 .. k - 1 : a[i] = b[i]
              /\ k <= Len(a) => <<a[k], b[k]>> \in R
<1>1. ASSUME NEW a \in Seq(E), NEW b \in Seq(E)
      PROVE  <<a, b>> \in Lex(R, E) <=> \E k \in 1 .. Len(b) : Differ(a, b, k)
  BY DEF Lex
<1>2. ASSUME NEW a \in Seq(E)
      PROVE  <<a, a>> \notin Lex(R, E)
  <2> SUFFICES ASSUME NEW k \in 1 .. Len(a), Differ(a, a, k)
               PROVE  FALSE
    BY <1>1
  <2>1. k <= Len(a) /\ a[k] \in E
    OBVIOUS
  <2> QED
    BY <2>1 DEF StrictTotal
<1>3. ASSUME NEW a \in Seq(E), NEW b \in Seq(E), NEW c \in Seq(E),
             <<a, b>> \in Lex(R, E), <<b, c>> \in Lex(R, E)
      PROVE  <<a, c>> \in Lex(R, E)
  <2>1. PICK k \in 1 .. Len(b) : Differ(a, b, k)
    BY <1>1, <1>3
  <2>2. PICK j \in 1 .. Len(c) : Differ(b, c, j)
    BY <1>1, <1>3
  <2>3. /\ Len(a) \in Nat /\ Len(b) \in Nat /\ Len(c) \in Nat
        /\ \A i \in 1 .. Len(a) : a[i] \in E
        /\ \A i \in 1 .. Len(b) : b[i] \in E
        /\ \A i \in 1 .. Len(c) : c[i] \in E
    OBVIOUS
  <2>4. CASE k < j
    <3>1. k \in 1 .. Len(c) /\ b[k] = c[k]
      BY <2>2, <2>3, <2>4
    <3>2. \A i \in 1 .. k - 1 : a[i] = c[i]
      <4> TAKE i \in 1 .. k - 1
      <4>1. i \in 1 .. j - 1
        BY <2>3, <2>4
      <4> QED
        BY <2>1, <2>2, <4>1
    <3>3. Differ(a, c, k)
      BY <2>1, <3>1, <3>2
    <3> QED
      BY <1>1, <3>1, <3>3
  <2>5. CASE j < k
    <3>1. a[j] = b[j] /\ j <= Len(a) + 1 /\ j <= Len(b)
      BY <2>1, <2>3, <2>5
    <3>2. \A i \in 1 .. j - 1 : a[i] = c[i]
      <4> TAKE i \in 1 .. j - 1
      <4>1. i \in 1 .. k - 1
        BY <2>3, <2>5
      <4> QED
        BY <2>1, <2>2, <4>1
    <3>3. Differ(a, c, j)
      BY <2>2, <3>1, <3>2
    <3> QED
      BY <1>1, <3>3
  <2>6. CASE j = k
    <3>1. \A i \in 1 .. k - 1 : a[i] = c[i]
      BY <2>1, <2>2, <2>6
    <3>2. k <= Len(a) => <<a[k], c[k]>> \in R
      <4> SUFFICES ASSUME k <= Len(a) PROVE <<a[k], c[k]>> \in R
        OBVIOUS
      <4>1. a[k] \in E /\ b[k] \in E /\ c[k] \in E
        BY <2>3, <2>6
      <4>2. <<a[k], b[k]>> \in R /\ <<b[k], c[k]>> \in R
        BY <2>1, <2>2, <2>3, <2>6
      <4> QED
        BY <4>1, <4>2 DEF StrictTotal
    <3>3. Differ(a, c, k)
      BY <2>1, <2>2, <2>6, <3>1, <3>2
    <3> QED
      BY <1>1, <2>6, <3>3
  <2> QED
    BY <2>3, <2>4, <2>5, <2>6
<1>4. ASSUME NEW a \in Seq(E), NEW b \in Seq(E), a # b
      PROVE  <<a, b>> \in Lex(R, E) \/ <<b, a>> \in Lex(R, E)
  <2> DEFINE D == {i \in Nat : i \in 1 .. Len(a) /\ i \in 1 .. Len(b) /\ a[i] # b[i]}
  <2>1. /\ Len(a) \in Nat /\ Len(b) \in Nat
        /\ \A i \in 1 .. Len(a) : a[i] \in E
        /\ \A i \in 1 .. Len(b) : b[i] \in E
    OBVIOUS
  <2>2. CASE D # {}
    <3>1. PICK k \in D : \A i \in D : k <= i
      BY <2>2, Least
    <3>2. \A i \in 1 .. k - 1 : a[i] = b[i]
      <4> SUFFICES ASSUME NEW i \in 1 .. k - 1, a[i] # b[i] PROVE FALSE
        OBVIOUS
      <4>1. i \in D /\ i < k
        BY <2>1
      <4> QED
        BY <3>1, <4>1
    <3>3. <<a[k], b[k]>> \in R \/ <<b[k], a[k]>> \in R
      BY <2>1 DEF StrictTotal
    <3>4. Differ(a, b, k) \/ Differ(b, a, k)
      BY <2>1, <3>2, <3>3
    <3> QED
      BY <1>1, <3>4
  <2>3. CASE D = {}
    <3>1. \A i \in 1 .. Len(a) : i <= Len(b) => a[i] = b[i]
      BY <2>3
    <3>2. CASE Len(a) = Len(b)
      <4>1. a = b
        BY <3>1, <3>2
      <4> QED
        BY <1>4, <4>1
    <3>3. CASE Len(a) < Len(b)
      <4>1. Differ(a, b, Len(a) + 1)
        BY <2>1, <3>1, <3>3
      <4> QED
        BY <1>1, <4>1
    <3>4. CASE Len(b) < Len(a)
      <4>1. Differ(b, a, Len(b) + 1)
        BY <2>1, <3>1, <3>4, SMTT(30)
      <4> QED
        BY <1>1, <4>1
    <3> QED
      BY <2>1, <3>2, <3>3, <3>4
  <2> QED
    BY <2>2, <2>3
<1> QED
  BY <1>2, <1>3, <1>4 DEF StrictTotal

(* By a key first, and among equal keys by another order.                  *)
LEMMA ByKeyIsStrict ==
    ASSUME NEW S, NEW T, NEW key \in [S -> T],
           NEW R, StrictTotal(R, T), NEW Q, StrictTotal(Q, S)
    PROVE  StrictTotal(ByKey(key, R, Q, S), S)
<1> DEFINE O == ByKey(key, R, Q, S)
<1>1. \A x, y \in S : <<x, y>> \in O <=> \/ <<key[x], key[y]>> \in R
                                         \/ key[x] = key[y] /\ <<x, y>> \in Q
  BY DEF ByKey
<1>2. \A x \in S : key[x] \in T
  OBVIOUS
<1> HIDE DEF O
<1>3. \A x \in S : <<x, x>> \notin O
  BY <1>1, <1>2 DEF StrictTotal
<1>4. ASSUME NEW x \in S, NEW y \in S, NEW z \in S, <<x, y>> \in O, <<y, z>> \in O
      PROVE  <<x, z>> \in O
  <2>1. key[x] \in T /\ key[y] \in T /\ key[z] \in T
    BY <1>2
  <2>2. CASE <<key[x], key[y]>> \in R /\ <<key[y], key[z]>> \in R
    BY <1>1, <2>1, <2>2 DEF StrictTotal
  <2>3. CASE key[x] = key[y] /\ <<x, y>> \in Q /\ key[y] = key[z] /\ <<y, z>> \in Q
    BY <1>1, <2>1, <2>3 DEF StrictTotal
  <2>4. CASE key[x] = key[y] /\ <<key[y], key[z]>> \in R
    BY <1>1, <2>4
  <2>5. CASE <<key[x], key[y]>> \in R /\ key[y] = key[z]
    BY <1>1, <2>5
  <2> QED
    BY <1>1, <1>4, <2>2, <2>3, <2>4, <2>5
<1>5. ASSUME NEW x \in S, NEW y \in S, x # y
      PROVE  <<x, y>> \in O \/ <<y, x>> \in O
  BY <1>1, <1>2, <1>5 DEF StrictTotal
<1>6. StrictTotal(O, S)
  BY <1>3, <1>4, <1>5 DEF StrictTotal
<1> QED
  BY <1>6 DEF O

LEMMA ImageIsFinite ==
    ASSUME NEW S, IsFiniteSet(S), NEW f, DOMAIN f = S
    PROVE  IsFiniteSet({f[x] : x \in S})
<1> DEFINE T == {f[x] : x \in S}
           g == [x \in S |-> f[x]]
<1>1. g \in Surjection(S, T)
  BY DEF Surjection
<1> HIDE DEF g, T
<1> QED
  BY <1>1, FS_Surjection DEF T

-----------------------------------------------------------------------------
(* Beginnings of a sequence.                                               *)

LEMMA BeginningIs ==
    ASSUME NEW S, NEW t \in Seq(S), NEW n \in 0 .. Len(t)
    PROVE  /\ SubSeq(t, 1, n) \in Seq(S)
           /\ Len(SubSeq(t, 1, n)) = n
           /\ \A i \in 1 .. n : SubSeq(t, 1, n)[i] = t[i]
<1>1. n \in Nat /\ n <= Len(t) /\ \A i \in 1 .. Len(t) : t[i] \in S
  OBVIOUS
<1>2. 1 \in Int /\ n \in Int /\ \A i \in 1 .. n : t[i] \in S
  BY <1>1
<1>3. /\ SubSeq(t, 1, n) \in Seq(S)
      /\ Len(SubSeq(t, 1, n)) = IF 1 <= n THEN n - 1 + 1 ELSE 0
      /\ \A i \in 1 .. n - 1 + 1 : SubSeq(t, 1, n)[i] = t[1 + i - 1]
  BY <1>2, SubSeqProperties
<1>4. (IF 1 <= n THEN n - 1 + 1 ELSE 0) = n /\ n - 1 + 1 = n /\ \A i \in 1 .. n : 1 + i - 1 = i
  BY <1>1
<1> QED
  BY <1>3, <1>4

LEMMA PrefixIs ==
    ASSUME NEW S, NEW s \in Seq(S), NEW t \in Seq(S)
    PROVE  /\ IsPrefix(s, t) <=> /\ Len(s) <= Len(t)
                                 /\ \A i \in 1 .. Len(s) : s[i] = t[i]
           /\ IsPrefix(s, t) <=> \E n \in 0 .. Len(t) : s = SubSeq(t, 1, n)
           /\ IsPrefix(s, t) => s = SubSeq(t, 1, Len(s)) /\ Len(s) \in 0 .. Len(t)
<1>1. Len(s) \in Nat /\ Len(t) \in Nat /\ SubSeq(s, 1, Len(s)) = s
  BY SubSeqFull
<1>2. \A n \in 0 .. Len(t) : /\ SubSeq(t, 1, n) \in Seq(S)
                             /\ Len(SubSeq(t, 1, n)) = n
                             /\ \A i \in 1 .. n : SubSeq(t, 1, n)[i] = t[i]
  BY BeginningIs
<1>3. IsPrefix(s, t) => s = SubSeq(t, 1, Len(s)) /\ Len(s) \in 0 .. Len(t)
  BY <1>1 DEF IsPrefix
<1>4. \A n \in 0 .. Len(t) : s = SubSeq(t, 1, n) => IsPrefix(s, t)
  BY <1>1, <1>2 DEF IsPrefix
<1>5. Len(s) <= Len(t) /\ (\A i \in 1 .. Len(s) : s[i] = t[i]) => s = SubSeq(t, 1, Len(s))
  <2> SUFFICES ASSUME Len(s) <= Len(t), \A i \in 1 .. Len(s) : s[i] = t[i]
               PROVE  s = SubSeq(t, 1, Len(s))
    OBVIOUS
  <2> DEFINE u == SubSeq(t, 1, Len(s))
  <2>1. u \in Seq(S) /\ Len(u) = Len(s) /\ \A i \in 1 .. Len(s) : u[i] = t[i]
    BY <1>1, <1>2
  <2> HIDE DEF u
  <2>2. s = u
    BY <2>1, SeqEqual
  <2> QED
    BY <2>2 DEF u
<1>6. IsPrefix(s, t) => \A i \in 1 .. Len(s) : s[i] = t[i]
  BY <1>2, <1>3
<1>7. IsPrefix(s, t) <=> Len(s) <= Len(t) /\ \A i \in 1 .. Len(s) : s[i] = t[i]
  <2>1. Len(s) <= Len(t) => Len(s) \in 0 .. Len(t)
    BY <1>1
  <2>2. Len(s) \in 0 .. Len(t) => Len(s) <= Len(t)
    BY <1>1
  <2> QED
    BY <1>3, <1>4, <1>5, <1>6, <2>1, <2>2
<1>8. IsPrefix(s, t) <=> \E n \in 0 .. Len(t) : s = SubSeq(t, 1, n)
  BY <1>3, <1>4
<1> QED
  BY <1>3, <1>7, <1>8

(* Of two beginnings of one sequence one is a beginning of the other.      *)
LEMMA PrefixesMeet ==
    ASSUME NEW S, NEW r \in Seq(S), NEW s \in Seq(S), NEW t \in Seq(S)
    PROVE  /\ IsPrefix(r, t) /\ IsPrefix(s, t) => IsPrefix(r, s) \/ IsPrefix(s, r)
           /\ IsPrefix(r, s) /\ IsPrefix(s, t) => IsPrefix(r, t)
           /\ IsPrefix(r, s) /\ IsPrefix(s, r) => r = s
<1>1. /\ IsPrefix(r, t) <=> Len(r) <= Len(t) /\ \A i \in 1 .. Len(r) : r[i] = t[i]
      /\ IsPrefix(s, t) <=> Len(s) <= Len(t) /\ \A i \in 1 .. Len(s) : s[i] = t[i]
      /\ IsPrefix(r, s) <=> Len(r) <= Len(s) /\ \A i \in 1 .. Len(r) : r[i] = s[i]
      /\ IsPrefix(s, r) <=> Len(s) <= Len(r) /\ \A i \in 1 .. Len(s) : s[i] = r[i]
  BY PrefixIs
<1>2. Len(r) \in Nat /\ Len(s) \in Nat /\ Len(t) \in Nat
  OBVIOUS
<1>3. IsPrefix(r, s) /\ IsPrefix(s, r) => r = s
  BY <1>1, <1>2, SeqEqual
<1> QED
  BY <1>1, <1>2, <1>3

-----------------------------------------------------------------------------
(* Filtering.                                                              *)

Steps(A, n) == [A \X (1 .. n) -> A]
Goes(g, base, G, n) == g[0] = base /\ \A k \in 1 .. n : g[k] = G[<<g[k - 1], k>>]

(* What a recursion over the numbers up to n goes through exists.          *)
LEMMA RecursionExists ==
    ASSUME NEW n \in Nat, NEW A, NEW base \in A, NEW G \in Steps(A, n)
    PROVE  \E g \in [0 .. n -> A] : Goes(g, base, G, n)
<1> DEFINE Good(g, k) == g[0] = base /\ \A j \in 1 .. k : g[j] = G[<<g[j - 1], j>>]
           T == {k \in 0 .. n : \E g \in [0 .. k -> A] : Good(g, k)}
<1>1. 0 \in T
  <2> DEFINE g == [k \in 0 .. 0 |-> base]
  <2>1. g \in [0 .. 0 -> A] /\ Good(g, 0)
    OBVIOUS
  <2> HIDE DEF g, Good
  <2> QED
    BY <2>1
<1>2. ASSUME NEW k \in 0 .. n - 1, k \in T
      PROVE  k + 1 \in T
  <2>1. PICK g \in [0 .. k -> A] : Good(g, k)
    BY <1>2
  <2> DEFINE f == [j \in 0 .. k + 1 |-> IF j = k + 1 THEN G[<<g[k], k + 1>>] ELSE g[j]]
  <2>2. k \in Nat /\ k + 1 \in 0 .. n /\ k + 1 \in 1 .. n
    OBVIOUS
  <2>3. f \in [0 .. k + 1 -> A]
    <3>1. G[<<g[k], k + 1>>] \in A
      BY <2>2 DEF Steps
    <3> QED
      BY <2>2, <3>1
  <2>4. Good(f, k + 1)
    <3>1. f[0] = base
      BY <2>1, <2>2
    <3>2. ASSUME NEW j \in 1 .. k + 1
          PROVE  f[j] = G[<<f[j - 1], j>>]
      <4>1. CASE j = k + 1
        <5>1. f[j] = G[<<g[k], k + 1>>] /\ f[j - 1] = g[k] /\ j - 1 = k
          BY <2>2, <4>1
        <5> QED
          BY <4>1, <5>1
      <4>2. CASE j # k + 1
        <5>1. j \in 1 .. k /\ j - 1 \in 0 .. k /\ j - 1 # k + 1
          BY <2>2, <4>2
        <5>2. f[j] = g[j] /\ f[j - 1] = g[j - 1]
          BY <4>2, <5>1
        <5> QED
          BY <2>1, <5>1, <5>2
      <4> QED
        BY <4>1, <4>2
    <3> QED
      BY <3>1, <3>2
  <2> HIDE DEF f, Good
  <2> QED
    BY <2>2, <2>3, <2>4
<1>3. n \in T
  <2> HIDE DEF T
  <2>1. \A k \in 0 .. n : k \in T
    BY <1>1, <1>2, UpTo
  <2> QED
    BY <2>1
<1> QED
  BY <1>3 DEF Goes

\* The lists that a sublist goes through.
Grows(upto, seq, K) ==
    /\ upto[0] = <<>>
    /\ \A m \in 0 .. Len(seq) - 1 :
          upto[m + 1] = IF m + 1 \in K THEN Append(upto[m], seq[m + 1]) ELSE upto[m]

LEMMA SublistUnfolds ==
    ASSUME NEW S, NEW seq \in Seq(S), NEW K \in SUBSET DOMAIN seq
    PROVE  \E upto : Sublist(seq, K) = upto[Len(seq)] /\ Grows(upto, seq, K)
<1> DEFINE n == Len(seq)
           body(f) == [k \in 0 .. n |->
                          IF k = 0 THEN <<>>
                          ELSE IF k \in K THEN Append(f[k - 1], seq[k]) ELSE f[k - 1]]
           G == [p \in Seq(S) \X (1 .. n) |->
                    IF p[2] \in K THEN Append(p[1], seq[p[2]]) ELSE p[1]]
           upto == CHOOSE f : f = body(f)
<1>1. n \in Nat /\ DOMAIN seq = 1 .. n /\ \A k \in 1 .. n : seq[k] \in S
  OBVIOUS
<1>2. G \in [Seq(S) \X (1 .. n) -> Seq(S)]
  BY <1>1
<1>3. PICK g \in [0 .. n -> Seq(S)] :
         g[0] = <<>> /\ \A k \in 1 .. n : g[k] = G[<<g[k - 1], k>>]
  <2> DEFINE A == Seq(S)  base == <<>>
  <2>1. base \in A
    OBVIOUS
  <2>2. G \in Steps(A, n)
    BY <1>2 DEF Steps
  <2> HIDE DEF A, G, n, base
  <2>3. n \in Nat
    BY <1>1
  <2>4. \E g \in [0 .. n -> A] : Goes(g, base, G, n)
    BY <2>1, <2>2, <2>3, RecursionExists
  <2> QED
    BY <2>4 DEF A, base, Goes
<1>4. g = body(g)
  <2>1. ASSUME NEW k \in 1 .. n
        PROVE  g[k] = IF k \in K THEN Append(g[k - 1], seq[k]) ELSE g[k - 1]
    <3>1. g[k - 1] \in Seq(S)
      BY <1>1
    <3>2. <<g[k - 1], k>> \in Seq(S) \X (1 .. n)
      BY <3>1
    <3>3. G[<<g[k - 1], k>>] = IF k \in K THEN Append(g[k - 1], seq[k]) ELSE g[k - 1]
      BY <3>2
    <3> HIDE DEF G
    <3> QED
      BY <1>3, <3>3
  <2>2. \A k \in 0 .. n : g[k] = body(g)[k]
    <3> HIDE DEF G, n
    <3>1. \A k \in 0 .. n : k # 0 => k \in 1 .. n
      BY <1>1
    <3> QED
      BY <1>3, <2>1, <3>1
  <2>3. DOMAIN body(g) = 0 .. n /\ DOMAIN g = 0 .. n
    OBVIOUS
  <2> HIDE DEF body
  <2> QED
    BY <2>2, <2>3
<1>5. upto = body(upto)
  <2> HIDE DEF body
  <2> QED
    BY <1>4
<1>6. Sublist(seq, K) = upto[n]
  BY DEF Sublist
<1>7. /\ upto[0] = <<>>
      /\ \A m \in 0 .. n - 1 :
            upto[m + 1] = IF m + 1 \in K THEN Append(upto[m], seq[m + 1]) ELSE upto[m]
  <2> HIDE DEF upto
  <2>1. \A m \in 0 .. n : upto[m] = body(upto)[m]
    BY <1>5
  <2> HIDE DEF n
  <2>2. upto[0] = <<>>
    BY <1>1, <2>1
  <2>3. ASSUME NEW m \in 0 .. n - 1
        PROVE  upto[m + 1] = IF m + 1 \in K THEN Append(upto[m], seq[m + 1]) ELSE upto[m]
    <3>1. m + 1 \in 0 .. n /\ m + 1 # 0 /\ (m + 1) - 1 = m
      BY <1>1
    <3> QED
      BY <2>1, <3>1
  <2> QED
    BY <2>2, <2>3
<1> HIDE DEF upto
<1>8. Grows(upto, seq, K)
  BY <1>7 DEF Grows, n
<1> QED
  BY <1>6, <1>8 DEF n

\* The position that each element of a sublist comes from.
Picks(h, s, seq, K) ==
    /\ h \in [DOMAIN s -> K]
    /\ \A j \in DOMAIN s : s[j] = seq[h[j]]
    /\ \A i, j \in DOMAIN s : i < j => h[i] < h[j]
    /\ \A k \in K : \E j \in DOMAIN s : h[j] = k

(* A sublist holds what stands at the positions it is of, in their order.  *)
LEMMA SublistIs ==
    ASSUME NEW S, NEW seq \in Seq(S), NEW K \in SUBSET DOMAIN seq
    PROVE  LET s == Sublist(seq, K)
           IN  /\ s \in Seq(S)
               /\ ToSet(s) = {seq[k] : k \in K}
               /\ \A j \in DOMAIN s : \E k \in K : s[j] = seq[k]
               /\ \A k \in K : \E j \in DOMAIN s : s[j] = seq[k]
               /\ s = <<>> <=> K = {}
               /\ \E h : Picks(h, s, seq, K)
<1> DEFINE n == Len(seq)
           Places(s, h, m) ==
              /\ h \in [DOMAIN s -> {k \in K : k <= m}]
              /\ \A j \in DOMAIN s : s[j] = seq[h[j]]
              /\ \A i, j \in DOMAIN s : i < j => h[i] < h[j]
              /\ \A k \in K : k <= m => \E j \in DOMAIN s : h[j] = k
<1>1. n \in Nat /\ DOMAIN seq = 1 .. n /\ \A k \in 1 .. n : seq[k] \in S
  OBVIOUS
<1>0. PICK upto : Sublist(seq, K) = upto[Len(seq)] /\ Grows(upto, seq, K)
  BY SublistUnfolds
<1>2. /\ Sublist(seq, K) = upto[n]
      /\ upto[0] = <<>>
      /\ \A m \in 0 .. n - 1 :
            upto[m + 1] = IF m + 1 \in K THEN Append(upto[m], seq[m + 1]) ELSE upto[m]
  BY <1>0 DEF Grows
<1> HIDE DEF n
<1> DEFINE T == {m \in 0 .. n : upto[m] \in Seq(S) /\ \E h : Places(upto[m], h, m)}
<1>3. 0 \in T
  <2> DEFINE h == [j \in {} |-> j]
  <2>1. upto[0] \in Seq(S) /\ DOMAIN upto[0] = {}
    BY <1>2
  <2>2. 0 \in 0 .. n /\ \A k \in K : ~(k <= 0)
    BY <1>1
  <2>3. Places(upto[0], h, 0)
    BY <2>1, <2>2
  <2> HIDE DEF h, Places
  <2> QED
    BY <2>1, <2>2, <2>3
<1>4. ASSUME NEW m \in 0 .. n - 1, m \in T
      PROVE  m + 1 \in T
  <2>1. m + 1 \in 1 .. n /\ m + 1 \in 0 .. n /\ m \in Nat /\ seq[m + 1] \in S
    BY <1>1
  <2>2. PICK h : Places(upto[m], h, m)
    BY <1>4
  <2>3. upto[m] \in Seq(S)
    BY <1>4
  <2>4. CASE m + 1 \in K
    <3> DEFINE old == upto[m]  new == upto[m + 1]
               g == [j \in DOMAIN new |-> IF j = Len(old) + 1 THEN m + 1 ELSE h[j]]
    <3>1. new = Append(old, seq[m + 1]) /\ old \in Seq(S)
      BY <1>2, <2>3, <2>4
    <3> HIDE DEF old, new
    <3>2. /\ new \in Seq(S) /\ DOMAIN new = 1 .. Len(old) + 1
          /\ DOMAIN old = 1 .. Len(old) /\ Len(old) \in Nat
          /\ \A j \in 1 .. Len(old) : new[j] = old[j]
          /\ new[Len(old) + 1] = seq[m + 1]
      BY <2>1, <3>1
    <3>3. \A j \in DOMAIN old : h[j] \in K /\ h[j] <= m
      BY <2>2 DEF old
    <3>4. \A j \in DOMAIN new : j # Len(old) + 1 => j \in DOMAIN old
      BY <3>2
    <3>5. g \in [DOMAIN new -> {k \in K : k <= m + 1}]
      BY <1>1, <2>1, <2>4, <3>3, <3>4
    <3>6. \A j \in DOMAIN new : new[j] = seq[g[j]]
      BY <2>2, <3>2, <3>4 DEF old
    <3>7. ASSUME NEW i \in DOMAIN new, NEW j \in DOMAIN new, i < j
          PROVE  g[i] < g[j]
      <4>1. i \in DOMAIN old /\ g[i] = h[i] /\ h[i] <= m /\ h[i] \in Nat
        BY <1>1, <3>2, <3>3, <3>7
      <4>2. CASE j = Len(old) + 1
        <5>1. g[j] = m + 1
          BY <4>2
        <5> HIDE DEF g
        <5> QED
          BY <2>1, <4>1, <5>1
      <4>3. CASE j # Len(old) + 1
        <5>1. j \in DOMAIN old /\ g[j] = h[j]
          BY <3>4, <4>3
        <5> QED
          BY <2>2, <3>7, <4>1, <5>1 DEF old
      <4> QED
        BY <4>2, <4>3
    <3>8. ASSUME NEW k \in K, k <= m + 1
          PROVE  \E j \in DOMAIN new : g[j] = k
      <4>1. CASE k = m + 1
        <5>1. Len(old) + 1 \in DOMAIN new
          BY <3>2
        <5> QED
          BY <4>1, <5>1
      <4>2. CASE k # m + 1
        <5>1. k <= m
          BY <1>1, <2>1, <3>8, <4>2
        <5>2. PICK j \in DOMAIN old : h[j] = k
          BY <2>2, <5>1 DEF old
        <5>3. j \in DOMAIN new /\ g[j] = h[j]
          BY <3>2
        <5> QED
          BY <5>2, <5>3
      <4> QED
        BY <4>1, <4>2
    <3> HIDE DEF g
    <3>9. Places(new, g, m + 1)
      BY <3>5, <3>6, <3>7, <3>8
    <3> HIDE DEF Places
    <3> QED
      BY <2>1, <3>2, <3>9 DEF new
  <2>5. CASE m + 1 \notin K
    <3>1. upto[m + 1] = upto[m]
      BY <1>2, <2>1, <2>5
    <3>2. \A k \in K : k <= m + 1 <=> k <= m
      BY <1>1, <2>1, <2>5
    <3>3. Places(upto[m], h, m + 1)
      BY <2>2, <3>2
    <3> HIDE DEF Places
    <3> QED
      BY <2>1, <2>3, <3>1, <3>3
  <2> QED
    BY <2>4, <2>5
<1>5. n \in T
  <2> HIDE DEF T
  <2>1. \A m \in 0 .. n : m \in T
    BY <1>1, <1>3, <1>4, UpTo
  <2> QED
    BY <1>1, <2>1
<1> DEFINE s == upto[n]
<1>6. s \in Seq(S)
  BY <1>5
<1>7. PICK h : Places(s, h, n)
  BY <1>5
<1> HIDE DEF s
<1>8. \A k \in K : k <= n
  BY <1>1
<1>9. /\ h \in [DOMAIN s -> K]
      /\ \A j \in DOMAIN s : s[j] = seq[h[j]]
      /\ \A i, j \in DOMAIN s : i < j => h[i] < h[j]
      /\ \A k \in K : \E j \in DOMAIN s : h[j] = k
  BY <1>7, <1>8
<1> HIDE DEF Places
<1>10. /\ \A j \in DOMAIN s : \E k \in K : s[j] = seq[k]
       /\ \A k \in K : \E j \in DOMAIN s : s[j] = seq[k]
  BY <1>9
<1>11. ToSet(s) = {seq[k] : k \in K}
  BY <1>10 DEF ToSet
<1>12. s = <<>> <=> K = {}
  <2>1. s = <<>> <=> DOMAIN s = {}
    BY <1>6
  <2>2. DOMAIN s = {} <=> K = {}
    BY <1>10
  <2> QED
    BY <2>1, <2>2
<1>13. Sublist(seq, K) = s
  BY <1>2 DEF s
<1>14. Picks(h, s, seq, K)
  BY <1>9 DEF Picks
<1> QED
  BY <1>6, <1>10, <1>11, <1>12, <1>13, <1>14

-----------------------------------------------------------------------------
(* Folds.                                                                  *)

LEMMA Greatest ==
    ASSUME NEW n \in Nat, NEW T \in SUBSET (1 .. n), T # {}
    PROVE  Max(T) \in T /\ \A y \in T : y <= Max(T)
<1> DEFINE U == {n - x : x \in T}
<1>1. PICK u \in U : \A v \in U : u <= v
  <2>1. \A x \in T : n - x \in Nat
    OBVIOUS
  <2>2. \E x \in T : n - x \in U
    OBVIOUS
  <2> QED
    BY <2>1, <2>2, Least
<1>2. PICK x \in T : u = n - x
  OBVIOUS
<1>3. \A y \in T : y <= x
  <2> TAKE y \in T
  <2>1. n - x <= n - y
    BY <1>1, <1>2
  <2> QED
    BY <2>1
<1> QED
  BY <1>3 DEF Max

LEMMA MaxOfInterval ==
    ASSUME NEW k \in Nat \ {0}
    PROVE  Max(1 .. k) = k /\ (1 .. k) \ {k} = 1 .. k - 1 /\ 1 .. k # {}
<1>1. k \in 1 .. k
  OBVIOUS
<1>2. Max(1 .. k) \in 1 .. k /\ \A y \in 1 .. k : y <= Max(1 .. k)
  BY <1>1, Greatest
<1> QED
  BY <1>1, <1>2

(* What FoldLeft recurs through exists: a value for every set of positions. *)
LEMMA FoldExists ==
    ASSUME NEW A, NEW base \in A, NEW S, NEW seq \in Seq(S), NEW G \in [A \X S -> A]
    PROVE  \E g \in [SUBSET DOMAIN seq -> A] :
              \A s \in SUBSET DOMAIN seq :
                 g[s] = IF s = {} THEN base ELSE G[<<g[s \ {Max(s)}], seq[Max(s)]>>]
<1> DEFINE n == Len(seq)
           Good(g, k) ==
              \A s \in SUBSET (1 .. k) :
                 g[s] = IF s = {} THEN base ELSE G[<<g[s \ {Max(s)}], seq[Max(s)]>>]
           T == {k \in 0 .. n : \E g \in [SUBSET (1 .. k) -> A] : Good(g, k)}
<1>1. n \in Nat /\ DOMAIN seq = 1 .. n /\ \A k \in 1 .. n : seq[k] \in S
  OBVIOUS
<1>2. 0 \in T
  <2> DEFINE g == [s \in SUBSET (1 .. 0) |-> base]
  <2>1. g \in [SUBSET (1 .. 0) -> A] /\ Good(g, 0)
    OBVIOUS
  <2>2. 0 \in 0 .. n
    BY <1>1
  <2> HIDE DEF g, Good
  <2> QED
    BY <2>1, <2>2
<1>3. ASSUME NEW k \in 0 .. n - 1, k \in T
      PROVE  k + 1 \in T
  <2>1. PICK g \in [SUBSET (1 .. k) -> A] : Good(g, k)
    BY <1>3
  <2> DEFINE f == [s \in SUBSET (1 .. k + 1) |->
                      IF k + 1 \in s THEN G[<<g[s \ {k + 1}], seq[k + 1]>>] ELSE g[s]]
  <2>2. k \in Nat /\ k + 1 \in 0 .. n /\ k + 1 \in 1 .. n
    BY <1>1
  <2>3. ASSUME NEW s \in SUBSET (1 .. k + 1)
        PROVE  /\ k + 1 \notin s => s \in SUBSET (1 .. k)
               /\ s \ {k + 1} \in SUBSET (1 .. k)
               /\ k + 1 \in s => Max(s) = k + 1
               /\ s # {} /\ k + 1 \notin s => s \ {Max(s)} \in SUBSET (1 .. k)
                                           /\ k + 1 \notin s \ {Max(s)}
    <3>1. k + 1 \notin s => s \in SUBSET (1 .. k)
      BY <2>2
    <3>2. s \ {k + 1} \in SUBSET (1 .. k)
      BY <2>2
    <3>3. s # {} => Max(s) \in s /\ \A y \in s : y <= Max(s)
      <4>1. k + 1 \in Nat
        BY <2>2
      <4> HIDE DEF T, Good
      <4> QED
        BY <4>1, Greatest
    <3>4. k + 1 \in s => Max(s) = k + 1
      <4> SUFFICES ASSUME k + 1 \in s PROVE Max(s) = k + 1
        OBVIOUS
      <4>1. Max(s) \in 1 .. k + 1 /\ k + 1 <= Max(s)
        BY <3>3
      <4> HIDE DEF T, Good
      <4> QED
        BY <2>2, <4>1
    <3> QED
      BY <3>1, <3>2, <3>4
  <2>4. f \in [SUBSET (1 .. k + 1) -> A]
    BY <1>1, <2>2, <2>3
  <2>5. Good(f, k + 1)
    <3> SUFFICES ASSUME NEW s \in SUBSET (1 .. k + 1)
                 PROVE  f[s] = IF s = {} THEN base
                               ELSE G[<<f[s \ {Max(s)}], seq[Max(s)]>>]
      OBVIOUS
    <3>1. CASE k + 1 \in s
      <4>1. f[s \ {k + 1}] = g[s \ {k + 1}]
        BY <2>2, <2>3
      <4>2. Max(s) = k + 1 /\ s # {}
        BY <2>3, <3>1
      <4> QED
        BY <3>1, <4>1, <4>2
    <3>2. CASE k + 1 \notin s
      <4>1. f[s] = g[s] /\ s \in SUBSET (1 .. k)
        BY <2>3, <3>2
      <4>2. s # {} => f[s \ {Max(s)}] = g[s \ {Max(s)}]
        BY <2>3, <3>2
      <4> QED
        BY <2>1, <4>1, <4>2
    <3> QED
      BY <3>1, <3>2
  <2> HIDE DEF f, Good
  <2> QED
    BY <2>2, <2>4, <2>5
<1>4. n \in T
  <2> HIDE DEF T
  <2>1. \A k \in 0 .. n : k \in T
    BY <1>1, <1>2, <1>3, UpTo
  <2> QED
    BY <1>1, <2>1
<1> QED
  BY <1>1, <1>4
=============================================================================
