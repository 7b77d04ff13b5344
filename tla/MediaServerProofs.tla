------------------------- MODULE MediaServerProofs -------------------------
(***************************************************************************)
(* Theorems about the library, how it is listed and searched, and what is  *)
(* sent of it, for every disk, every list of sources, every file system,   *)
(* every set of Range headers, every length and chunk size, every cap of a *)
(* page, and every bound.                                                  *)
(***************************************************************************)
EXTENDS ControlPoint, ListsProofs

-----------------------------------------------------------------------------
(* The orders of names and paths.                                          *)

NameOrder == Lex(LessThan, Nat)
PathOrder == Lex(NameOrder, Seq(Nat))

(* A relation that says the same of a set's elements orders it the same.   *)
LEMMA StrictWhere ==
    ASSUME NEW E, NEW R, StrictTotal(R, E), NEW S \in SUBSET E, NEW Q,
           \A x, y \in S : <<x, y>> \in Q <=> <<x, y>> \in R
    PROVE  StrictTotal(Q, S)
BY DEF StrictTotal

LEMMA NamesAreOrdered ==
    /\ StrictTotal(NameOrder, Seq(Nat))
    /\ \A a, b \in Seq(Nat) : NameLess(a, b) <=> <<a, b>> \in NameOrder
<1>1. StrictTotal(NameOrder, Seq(Nat))
    BY LessThanIsStrict, LexIsStrict DEF NameOrder
<1>2. ASSUME NEW a \in Seq(Nat), NEW b \in Seq(Nat)
      PROVE  NameLess(a, b) <=> <<a, b>> \in NameOrder
    <2>1. \A k \in 1 .. Len(b) : k <= Len(a) =>
              (a[k] < b[k] <=> <<a[k], b[k]>> \in LessThan)
        BY DEF LessThan
    <2>2. NameLess(a, b) <=> \E k \in 1 .. Len(b) :
              /\ k <= Len(a) + 1
              /\ \A i \in 1 .. k - 1 : a[i] = b[i]
              /\ k <= Len(a) => a[k] < b[k]
        BY DEF NameLess, Before
    <2>3. <<a, b>> \in NameOrder <=> \E k \in 1 .. Len(b) :
              /\ k <= Len(a) + 1
              /\ \A i \in 1 .. k - 1 : a[i] = b[i]
              /\ k <= Len(a) => <<a[k], b[k]>> \in LessThan
        BY DEF NameOrder, Lex
    <2> QED
        BY <2>1, <2>2, <2>3
<1> QED
    BY <1>1, <1>2

LEMMA PathsAreOrdered ==
    /\ StrictTotal(PathOrder, Seq(Seq(Nat)))
    /\ \A a, b \in Seq(Seq(Nat)) : PathLess(a, b) <=> <<a, b>> \in PathOrder
<1>1. StrictTotal(PathOrder, Seq(Seq(Nat)))
    BY NamesAreOrdered, LexIsStrict DEF PathOrder
<1>2. ASSUME NEW a \in Seq(Seq(Nat)), NEW b \in Seq(Seq(Nat))
      PROVE  PathLess(a, b) <=> <<a, b>> \in PathOrder
    <2>1. \A k \in 1 .. Len(b) : k <= Len(a) =>
              (NameLess(a[k], b[k]) <=> <<a[k], b[k]>> \in NameOrder)
        BY NamesAreOrdered
    <2>2. PathLess(a, b) <=> \E k \in 1 .. Len(b) :
              /\ k <= Len(a) + 1
              /\ \A i \in 1 .. k - 1 : a[i] = b[i]
              /\ k <= Len(a) => NameLess(a[k], b[k])
        BY DEF PathLess, Before
    <2>3. <<a, b>> \in PathOrder <=> \E k \in 1 .. Len(b) :
              /\ k <= Len(a) + 1
              /\ \A i \in 1 .. k - 1 : a[i] = b[i]
              /\ k <= Len(a) => <<a[k], b[k]>> \in NameOrder
        BY DEF PathOrder, Lex
    <2> QED
        BY <2>1, <2>2, <2>3
<1> QED
    BY <1>1, <1>2

LEMMA LowerIs ==
    ASSUME NEW name \in Seq(Nat)
    PROVE  Lower(name) \in Seq(Nat) /\ Len(Lower(name)) = Len(name)
<1>1. \A i \in DOMAIN name : name[i] \div 2 \in Nat
    OBVIOUS
<1>2. Lower(name) \in [1 .. Len(name) -> Nat]
    BY <1>1 DEF Lower
<1>3. Len(name) \in Nat
    OBVIOUS
<1> QED
    BY <1>2, <1>3

LEMMA NameOfPath ==
    ASSUME NEW p \in Seq(Name), p # <<>>
    PROVE  /\ FileName(p) \in Name
           /\ Front(p) \in Seq(Name)
           /\ Len(Front(p)) = Len(p) - 1
           /\ \A k \in 1 .. Len(p) - 1 : Front(p)[k] = p[k]
           /\ p = Append(Front(p), FileName(p))
<1>1. Len(p) \in Nat \ {0}
    OBVIOUS
<1>2. FileName(p) = p[Len(p)]
    BY DEF FileName, Last
<1>3. /\ Front(p) \in Seq(Name)
      /\ Len(Front(p)) = Len(p) - 1
      /\ \A k \in 1 .. Len(p) - 1 : Front(p)[k] = p[k]
    <2>1. Len(p) - 1 \in 0 .. Len(p)
        BY <1>1
    <2> QED
        BY <2>1, BeginningIs DEF Front
<1>4. p = Append(Front(p), FileName(p))
    BY <1>1, <1>2, <1>3
<1> QED
    BY <1>1, <1>2, <1>3, <1>4

MediaOrder == {p \in FilePath \X FilePath : MediaLess(p[1], p[2])}

LEMMA MediaIsOrdered == StrictTotal(MediaOrder, FilePath)
<1> DEFINE key == [p \in FilePath |-> Lower(FileName(p))]
           O == ByKey(key, NameOrder, PathOrder, FilePath)
<1>1. key \in [FilePath -> Seq(Nat)]
    <2>1. \A p \in FilePath : Lower(FileName(p)) \in Seq(Nat)
        BY NameOfPath, LowerIs DEF FilePath, Name
    <2> QED
        BY <2>1
<1>2. FilePath \in SUBSET Seq(Seq(Nat))
    BY DEF FilePath, Name
<1>3. StrictTotal(PathOrder, FilePath)
    <2>1. \A x, y \in FilePath : <<x, y>> \in PathOrder <=> <<x, y>> \in PathOrder
        OBVIOUS
    <2> QED
        BY <1>2, <2>1, PathsAreOrdered, StrictWhere
<1>4. StrictTotal(O, FilePath)
    <2> HIDE DEF key
    <2> QED
        BY <1>1, <1>3, NamesAreOrdered, ByKeyIsStrict
<1>5. ASSUME NEW x \in FilePath, NEW y \in FilePath
      PROVE  <<x, y>> \in MediaOrder <=> <<x, y>> \in O
    <2>1. key[x] \in Seq(Nat) /\ key[y] \in Seq(Nat)
        BY <1>1
    <2>2. NameLess(key[x], key[y]) <=> <<key[x], key[y]>> \in NameOrder
        BY <2>1, NamesAreOrdered
    <2>3. PathLess(x, y) <=> <<x, y>> \in PathOrder
        BY <1>2, PathsAreOrdered
    <2>4. key[x] = Lower(FileName(x)) /\ key[y] = Lower(FileName(y))
        OBVIOUS
    <2>5. <<x, y>> \in MediaOrder <=> \/ NameLess(key[x], key[y])
                                      \/ key[x] = key[y] /\ PathLess(x, y)
        BY <2>4 DEF MediaOrder, MediaLess
    <2> HIDE DEF key
    <2>6. <<x, y>> \in O <=> \/ <<key[x], key[y]>> \in NameOrder
                             \/ key[x] = key[y] /\ <<x, y>> \in PathOrder
        BY DEF ByKey
    <2> QED
        BY <2>2, <2>3, <2>5, <2>6
<1> HIDE DEF O
<1> QED
    BY <1>4, <1>5, StrictWhere

SidecarOrder(own) == {p \in Name \X Name : SidecarLess(p[1], p[2], own)}

LEMMA SidecarsAreOrdered ==
    ASSUME NEW own
    PROVE  StrictTotal(SidecarOrder(own), Name)
<1> DEFINE tagged(n) == Lower(Stem(n)) # Lower(own)
           first == [n \in Name |-> IF tagged(n) THEN 1 ELSE 0]
           rank == [n \in Name |-> IF tagged(n) THEN 0 ELSE Last(n) \div 2]
           Q == ByKey(rank, LessThan, NameOrder, Name)
           O == ByKey(first, LessThan, Q, Name)
<1>1. first \in [Name -> Nat]
    OBVIOUS
<1>2. rank \in [Name -> Nat]
    <2>1. ASSUME NEW n \in Name
          PROVE  Last(n) \div 2 \in Nat
        <3>1. n \in Seq(Nat) /\ Len(n) \in Nat \ {0}
            BY DEF Name
        <3>2. n[Len(n)] \in Nat
            BY <3>1
        <3> QED
            BY <3>2 DEF Last
    <2> QED
        BY <2>1
<1>3. StrictTotal(NameOrder, Name)
    <2>1. Name \in SUBSET Seq(Nat)
        BY DEF Name
    <2> QED
        BY <2>1, NamesAreOrdered, StrictWhere
<1> HIDE DEF first, rank
<1>4. StrictTotal(LessThan, Nat)
    BY LessThanIsStrict
<1>5. StrictTotal(Q, Name)
    BY <1>2, <1>3, <1>4, ByKeyIsStrict
<1>6. StrictTotal(O, Name)
    <2> HIDE DEF Q
    <2> QED
        BY <1>1, <1>4, <1>5, ByKeyIsStrict
<1>7. ASSUME NEW x \in Name, NEW y \in Name
      PROVE  <<x, y>> \in SidecarOrder(own) <=> <<x, y>> \in O
    <2>1. /\ first[x] \in Nat /\ first[y] \in Nat
          /\ rank[x] \in Nat /\ rank[y] \in Nat
        BY <1>1, <1>2
    <2>2. NameLess(x, y) <=> <<x, y>> \in NameOrder
        BY NamesAreOrdered DEF Name
    <2>3. <<x, y>> \in O <=>
             \/ first[x] < first[y]
             \/ /\ first[x] = first[y]
                /\ rank[x] < rank[y] \/ (rank[x] = rank[y] /\ NameLess(x, y))
        BY <2>1, <2>2 DEF ByKey, LessThan
    <2>4. /\ first[x] < first[y] <=> ~tagged(x) /\ tagged(y)
          /\ first[x] = first[y] <=> tagged(x) = tagged(y)
        BY DEF first
    <2>5. /\ rank[x] = IF tagged(x) THEN 0 ELSE Last(x) \div 2
          /\ rank[y] = IF tagged(y) THEN 0 ELSE Last(y) \div 2
        BY DEF rank
    <2>6. <<x, y>> \in SidecarOrder(own) <=> SidecarLess(x, y, own)
        BY DEF SidecarOrder
    <2> HIDE DEF O, tagged
    <2>7. SidecarLess(x, y, own) <=>
             \/ ~tagged(x) /\ tagged(y)
             \/ /\ tagged(x) = tagged(y)
                /\ rank[x] < rank[y] \/ (rank[x] = rank[y] /\ NameLess(x, y))
        BY <2>5 DEF SidecarLess, tagged
    <2> QED
        BY <2>3, <2>4, <2>6, <2>7
<1> HIDE DEF O
<1> QED
    BY <1>6, <1>7, StrictWhere

-----------------------------------------------------------------------------
(* Sidecars.                                                               *)

ADisk(disk) == IsFiniteSet(DOMAIN disk) /\ DOMAIN disk \in SUBSET FilePath

LEMMA SiblingsAre ==
    ASSUME NEW disk, ADisk(disk), NEW path
    PROVE  IsFiniteSet(Siblings(disk, path)) /\ Siblings(disk, path) \in SUBSET Name
<1> DEFINE T == {q \in DOMAIN disk : /\ Len(q) = Len(path) /\ Front(q) = Front(path)
                                     /\ disk[q] = "file"}
           f == [q \in T |-> FileName(q)]
<1>1. Siblings(disk, path) = {f[q] : q \in T}
    BY DEF Siblings
<1>2. IsFiniteSet(T)
    BY FS_Subset DEF ADisk
<1>3. \A q \in T : FileName(q) \in Name
    BY NameOfPath DEF ADisk, FilePath
<1> HIDE DEF T
<1>4. IsFiniteSet({f[q] : q \in T})
    <2>1. DOMAIN f = T
        OBVIOUS
    <2> HIDE DEF f
    <2> QED
        BY <1>2, <2>1, ImageIsFinite
<1> QED
    BY <1>1, <1>3, <1>4

LEMMA StemIs ==
    ASSUME NEW n \in Name
    PROVE  /\ Stem(n) \in Seq(Nat) /\ Len(Stem(n)) = Len(n) - 1
           /\ Lower(Stem(n)) \in Seq(Nat) /\ Len(Lower(Stem(n))) = Len(n) - 1
           /\ Len(n) \in Nat /\ Len(n) > 1
<1>1. n \in Seq(Nat) /\ Len(n) > 1 /\ Len(n) \in Nat /\ Len(n) - 1 \in 0 .. Len(n)
    BY DEF Name
<1>2. Stem(n) \in Seq(Nat) /\ Len(Stem(n)) = Len(n) - 1
    BY <1>1, BeginningIs DEF Stem, Front
<1> QED
    BY <1>1, <1>2, LowerIs

(* The owner's stem is a beginning of the sidecar's, and no stem of a      *)
(* media file beside them lies between the two.                            *)
LEMMA OwnerStemIsLongest ==
    ASSUME NEW n \in Name, NEW stems, OwnerStem(n, stems) # <<>>,
           NEW stem \in stems, stem \in Seq(Nat), IsPrefix(stem, Lower(Stem(n)))
    PROVE  Len(stem) <= Len(OwnerStem(n, stems)) \/ stem = <<>>
<1> DEFINE s == Lower(Stem(n))
           base(k) == SubSeq(s, 1, Len(Stem(n)) - k)
           fits == {k \in 0 .. 2 : k < Len(Stem(n)) /\ base(k) \in stems}
           least == CHOOSE k \in fits : \A j \in fits : k <= j
<1>1. s \in Seq(Nat) /\ Len(s) \in Nat /\ Len(Stem(n)) = Len(s)
    BY StemIs
<1>2. fits # {} /\ OwnerStem(n, stems) = base(least)
    BY DEF OwnerStem
<1>3. least \in fits /\ \A j \in fits : least <= j
    <2>1. fits \in SUBSET Nat
        OBVIOUS
    <2> HIDE DEF fits
    <2>2. \E k \in fits : \A j \in fits : k <= j
        BY <1>2, <2>1, Least
    <2> QED
        BY <2>2
<1> HIDE DEF least, s
<1>4. Len(base(least)) = Len(s) - least
    <2>1. Len(s) - least \in 0 .. Len(s)
        BY <1>1, <1>3
    <2> QED
        BY <1>1, <2>1, BeginningIs
<1>5. stem = SubSeq(s, 1, Len(stem)) /\ Len(stem) \in 0 .. Len(s)
    BY <1>1, PrefixIs DEF s
<1> SUFFICES ASSUME Len(stem) > Len(s) - least, stem # <<>>
             PROVE  FALSE
    BY <1>1, <1>2, <1>3, <1>4, <1>5
<1> DEFINE j == Len(s) - Len(stem)
<1>6. j \in 0 .. 2 /\ j < least /\ j < Len(s)
    <2>1. Len(stem) # 0
        OBVIOUS
    <2> QED
        BY <1>1, <1>3, <1>5, <2>1, SMTT(30)
<1>7. base(j) = stem
    <2>1. Len(Stem(n)) - j = Len(stem)
        BY <1>1, <1>5
    <2> QED
        BY <1>5, <2>1
<1>8. j \in fits
    BY <1>1, <1>6, <1>7
<1> QED
    BY <1>3, <1>6, <1>8

LEMMA SubtitlesAre ==
    ASSUME NEW disk, ADisk(disk), NEW files \in Seq(FilePath),
           NEW i \in DOMAIN files
    PROVE  LET here == {j \in DOMAIN files : Front(files[j]) = Front(files[i])}
               stems == {Lower(Stem(FileName(files[j]))) : j \in here}
               subs == SidecarSubtitles(disk, files)
           IN  /\ subs[i] \in Seq(Name)
               /\ \A k \in DOMAIN subs[i] :
                     OwnerStem(subs[i][k], stems) = Lower(Stem(FileName(files[i])))
<1> DEFINE here == {j \in DOMAIN files : Front(files[j]) = Front(files[i])}
           stems == {Lower(Stem(FileName(files[j]))) : j \in here}
           own == Stem(FileName(files[i]))
           mine == {n \in Siblings(disk, files[i]) :
                       MimeOf(n) = "text" /\ OwnerStem(n, stems) = Lower(own)}
           R == {p \in mine \X mine : SidecarLess(p[1], p[2], own)}
<1>1. SidecarSubtitles(disk, files)[i] = Ranked(mine, R)
    BY DEF SidecarSubtitles, Sorted, OrderOf
<1>2. IsFiniteSet(mine) /\ mine \in SUBSET Name
    BY SiblingsAre, FS_Subset
<1>3. \A n \in mine : OwnerStem(n, stems) = Lower(own)
    OBVIOUS
<1>4. \A x, y \in mine : <<x, y>> \in R <=> <<x, y>> \in SidecarOrder(own)
    BY <1>2 DEF SidecarOrder
<1> HIDE DEF mine, R, own, stems
<1>5. StrictTotal(R, mine)
    BY <1>2, <1>4, SidecarsAreOrdered, StrictWhere
<1>6. Ranked(mine, R) \in Seq(mine)
    BY <1>2, <1>5, RankedIs
<1> QED
    BY <1>1, <1>2, <1>3, <1>6 DEF own, stems

LEMMA LongestStemOwns ==
    ASSUME NEW disk, ADisk(disk), NEW files \in Seq(FilePath),
           NEW i \in DOMAIN files, NEW j \in DOMAIN files,
           NEW k \in DOMAIN SidecarSubtitles(disk, files)[i],
           Front(files[i]) = Front(files[j]),
           IsStrictPrefix(Lower(Stem(FileName(files[i]))), Lower(Stem(FileName(files[j]))))
    PROVE  ~IsPrefix(Lower(Stem(FileName(files[j]))),
                     Lower(Stem(SidecarSubtitles(disk, files)[i][k])))
<1> DEFINE stem(f) == Lower(Stem(FileName(files[f])))
           here == {f \in DOMAIN files : Front(files[f]) = Front(files[i])}
           stems == {stem(f) : f \in here}
           n == SidecarSubtitles(disk, files)[i][k]
<1>1. ASSUME NEW f \in DOMAIN files
      PROVE  stem(f) \in Seq(Nat) /\ Len(stem(f)) \in Nat \ {0}
    <2>1. FileName(files[f]) \in Name
        BY NameOfPath DEF FilePath
    <2> QED
        BY <2>1, StemIs
<1>2. n \in Name /\ OwnerStem(n, stems) = stem(i)
    <2> DEFINE subs == SidecarSubtitles(disk, files)
    <2>1. /\ subs[i] \in Seq(Name)
          /\ \A m \in DOMAIN subs[i] : OwnerStem(subs[i][m], stems) = stem(i)
        BY SubtitlesAre
    <2> HIDE DEF subs, stems, stem
    <2>2. k \in DOMAIN subs[i] /\ n = subs[i][k]
        BY DEF subs
    <2> QED
        BY <2>1, <2>2
<1>3. stem(j) \in stems
    OBVIOUS
<1> HIDE DEF n, stems, stem
<1>4. stem(i) # <<>> /\ stem(j) # <<>>
    BY <1>1
<1>5. IsPrefix(stem(i), stem(j)) /\ stem(i) # stem(j)
    BY DEF IsStrictPrefix, stem
<1>6. Len(stem(i)) < Len(stem(j))
    <2>1. Len(stem(i)) <= Len(stem(j)) /\ \A q \in 1 .. Len(stem(i)) : stem(i)[q] = stem(j)[q]
        BY <1>1, <1>5, PrefixIs
    <2>2. Len(stem(i)) # Len(stem(j))
        BY <1>1, <1>5, <2>1, SeqEqual
    <2> QED
        BY <1>1, <2>1, <2>2
<1>7. ~IsPrefix(stem(j), Lower(Stem(n)))
    BY <1>1, <1>2, <1>3, <1>4, <1>6, OwnerStemIsLongest
<1> QED
    BY <1>7 DEF stem, n

-----------------------------------------------------------------------------
(* Sources.                                                                *)

\* No root is another one or inside another one.
Apart(roots) ==
    /\ roots \in Seq(FilePath)
    /\ \A i, j \in DOMAIN roots : IsPrefix(roots[i], roots[j]) => i = j

LEMMA OutermostKeepsApart ==
    ASSUME NEW roots, Apart(roots), NEW dir \in Seq(Name)
    PROVE  Apart(Outermost(roots, dir))
<1> DEFINE K == {k \in DOMAIN roots : ~IsPrefix(dir, roots[k])}
           rest == Sublist(roots, K)
<1>0. Outermost(roots, dir) =
          IF dir = <<>> \/ \E i \in DOMAIN roots : IsPrefix(roots[i], dir) THEN roots
          ELSE Append(rest, dir)
    BY DEF Outermost, Selected
<1>1. CASE dir = <<>> \/ \E i \in DOMAIN roots : IsPrefix(roots[i], dir)
    BY <1>0, <1>1
<1>2. CASE dir # <<>> /\ \A i \in DOMAIN roots : ~IsPrefix(roots[i], dir)
    <2> DEFINE new == Append(rest, dir)
    <2>1. roots \in Seq(FilePath) /\ dir \in FilePath /\ K \in SUBSET DOMAIN roots
        BY <1>2 DEF Apart, FilePath
    <2> HIDE DEF K
    <2>2. PICK h : Picks(h, rest, roots, K)
        BY <2>1, SublistIs
    <2>3. rest \in Seq(FilePath)
        BY <2>1, SublistIs
    <2> HIDE DEF rest
    <2>4. /\ new \in Seq(FilePath) /\ DOMAIN rest = 1 .. Len(rest) /\ Len(rest) \in Nat
          /\ DOMAIN new = 1 .. Len(rest) + 1
          /\ \A j \in 1 .. Len(rest) : new[j] = rest[j]
          /\ new[Len(rest) + 1] = dir
        BY <2>1, <2>3
    <2> HIDE DEF new
    <2>5. ASSUME NEW i \in DOMAIN new, NEW j \in DOMAIN new, IsPrefix(new[i], new[j])
          PROVE  i = j
        <3>1. CASE i \in 1 .. Len(rest) /\ j \in 1 .. Len(rest)
            <4>1. h[i] \in DOMAIN roots /\ h[j] \in DOMAIN roots
                BY <2>1, <2>2, <2>4, <3>1 DEF Picks
            <4>2. h[i] = h[j]
                BY <2>2, <2>4, <2>5, <3>1, <4>1 DEF Apart, Picks
            <4>3. DOMAIN roots \in SUBSET Nat
                BY <2>1
            <4>4. ~(i < j) /\ ~(j < i)
                BY <2>2, <2>4, <3>1, <4>1, <4>2, <4>3 DEF Picks
            <4> QED
                BY <2>4, <3>1, <4>4
        <3>2. CASE i \in 1 .. Len(rest) /\ j = Len(rest) + 1
            <4>1. h[i] \in DOMAIN roots /\ new[i] = roots[h[i]]
                BY <2>1, <2>2, <2>4, <3>2 DEF Picks
            <4> QED
                BY <1>2, <2>4, <2>5, <3>2, <4>1
        <3>3. CASE i = Len(rest) + 1 /\ j \in 1 .. Len(rest)
            <4>1. h[j] \in K /\ new[j] = roots[h[j]]
                BY <2>1, <2>2, <2>4, <3>3 DEF Picks
            <4>2. ~IsPrefix(dir, roots[h[j]])
                BY <4>1 DEF K
            <4> QED
                BY <2>4, <2>5, <3>3, <4>1, <4>2
        <3> QED
            BY <2>4, <3>1, <3>2, <3>3
    <2>6. Apart(new)
        BY <2>4, <2>5 DEF Apart
    <2> QED
        BY <1>0, <1>2, <2>6 DEF new
<1> QED
    BY <1>1, <1>2

LEMMA RootsAreApart ==
    ASSUME NEW dirs \in Seq(Seq(Name))
    PROVE  Apart(UniqueCanonicalRoots(dirs))
<1> DEFINE n == Len(dirs)
           A == {roots \in Seq(FilePath) : Apart(roots)}
           base == <<>>
           G == [p \in A \X (1 .. n) |-> Outermost(p[1], dirs[p[2]])]
           body(f) == [k \in 0 .. n |->
                          IF k = 0 THEN base ELSE Outermost(f[k - 1], dirs[k])]
           kept == CHOOSE f : f = body(f)
<1>1. n \in Nat /\ \A k \in 1 .. n : dirs[k] \in Seq(Name)
    OBVIOUS
<1>2. base \in A
    BY DEF Apart
<1>3. \A roots \in A, k \in 1 .. n : Outermost(roots, dirs[k]) \in A
    BY <1>1, OutermostKeepsApart DEF Apart
<1> HIDE DEF A, base, n
<1>4. G \in Steps(A, n) /\ \A a \in A, k \in 1 .. n : G[<<a, k>>] = Outermost(a, dirs[k])
    BY <1>3 DEF Steps
<1> HIDE DEF G
<1>5. PICK g \in [0 .. n -> A] : Goes(g, base, G, n)
    BY <1>1, <1>2, <1>4, RecursionExists
<1>6. g = body(g)
    <2>1. \A k \in 1 .. n : k - 1 \in 0 .. n
        BY <1>1
    <2>2. \A k \in 1 .. n : g[k] = Outermost(g[k - 1], dirs[k])
        BY <1>4, <1>5, <2>1 DEF Goes
    <2>3. g[0] = base /\ \A k \in 0 .. n : k # 0 => k \in 1 .. n
        BY <1>1, <1>5 DEF Goes
    <2> QED
        BY <2>2, <2>3
<1>7. kept = body(kept)
    <2> HIDE DEF body
    <2> QED
        BY <1>6
<1> HIDE DEF kept
<1> DEFINE T == {k \in 0 .. n : kept[k] \in A}
<1>8. 0 \in T
    BY <1>1, <1>2, <1>7
<1>9. ASSUME NEW k \in 0 .. n - 1, k \in T PROVE k + 1 \in T
    <2>1. k + 1 \in 0 .. n /\ k + 1 \in 1 .. n /\ k + 1 # 0 /\ k + 1 - 1 = k
        BY <1>1
    <2>2. kept[k + 1] = body(kept)[k + 1]
        BY <1>7
    <2>3. kept[k + 1] = Outermost(kept[k], dirs[k + 1])
        BY <2>1, <2>2
    <2> QED
        BY <1>3, <1>9, <2>1, <2>3
<1>10. n \in T
    <2> HIDE DEF T
    <2>1. \A k \in 0 .. n : k \in T
        BY <1>1, <1>8, <1>9, UpTo
    <2> QED
        BY <1>1, <2>1
<1>11. UniqueCanonicalRoots(dirs) = kept[n]
    BY DEF UniqueCanonicalRoots, kept, n, base
<1> QED
    BY <1>10, <1>11 DEF A

-----------------------------------------------------------------------------
(* Files.                                                                  *)

\* Files below the roots, each once, and none in the place of a folder.
Indexed(files, roots) ==
    /\ files \in Seq(FilePath)
    /\ \A i, j \in DOMAIN files : files[i] = files[j] => i = j
    /\ \A i \in DOMAIN files :
          \E r \in DOMAIN roots : IsPrefix(roots[r], files[i]) /\ roots[r] # files[i]
    /\ \A i, j \in DOMAIN files : IsPrefix(files[i], files[j]) => i = j

LEMMA FoundIsBelow ==
    ASSUME NEW disk, ADisk(disk), NEW root \in FilePath, NEW p \in FindMedia(disk, root)
    PROVE  /\ p \in FilePath /\ p \in DOMAIN disk /\ disk[p] = "file"
           /\ IsPrefix(root, p) /\ root # p
           /\ \A n \in Len(root) .. Len(p) - 1 : disk[SubSeq(p, 1, n)] = "dir"
BY DEF FindMedia, ADisk, IsStrictPrefix, Entered

LEMMA FoundUnderOneRoot ==
    ASSUME NEW disk, ADisk(disk), NEW roots, Apart(roots),
           NEW q \in DOMAIN roots, NEW r \in DOMAIN roots,
           NEW a \in FindMedia(disk, roots[q]), NEW b \in FindMedia(disk, roots[r]),
           IsPrefix(a, b)
    PROVE  q = r /\ a = b
<1>1. /\ roots[q] \in FilePath /\ roots[r] \in FilePath
      /\ FilePath \in SUBSET Seq(Name)
    BY DEF Apart, FilePath
<1>2. /\ a \in FilePath /\ disk[a] = "file" /\ IsPrefix(roots[q], a) /\ roots[q] # a
      /\ b \in FilePath /\ IsPrefix(roots[r], b)
      /\ \A n \in Len(roots[r]) .. Len(b) - 1 : disk[SubSeq(b, 1, n)] = "dir"
    BY <1>1, FoundIsBelow
<1>3. IsPrefix(roots[q], b)
    BY <1>1, <1>2, PrefixesMeet
<1>4. IsPrefix(roots[q], roots[r]) \/ IsPrefix(roots[r], roots[q])
    BY <1>1, <1>2, <1>3, PrefixesMeet
<1>5. q = r
    BY <1>4 DEF Apart
<1>6. /\ a = SubSeq(b, 1, Len(a)) /\ Len(a) \in 0 .. Len(b)
      /\ Len(roots[q]) <= Len(a) /\ Len(b) \in Nat /\ Len(roots[q]) \in Nat
    <2>1. a \in Seq(Name) /\ b \in Seq(Name) /\ roots[q] \in Seq(Name)
        BY <1>1, <1>2
    <2>2. a = SubSeq(b, 1, Len(a)) /\ Len(a) \in 0 .. Len(b)
        BY <2>1, PrefixIs
    <2>3. Len(roots[q]) <= Len(a)
        BY <1>2, <2>1, PrefixIs
    <2> QED
        BY <2>1, <2>2, <2>3
<1>7. Len(a) = Len(b)
    <2> SUFFICES ASSUME Len(a) # Len(b) PROVE FALSE
        OBVIOUS
    <2>1. Len(a) \in Len(roots[r]) .. Len(b) - 1
        BY <1>5, <1>6
    <2>2. disk[a] = "dir"
        BY <1>2, <1>6, <2>1
    <2> QED
        BY <1>2, <2>2
<1>8. a = b
    <2>1. b \in Seq(Name)
        BY <1>1, <1>2
    <2> QED
        BY <1>6, <1>7, <2>1, SubSeqFull
<1> QED
    BY <1>5, <1>8

LEMMA FilesAreIndexed ==
    ASSUME NEW disk, ADisk(disk), NEW roots, Apart(roots)
    PROVE  LET files == MediaFiles(disk, roots)
           IN  /\ Indexed(files, roots)
               /\ \A i \in DOMAIN files : \E r \in DOMAIN roots : files[i] \in FindMedia(disk, roots[r])
<1> DEFINE found == UNION {{<<i, p>> : p \in FindMedia(disk, roots[i])} : i \in DOMAIN roots}
           less(x, y) == \/ MediaLess(x[2], y[2])
                         \/ x[2] = y[2] /\ x[1] < y[1]
           R == {p \in found \X found : less(p[1], p[2])}
           list == Ranked(found, R)
           files == [k \in DOMAIN list |-> list[k][2]]
<1>1. MediaFiles(disk, roots) = files
    BY DEF MediaFiles, Sorted, OrderOf
<1>2. ASSUME NEW x \in found
      PROVE  /\ x[1] \in DOMAIN roots /\ x[1] \in Nat
             /\ x[2] \in FindMedia(disk, roots[x[1]])
             /\ x[2] \in DOMAIN disk /\ x[2] \in FilePath
             /\ x = <<x[1], x[2]>>
    <2>1. PICK r \in DOMAIN roots : x \in {<<r, p>> : p \in FindMedia(disk, roots[r])}
        BY <1>2
    <2>2. PICK p \in FindMedia(disk, roots[r]) : x = <<r, p>>
        BY <2>1
    <2>3. roots[r] \in FilePath /\ r \in Nat
        BY DEF Apart
    <2>4. p \in DOMAIN disk /\ p \in FilePath
        BY <2>3, FoundIsBelow
    <2> HIDE DEF found
    <2> QED
        BY <2>2, <2>3, <2>4
<1>3. IsFiniteSet(found)
    <2>1. IsFiniteSet(DOMAIN roots)
        <3>1. DOMAIN roots = 1 .. Len(roots) /\ Len(roots) \in Nat
            BY DEF Apart
        <3> QED
            BY <3>1, FS_Interval
    <2> DEFINE D == DOMAIN roots  P == DOMAIN disk
    <2>2. IsFiniteSet(D) /\ IsFiniteSet(P)
        BY <2>1 DEF ADisk
    <2>3. \A x \in found : x \in D \X P
        <3> HIDE DEF found
        <3> QED
            BY <1>2
    <2> HIDE DEF D, P, found
    <2>4. IsFiniteSet(D \X P)
        BY <2>2, FS_Product
    <2>5. found \subseteq D \X P
        BY <2>3
    <2> QED
        BY <2>4, <2>5, FS_Subset
<1>4. StrictTotal(R, found)
    <2>2. \A x \in found : x[1] \in Nat /\ x[2] \in FilePath /\ x = <<x[1], x[2]>>
        <3> HIDE DEF found
        <3> QED
            BY <1>2
    <2>3. /\ \A a \in FilePath : ~MediaLess(a, a)
          /\ \A a, b, c \in FilePath : MediaLess(a, b) /\ MediaLess(b, c) => MediaLess(a, c)
          /\ \A a, b \in FilePath : a # b => MediaLess(a, b) \/ MediaLess(b, a)
        <3>1. \A a, b \in FilePath : MediaLess(a, b) <=> <<a, b>> \in MediaOrder
            BY DEF MediaOrder
        <3> QED
            BY <3>1, MediaIsOrdered DEF StrictTotal
    <2>4. \A x, y \in found : <<x, y>> \in R <=> less(x, y)
        OBVIOUS
    <2> HIDE DEF found, R
    <2>5. \A x \in found : ~less(x, x)
        BY <2>2, <2>3
    <2>6. \A x, y, z \in found : less(x, y) /\ less(y, z) => less(x, z)
        BY <2>2, <2>3
    <2>7. \A x, y \in found : x # y => less(x, y) \/ less(y, x)
        BY <2>2, <2>3
    <2> HIDE DEF less
    <2> QED
        BY <2>4, <2>5, <2>6, <2>7 DEF StrictTotal
<1> HIDE DEF found, R
<1>5. /\ list \in Seq(found)
      /\ \A j, k \in DOMAIN list : list[j] = list[k] => j = k
    BY <1>3, <1>4, RankedIs
<1> HIDE DEF list
<1>6. \A k \in DOMAIN list : list[k] \in found /\ files[k] = list[k][2]
    BY <1>5
<1>7. files \in Seq(FilePath)
    <2>1. \A k \in DOMAIN list : list[k] \in found => list[k][2] \in FilePath
        BY <1>2
    <2>2. DOMAIN list = 1 .. Len(list) /\ Len(list) \in Nat
        BY <1>5
    <2>3. files \in [1 .. Len(list) -> FilePath]
        BY <1>6, <2>1, <2>2
    <2> HIDE DEF files
    <2> QED
        BY <2>2, <2>3
<1>8. DOMAIN files = DOMAIN list
    OBVIOUS
<1> HIDE DEF files
<1>9. ASSUME NEW i \in DOMAIN files, NEW j \in DOMAIN files, IsPrefix(files[i], files[j])
      PROVE  i = j
    <2>1. /\ files[i] \in FindMedia(disk, roots[list[i][1]]) /\ list[i][1] \in DOMAIN roots
          /\ files[j] \in FindMedia(disk, roots[list[j][1]]) /\ list[j][1] \in DOMAIN roots
          /\ list[i] = <<list[i][1], files[i]>> /\ list[j] = <<list[j][1], files[j]>>
        <3>1. list[i] \in found /\ list[j] \in found
            BY <1>6, <1>8
        <3> QED
            BY <1>2, <1>6, <1>8, <3>1
    <2>2. list[i][1] = list[j][1] /\ files[i] = files[j]
        BY <1>9, <2>1, FoundUnderOneRoot
    <2>3. list[i] = list[j]
        BY <2>1, <2>2
    <2> QED
        BY <1>5, <1>8, <2>3
<1>10. \A i \in DOMAIN files : IsPrefix(files[i], files[i])
    <2>1. \A i \in DOMAIN files : files[i] \in Seq(Name)
        BY <1>7 DEF FilePath
    <2> QED
        BY <2>1, PrefixIs
<1>11. \A i \in DOMAIN files : \E r \in DOMAIN roots : files[i] \in FindMedia(disk, roots[r])
    <2>1. \A i \in DOMAIN files : list[i] \in found /\ files[i] = list[i][2]
        BY <1>6, <1>8
    <2>2. \A x \in found : x[1] \in DOMAIN roots /\ x[2] \in FindMedia(disk, roots[x[1]])
        BY <1>2
    <2> QED
        BY <2>1, <2>2
<1>12. \A i \in DOMAIN files :
          \E r \in DOMAIN roots : IsPrefix(roots[r], files[i]) /\ roots[r] # files[i]
    <2>1. \A r \in DOMAIN roots : roots[r] \in FilePath
        BY DEF Apart
    <2> QED
        BY <1>11, <2>1, FoundIsBelow
<1>13. Indexed(files, roots)
    BY <1>7, <1>9, <1>10, <1>12 DEF Indexed
<1> QED
    BY <1>1, <1>11, <1>13

-----------------------------------------------------------------------------
(* The folder tree.                                                        *)

FolderNode == [path : FilePath, subs : Seq(Nat), media : Seq(Nat)]

\* The roots come first, and every other node hangs under one earlier one,
\* that of the directory it is in.  No file has the path of a node.
Hangs(nodes, n, m) ==
    /\ nodes[m].path = Front(nodes[n].path)
    /\ \A k \in DOMAIN nodes : Contains(nodes[k].subs, n) <=> k = m

Tree(nodes, roots, files) ==
    /\ nodes \in Seq(FolderNode)
    /\ Len(roots) <= Len(nodes)
    /\ \A r \in DOMAIN roots : nodes[r].path = roots[r]
    /\ \A m, n \in DOMAIN nodes : nodes[m].path = nodes[n].path => m = n
    /\ \A m \in DOMAIN nodes : \A e \in Nat :
          Contains(nodes[m].subs, e) => e \in Len(roots) + 1 .. Len(nodes)
    /\ \A n \in Len(roots) + 1 .. Len(nodes) : \E m \in 1 .. n - 1 : Hangs(nodes, n, m)
    /\ \A n \in DOMAIN nodes, i \in DOMAIN files : nodes[n].path # files[i]

\* Each of the first k files is in the node of its directory and in no other.
Holds(nodes, i, n) == \A m \in DOMAIN nodes : Contains(nodes[m].media, i) <=> m = n

Placed(nodes, files, k) ==
    /\ \A m \in DOMAIN nodes : \A e \in Nat : Contains(nodes[m].media, e) => e \in 1 .. k
    /\ \A i \in 1 .. k :
          \E n \in DOMAIN nodes : nodes[n].path = Front(files[i]) /\ Holds(nodes, i, n)

LEMMA ContainsIs ==
    ASSUME NEW S, NEW s \in Seq(S), NEW x \in S, NEW e
    PROVE  /\ Contains(Append(s, x), e) <=> Contains(s, e) \/ e = x
           /\ ~Contains(<<>>, e)
           /\ Contains(s, e) <=> \E k \in DOMAIN s : s[k] = e
<1>1. DOMAIN s = 1 .. Len(s) /\ Len(s) \in Nat
    OBVIOUS
<1>2. /\ Len(Append(s, x)) = Len(s) + 1
      /\ \A k \in 1 .. Len(s) : Append(s, x)[k] = s[k]
      /\ Append(s, x)[Len(s) + 1] = x
    OBVIOUS
<1>3. 1 .. Len(<<>>) = {}
    OBVIOUS
<1>4. Contains(Append(s, x), e) <=> Contains(s, e) \/ e = x
    <2>1. \A k \in 1 .. Len(s) + 1 : k \in 1 .. Len(s) \/ k = Len(s) + 1
        BY <1>1
    <2>2. \A k \in 1 .. Len(s) : k \in 1 .. Len(s) + 1
        BY <1>1
    <2>3. Len(s) + 1 \in 1 .. Len(s) + 1
        BY <1>1
    <2> QED
        BY <1>2, <2>1, <2>2, <2>3 DEF Contains
<1> QED
    BY <1>1, <1>3, <1>4 DEF Contains

LEMMA NodeAtIs ==
    ASSUME NEW nodes, NEW path, HasNode(nodes, path)
    PROVE  NodeAt(nodes, path) \in DOMAIN nodes /\ nodes[NodeAt(nodes, path)].path = path
BY DEF HasNode, NodeAt

\* One more node, for path, under node m.
Extends(new, nodes, m, path) ==
    /\ new \in Seq(FolderNode)
    /\ Len(new) = Len(nodes) + 1 /\ Len(nodes) \in Nat
    /\ DOMAIN nodes = 1 .. Len(nodes) /\ DOMAIN new = 1 .. Len(nodes) + 1
    /\ m \in DOMAIN nodes /\ nodes[m].path = Front(path)
    /\ \A n \in DOMAIN nodes : /\ new[n].path = nodes[n].path
                               /\ new[n].media = nodes[n].media
                               /\ n # m => new[n].subs = nodes[n].subs
    /\ new[m].subs = Append(nodes[m].subs, Len(nodes) + 1)
    /\ new[Len(nodes) + 1] = Node(path)

LEMMA AddFolderIs ==
    ASSUME NEW nodes \in Seq(FolderNode), NEW path \in FilePath
    PROVE  /\ AddFolder(nodes, path) \in Seq(FolderNode)
           /\ HasNode(nodes, Front(path)) =>
                 Extends(AddFolder(nodes, path), nodes, NodeAt(nodes, Front(path)), path)
<1> DEFINE m == NodeAt(nodes, Front(path))
           L == Len(nodes)
           grown == [nodes EXCEPT ![m].subs = Append(@, L + 1)]
           new == Append(grown, Node(path))
<1>1. AddFolder(nodes, path) = new
    BY DEF AddFolder, AddUnder
<1>2. HasNode(nodes, Front(path)) => m \in DOMAIN nodes /\ nodes[m].path = Front(path)
    BY NodeAtIs
<1> HIDE DEF m
<1>3. L \in Nat /\ DOMAIN nodes = 1 .. L /\ \A n \in 1 .. L : nodes[n] \in FolderNode
    OBVIOUS
<1>4. /\ DOMAIN grown = 1 .. L
      /\ \A n \in 1 .. L : n # m => grown[n] = nodes[n]
      /\ m \in 1 .. L => grown[m] = [nodes[m] EXCEPT !.subs = Append(@, L + 1)]
    BY <1>3
<1>5. ASSUME m \in 1 .. L
      PROVE  /\ grown[m] \in FolderNode
             /\ grown[m].path = nodes[m].path /\ grown[m].media = nodes[m].media
             /\ grown[m].subs = Append(nodes[m].subs, L + 1)
    <2>1. nodes[m] \in FolderNode /\ L + 1 \in Nat
        BY <1>3, <1>5
    <2> DEFINE old == nodes[m]  longer == Append(old.subs, L + 1)
    <2>2. grown[m] = [old EXCEPT !.subs = longer]
        BY <1>4, <1>5
    <2>3. longer \in Seq(Nat)
        BY <2>1 DEF FolderNode
    <2>4. old \in FolderNode
        BY <2>1
    <2> HIDE DEF grown, old, longer
    <2>5. /\ grown[m] \in FolderNode
          /\ grown[m].path = old.path /\ grown[m].media = old.media
          /\ grown[m].subs = longer
        BY <2>2, <2>3, <2>4 DEF FolderNode
    <2> QED
        BY <2>5 DEF old, longer
<1>6. Node(path) \in FolderNode
    BY DEF Node, FolderNode
<1>7. grown \in Seq(FolderNode) /\ Len(grown) = L
    <2>1. grown \in [1 .. L -> FolderNode]
        <3>1. \A n \in 1 .. L : grown[n] \in FolderNode
            BY <1>3, <1>4, <1>5
        <3>2. grown = [n \in 1 .. L |-> grown[n]]
            BY <1>3
        <3> HIDE DEF grown
        <3> QED
            BY <3>1, <3>2
    <2> HIDE DEF grown, L
    <2> QED
        BY <1>3, <2>1
<1> HIDE DEF grown
<1>8. /\ new \in Seq(FolderNode) /\ Len(new) = L + 1 /\ DOMAIN new = 1 .. L + 1
      /\ \A n \in 1 .. L : new[n] = grown[n]
      /\ new[L + 1] = Node(path)
    <2> HIDE DEF L
    <2> QED
        BY <1>3, <1>6, <1>7
<1> HIDE DEF new
<1>9. HasNode(nodes, Front(path)) => Extends(new, nodes, m, path)
    BY <1>2, <1>3, <1>4, <1>5, <1>8 DEF Extends
<1> QED
    BY <1>1, <1>8, <1>9 DEF m

(* A folder that is missing under one that is there.                       *)
LEMMA AddFolderKeeps ==
    ASSUME NEW nodes, NEW roots, NEW files, Tree(nodes, roots, files), NEW k,
           NEW path \in FilePath, HasNode(nodes, Front(path)), ~HasNode(nodes, path),
           \A i \in DOMAIN files : path # files[i],
           Len(roots) \in Nat, DOMAIN roots = 1 .. Len(roots)
    PROVE  /\ Tree(AddFolder(nodes, path), roots, files)
           /\ Placed(nodes, files, k) => Placed(AddFolder(nodes, path), files, k)
           /\ \A p : HasNode(AddFolder(nodes, path), p) <=> HasNode(nodes, p) \/ p = path
<1> DEFINE new == AddFolder(nodes, path)
           m == NodeAt(nodes, Front(path))
           L == Len(nodes)
<1>1. nodes \in Seq(FolderNode)
    BY DEF Tree
<1>0. Extends(new, nodes, m, path)
    BY <1>1, AddFolderIs
<1>2. /\ new \in Seq(FolderNode) /\ Len(new) = L + 1 /\ L \in Nat
      /\ DOMAIN nodes = 1 .. L /\ DOMAIN new = 1 .. L + 1
      /\ m \in 1 .. L /\ nodes[m].path = Front(path)
    <2> HIDE DEF new, m
    <2> QED
        BY <1>0 DEF Extends
<1>3. /\ \A n \in 1 .. L : /\ new[n].path = nodes[n].path
                           /\ new[n].media = nodes[n].media
                           /\ n # m => new[n].subs = nodes[n].subs
      /\ new[m].subs = Append(nodes[m].subs, L + 1)
      /\ new[L + 1] = Node(path)
    <2> HIDE DEF new, m
    <2> QED
        BY <1>0 DEF Extends
<1>4. /\ new[L + 1].path = path
      /\ \A e : ~Contains(new[L + 1].subs, e) /\ ~Contains(new[L + 1].media, e)
    <2>1. new[L + 1].path = path /\ new[L + 1].subs = <<>> /\ new[L + 1].media = <<>>
        BY <1>3 DEF Node
    <2>2. <<>> \in Seq(Nat) /\ 0 \in Nat
        OBVIOUS
    <2>3. \A e : ~Contains(<<>>, e)
        BY <2>2, ContainsIs
    <2> HIDE DEF new
    <2> QED
        BY <2>1, <2>3
<1>5. \A n \in 1 .. L, e \in Nat :
          Contains(new[n].subs, e) <=> Contains(nodes[n].subs, e) \/ (n = m /\ e = L + 1)
    <2> HIDE DEF new, m
    <2>1. nodes[m].subs \in Seq(Nat) /\ L + 1 \in Nat
        <3>1. nodes[m] \in FolderNode
            BY <1>1, <1>2
        <3> HIDE DEF L
        <3> QED
            BY <1>2, <3>1 DEF FolderNode
    <2> HIDE DEF L
    <2>2. \A e : Contains(Append(nodes[m].subs, L + 1), e) <=> Contains(nodes[m].subs, e) \/ e = L + 1
        BY <2>1, ContainsIs
    <2> QED
        BY <1>3, <2>2
<1> HIDE DEF new, m, L
<1>6. \A n \in 1 .. L, e \in Nat : Contains(nodes[n].subs, e) => e \in Len(roots) + 1 .. L
    BY <1>2 DEF Tree, L
<1>7. Len(roots) <= L
    BY DEF Tree, L
<1>8. \A n \in 1 .. L + 1 : n \in 1 .. L \/ n = L + 1
    BY <1>2
<1>9. \A p : HasNode(new, p) <=> HasNode(nodes, p) \/ p = path
    <2>1. \A p : HasNode(nodes, p) <=> \E n \in 1 .. L : nodes[n].path = p
        BY <1>2 DEF HasNode
    <2>2. \A p : HasNode(new, p) <=> \E n \in 1 .. L + 1 : new[n].path = p
        BY <1>2 DEF HasNode
    <2>3. L + 1 \in 1 .. L + 1 /\ \A n \in 1 .. L : n \in 1 .. L + 1
        BY <1>2
    <2> QED
        BY <1>3, <1>4, <1>8, <2>1, <2>2, <2>3
<1>10. \A r \in DOMAIN roots : new[r].path = roots[r]
    <2>1. \A r \in DOMAIN roots : r \in 1 .. L /\ nodes[r].path = roots[r]
        BY <1>2, <1>7 DEF Tree
    <2> QED
        BY <1>3, <2>1
<1>11. ASSUME NEW a \in 1 .. L + 1, NEW b \in 1 .. L + 1, new[a].path = new[b].path
       PROVE  a = b
    <2>1. \A x, y \in 1 .. L : nodes[x].path = nodes[y].path => x = y
        BY <1>2 DEF Tree
    <2>2. \A x \in 1 .. L : nodes[x].path # path
        BY <1>2 DEF HasNode
    <2> QED
        BY <1>3, <1>4, <1>8, <1>11, <2>1, <2>2
<1>12. ASSUME NEW n \in 1 .. L + 1, NEW e \in Nat, Contains(new[n].subs, e)
       PROVE  e \in Len(roots) + 1 .. L + 1
    <2>1. CASE n = L + 1
        BY <1>4, <1>12, <2>1
    <2>2. CASE n \in 1 .. L /\ Contains(nodes[n].subs, e)
        BY <1>2, <1>6, <2>2
    <2>3. CASE e = L + 1
        BY <1>2, <1>7, <2>3
    <2> QED
        BY <1>5, <1>8, <1>12, <2>1, <2>2, <2>3
<1>13. ASSUME NEW n \in Len(roots) + 1 .. L + 1
       PROVE  \E h \in 1 .. n - 1 : Hangs(new, n, h)
    <2>1. CASE n = L + 1
        <3>1. m \in 1 .. n - 1 /\ n \in Nat
            BY <1>2, <2>1
        <3>2. new[m].path = Front(new[n].path)
            BY <1>2, <1>3, <1>4, <2>1
        <3>3. ASSUME NEW q \in 1 .. L + 1 PROVE Contains(new[q].subs, n) <=> q = m
            <4>1. CASE q = L + 1
                BY <1>2, <1>4, <4>1
            <4>2. CASE q \in 1 .. L
                <5>1. ~Contains(nodes[q].subs, n)
                    BY <1>2, <1>6, <2>1, <4>2
                <5> QED
                    BY <1>5, <2>1, <3>1, <4>2, <5>1
            <4> QED
                BY <1>8, <4>1, <4>2
        <3> QED
            BY <1>2, <3>1, <3>2, <3>3 DEF Hangs
    <2>2. CASE n \in Len(roots) + 1 .. L
        <3>1. PICK h \in 1 .. n - 1 : Hangs(nodes, n, h)
            BY <2>2 DEF Tree, L
        <3>2. h \in 1 .. L /\ n \in 1 .. L /\ n \in Nat /\ n # L + 1
            BY <1>2, <2>2
        <3>3. new[h].path = Front(new[n].path)
            BY <1>3, <3>1, <3>2 DEF Hangs
        <3>4. ASSUME NEW q \in 1 .. L + 1 PROVE Contains(new[q].subs, n) <=> q = h
            <4>1. CASE q = L + 1
                BY <1>2, <1>4, <3>2, <4>1
            <4>2. CASE q \in 1 .. L
                <5>1. Contains(nodes[q].subs, n) <=> q = h
                    BY <1>2, <3>1, <4>2 DEF Hangs
                <5> QED
                    BY <1>5, <3>2, <4>2, <5>1
            <4> QED
                BY <1>8, <4>1, <4>2
        <3> QED
            BY <1>2, <3>3, <3>4 DEF Hangs
    <2> QED
        BY <1>2, <1>13, <2>1, <2>2
<1>14. \A n \in 1 .. L + 1, i \in DOMAIN files : new[n].path # files[i]
    <2>1. \A n \in 1 .. L, i \in DOMAIN files : nodes[n].path # files[i]
        BY <1>2 DEF Tree
    <2> QED
        BY <1>3, <1>4, <1>8, <2>1
<1>15. Tree(new, roots, files)
    BY <1>2, <1>7, <1>10, <1>11, <1>12, <1>13, <1>14 DEF Tree
<1>16. ASSUME Placed(nodes, files, k) PROVE Placed(new, files, k)
    <2>1. \A n \in 1 .. L + 1 : \A e \in Nat : Contains(new[n].media, e) => e \in 1 .. k
        <3>1. \A n \in 1 .. L : \A e \in Nat : Contains(nodes[n].media, e) => e \in 1 .. k
            BY <1>2, <1>16 DEF Placed
        <3> QED
            BY <1>3, <1>4, <1>8, <3>1
    <2>2. ASSUME NEW i \in 1 .. k
          PROVE  \E n \in 1 .. L + 1 : new[n].path = Front(files[i]) /\ Holds(new, i, n)
        <3>1. PICK n \in 1 .. L : nodes[n].path = Front(files[i]) /\ Holds(nodes, i, n)
            BY <1>2, <1>16 DEF Placed
        <3>2. n \in 1 .. L + 1 /\ n # L + 1
            BY <1>2
        <3>3. \A q \in 1 .. L : Contains(new[q].media, i) <=> q = n
            BY <1>2, <1>3, <3>1 DEF Holds
        <3>4. Holds(new, i, n)
            BY <1>2, <1>4, <1>8, <3>2, <3>3 DEF Holds
        <3> QED
            BY <1>3, <3>1, <3>2, <3>4
    <2> QED
        BY <1>2, <2>1, <2>2 DEF Placed
<1> QED
    BY <1>9, <1>15, <1>16 DEF new

(* All the missing folders down to that of a file.                         *)
LEMMA EnsureFolderKeeps ==
    ASSUME NEW roots \in Seq(FilePath), NEW files, Indexed(files, roots),
           NEW nodes, Tree(nodes, roots, files), NEW k, NEW i \in DOMAIN files
    PROVE  LET new == EnsureFolder(nodes, Front(files[i]))
           IN  /\ Tree(new, roots, files)
               /\ Placed(nodes, files, k) => Placed(new, files, k)
               /\ HasNode(new, Front(files[i]))
<1> DEFINE path == Front(files[i])
           part(q) == SubSeq(path, 1, q)
           known == {q \in 1 .. Len(path) : HasNode(nodes, part(q))}
           nearest == CHOOSE q \in known : \A p \in known : p <= q
           n == Len(path)
           A == Seq(FolderNode)
           step(a, q) == IF q <= nearest THEN a ELSE AddFolder(a, part(q))
           G == [p \in A \X (1 .. n) |-> step(p[1], p[2])]
           body(f) == [q \in 0 .. n |-> IF q = 0 THEN nodes
                                        ELSE IF q <= nearest THEN f[q - 1]
                                        ELSE AddFolder(f[q - 1], part(q))]
           grown == CHOOSE f : f = body(f)
<1>1. /\ files[i] \in Seq(Name) /\ files[i] # <<>>
      /\ path \in Seq(Name) /\ n \in Nat /\ n + 1 = Len(files[i])
      /\ \A q \in 1 .. n : path[q] = files[i][q]
    <2>1. files[i] \in Seq(Name) /\ files[i] # <<>>
        BY DEF Indexed, FilePath
    <2>2. path \in Seq(Name) /\ Len(path) = Len(files[i]) - 1
        BY <2>1, NameOfPath
    <2>3. \A q \in 1 .. Len(files[i]) - 1 : path[q] = files[i][q]
        BY <2>1, NameOfPath
    <2> HIDE DEF path
    <2> QED
        BY <2>1, <2>2, <2>3
<1> HIDE DEF path
<1>2. ASSUME NEW q \in 1 .. n
      PROVE  /\ part(q) \in FilePath /\ Len(part(q)) = q
             /\ \A j \in DOMAIN files : part(q) # files[j]
             /\ q > 1 => Front(part(q)) = part(q - 1)
    <2>1. /\ part(q) \in Seq(Name) /\ Len(part(q)) = q
          /\ \A x \in 1 .. q : part(q)[x] = path[x]
        <3>1. q \in 0 .. Len(path)
            BY <1>1
        <3> QED
            BY <1>1, <3>1, BeginningIs
    <2>2. part(q) \in FilePath
        <3> HIDE DEF part
        <3>1. part(q) # <<>>
            BY <2>1
        <3> QED
            BY <2>1, <3>1 DEF FilePath
    <2>3. IsPrefix(part(q), files[i])
        <3>1. Len(part(q)) <= Len(files[i]) /\ \A x \in 1 .. Len(part(q)) : part(q)[x] = files[i][x]
            BY <1>1, <2>1
        <3> QED
            BY <1>1, <2>1, <3>1, PrefixIs
    <2>4. \A j \in DOMAIN files : part(q) # files[j]
        <3> HIDE DEF part
        <3>1. ASSUME NEW j \in DOMAIN files, part(q) = files[j] PROVE FALSE
            <4>1. j = i
                BY <2>3, <3>1 DEF Indexed
            <4>2. Len(files[i]) = q
                BY <2>1, <3>1, <4>1
            <4> HIDE DEF n
            <4> QED
                BY <1>1, <4>2
        <3> QED
            BY <3>1
    <2>5. q > 1 => Front(part(q)) = part(q - 1)
        <3> SUFFICES ASSUME q > 1 PROVE Front(part(q)) = part(q - 1)
            OBVIOUS
        <3>1. q - 1 \in 0 .. Len(path) /\ q - 1 \in 0 .. Len(part(q)) /\ q - 1 \in Nat
            BY <1>1, <2>1
        <3>2. /\ part(q - 1) \in Seq(Name) /\ Len(part(q - 1)) = q - 1
              /\ \A x \in 1 .. q - 1 : part(q - 1)[x] = path[x]
            BY <1>1, <3>1, BeginningIs
        <3> HIDE DEF part
        <3>3. /\ Front(part(q)) \in Seq(Name) /\ Len(Front(part(q))) = q - 1
              /\ \A x \in 1 .. q - 1 : Front(part(q))[x] = part(q)[x]
            BY <2>1, <3>1, BeginningIs DEF Front
        <3>4. ASSUME NEW x \in 1 .. q - 1 PROVE Front(part(q))[x] = part(q - 1)[x]
            <4>1. x \in 1 .. q
                BY <3>1
            <4>2. part(q)[x] = path[x]
                BY <2>1, <4>1
            <4> HIDE DEF n, known, nearest, A, step, G, body, grown
            <4> QED
                BY <3>2, <3>3, <4>2, Zenon
        <3> QED
            BY <3>2, <3>3, <3>4, SeqEqual
    <2> QED
        BY <2>1, <2>2, <2>4, <2>5
<1> HIDE DEF part
<1>3. known # {} /\ known \in SUBSET (1 .. n)
    <2>1. PICK r \in DOMAIN roots : IsPrefix(roots[r], files[i]) /\ roots[r] # files[i]
        BY DEF Indexed
    <2>2. roots[r] \in Seq(Name) /\ roots[r] # <<>>
        BY DEF FilePath
    <2>3. /\ Len(roots[r]) <= Len(files[i])
          /\ \A x \in 1 .. Len(roots[r]) : roots[r][x] = files[i][x]
        BY <1>1, <2>1, <2>2, PrefixIs
    <2>4. Len(roots[r]) # Len(files[i])
        BY <1>1, <2>1, <2>2, <2>3, SeqEqual
    <2>5. Len(roots[r]) \in 1 .. n
        BY <1>1, <2>2, <2>3, <2>4
    <2>6. IsPrefix(roots[r], path)
        <3>1. Len(roots[r]) <= Len(path) /\ \A x \in 1 .. Len(roots[r]) : roots[r][x] = path[x]
            BY <1>1, <2>3, <2>5
        <3> QED
            BY <1>1, <2>2, <3>1, PrefixIs
    <2>7. roots[r] = part(Len(roots[r]))
        BY <1>1, <2>2, <2>6, PrefixIs DEF part
    <2>8. r \in DOMAIN nodes /\ nodes[r].path = roots[r]
        BY DEF Tree
    <2>9. Len(roots[r]) \in known
        BY <2>5, <2>7, <2>8 DEF HasNode
    <2> QED
        BY <2>9
<1>4. nearest \in known /\ \A q \in known : q <= nearest
    <2> HIDE DEF known, n
    <2>1. Max(known) \in known /\ \A q \in known : q <= Max(known)
        BY <1>1, <1>3, Greatest
    <2> QED
        BY <2>1
<1>5. \A a \in A, q \in 1 .. n : step(a, q) \in A
    BY <1>2, AddFolderIs
<1> HIDE DEF nearest
<1>6. nodes \in A
    BY DEF Tree
<1>7. PICK g \in [0 .. n -> A] : Goes(g, nodes, G, n)
    <2>1. G \in Steps(A, n)
        <3> HIDE DEF A, n, step
        <3> QED
            BY <1>5 DEF Steps
    <2> HIDE DEF A, n, G
    <2> QED
        BY <1>1, <1>6, <2>1, RecursionExists
<1>8. g = body(g)
    <2> HIDE DEF n, A
    <2>1. \A q \in 1 .. n : g[q - 1] \in A
        BY <1>1
    <2>2. ASSUME NEW q \in 1 .. n
          PROVE  g[q] = step(g[q - 1], q)
        <3>1. <<g[q - 1], q>> \in A \X (1 .. n)
            BY <2>1
        <3>2. G[<<g[q - 1], q>>] = step(g[q - 1], q)
            BY <3>1
        <3> HIDE DEF G, step
        <3> QED
            BY <1>7, <3>2 DEF Goes
    <2>3. g[0] = nodes /\ \A q \in 0 .. n : q # 0 => q \in 1 .. n
        BY <1>1, <1>7 DEF Goes
    <2> HIDE DEF G
    <2> QED
        BY <2>2, <2>3
<1>9. grown = body(grown)
    <2> HIDE DEF body
    <2> QED
        BY <1>8
<1> HIDE DEF grown, G
<1> DEFINE Good(q) ==
              /\ Tree(grown[q], roots, files)
              /\ Placed(nodes, files, k) => Placed(grown[q], files, k)
              /\ \A p \in 1 .. n : HasNode(grown[q], part(p)) <=> p \in known \/ (nearest < p /\ p <= q)
           T == {q \in 0 .. n : Good(q)}
<1>10. 0 \in T
    <2> HIDE DEF n
    <2>1. 0 \in 0 .. n /\ grown[0] = nodes
        BY <1>1, <1>9
    <2>2. \A p \in 1 .. n : ~(p <= 0)
        BY <1>1
    <2>3. \A p \in 1 .. n : HasNode(nodes, part(p)) <=> p \in known
        BY DEF n
    <2> HIDE DEF known
    <2> QED
        BY <2>1, <2>2, <2>3
<1>11. ASSUME NEW q \in 0 .. n - 1, q \in T PROVE q + 1 \in T
    <2>1. /\ q + 1 \in 1 .. n /\ q + 1 \in 0 .. n /\ q + 1 # 0 /\ q + 1 - 1 = q
          /\ q \in Nat /\ nearest \in Nat /\ nearest \in 1 .. n
        BY <1>1, <1>3, <1>4
    <2>2. grown[q + 1] = body(grown)[q + 1]
        BY <1>9
    <2>3. grown[q + 1] = IF q + 1 <= nearest THEN grown[q] ELSE AddFolder(grown[q], part(q + 1))
        BY <2>1, <2>2
    <2>4. Good(q)
        BY <1>11
    <2> HIDE DEF n, body
    <2>5. CASE q + 1 <= nearest
        <3>1. \A p \in 1 .. n : (nearest < p /\ p <= q) <=> (nearest < p /\ p <= q + 1)
            BY <1>1, <2>1, <2>5
        <3> HIDE DEF known
        <3> QED
            BY <2>1, <2>3, <2>4, <2>5, <3>1
    <2>6. CASE ~(q + 1 <= nearest)
        <3>1. /\ q \in 1 .. n /\ q + 1 \notin known
              /\ q \in known \/ (nearest < q /\ q <= q)
            <4>1. q \in 1 .. n /\ (q = nearest \/ nearest < q)
                BY <1>1, <2>1, <2>6
            <4> HIDE DEF known
            <4> QED
                BY <1>1, <1>4, <2>1, <2>6, <4>1
        <3> HIDE DEF known
        <3>2. HasNode(grown[q], part(q)) /\ ~HasNode(grown[q], part(q + 1))
            BY <2>1, <2>4, <3>1
        <3>3. /\ Front(part(q + 1)) = part(q)
              /\ part(q + 1) \in FilePath
              /\ \A j \in DOMAIN files : part(q + 1) # files[j]
            BY <1>1, <1>2, <2>1, <3>1
        <3>4. Len(roots) \in Nat /\ DOMAIN roots = 1 .. Len(roots)
            OBVIOUS
        <3>5. /\ Tree(grown[q + 1], roots, files)
              /\ Placed(grown[q], files, k) => Placed(grown[q + 1], files, k)
              /\ \A p : HasNode(grown[q + 1], p) <=> HasNode(grown[q], p) \/ p = part(q + 1)
            <4> DEFINE old == grown[q]  new == part(q + 1)
            <4>1. /\ Tree(old, roots, files) /\ HasNode(old, Front(new)) /\ ~HasNode(old, new)
                  /\ new \in FilePath /\ \A j \in DOMAIN files : new # files[j]
                BY <2>4, <3>2, <3>3
            <4>2. grown[q + 1] = AddFolder(old, new)
                BY <2>3, <2>6
            <4> HIDE DEF old, new
            <4>3. /\ Tree(AddFolder(old, new), roots, files)
                  /\ Placed(old, files, k) => Placed(AddFolder(old, new), files, k)
                  /\ \A p : HasNode(AddFolder(old, new), p) <=> HasNode(old, p) \/ p = new
                BY <3>4, <4>1, AddFolderKeeps
            <4> QED
                BY <4>2, <4>3 DEF old, new
        <3>6. \A p \in 1 .. n : part(p) = part(q + 1) <=> p = q + 1
            BY <1>2, <2>1
        <3>7. ASSUME NEW p \in 1 .. n
              PROVE  HasNode(grown[q + 1], part(p)) <=> p \in known \/ (nearest < p /\ p <= q + 1)
            <4>1. HasNode(grown[q + 1], part(p)) <=>
                     p \in known \/ (nearest < p /\ p <= q) \/ p = q + 1
                BY <2>4, <3>5, <3>6
            <4>2. ((nearest < p /\ p <= q) \/ p = q + 1) <=> (nearest < p /\ p <= q + 1)
                BY <1>1, <2>1, <2>6
            <4> QED
                BY <4>1, <4>2
        <3> QED
            BY <2>1, <2>4, <3>5, <3>7
    <2> QED
        BY <2>5, <2>6
<1>12. Good(n)
    <2> HIDE DEF Good
    <2>1. \A q \in 0 .. n : q \in T
        <3> HIDE DEF T, n
        <3> QED
            BY <1>1, <1>10, <1>11, UpTo
    <2> QED
        BY <1>1, <2>1
<1>13. HasNode(grown[n], path)
    <2>1. n \in 1 .. n /\ part(n) = path /\ nearest \in Nat
        BY <1>1, <1>3, <1>4, SubSeqFull DEF part
    <2>2. n \in known \/ (nearest < n /\ n <= n)
        <3>1. n = nearest \/ nearest < n
            BY <1>1, <1>3, <1>4
        <3> HIDE DEF known, n
        <3> QED
            BY <1>1, <1>4, <3>1
    <2> HIDE DEF known
    <2> QED
        BY <1>12, <2>1, <2>2
<1>14. EnsureFolder(nodes, path) = grown[n]
    BY <1>3 DEF EnsureFolder, grown, nearest, part
<1> QED
    BY <1>12, <1>13, <1>14 DEF path

(* One more file in the node of a folder.                                  *)
LEMMA AddMediaKeeps ==
    ASSUME NEW nodes, NEW roots, NEW files, Tree(nodes, roots, files),
           NEW folder, HasNode(nodes, folder), NEW i \in Nat
    PROVE  LET new == AddMedia(nodes, folder, i)
           IN  /\ Tree(new, roots, files)
               /\ i > 0 /\ folder = Front(files[i]) /\ Placed(nodes, files, i - 1)
                     => Placed(new, files, i)
<1> DEFINE m == NodeAt(nodes, folder)
           new == AddMedia(nodes, folder, i)
           old == nodes[m]
           longer == Append(old.media, i)
           L == Len(nodes)
<1>1. nodes \in Seq(FolderNode) /\ L \in Nat /\ DOMAIN nodes = 1 .. L
    BY DEF Tree
<1>2. m \in 1 .. L /\ old.path = folder
    BY <1>1, NodeAtIs
<1>3. old \in FolderNode
    BY <1>1, <1>2
<1>4. new = [nodes EXCEPT ![m] = [old EXCEPT !.media = longer]]
    BY DEF AddMedia
<1> HIDE DEF m, new
<1>5. /\ DOMAIN new = 1 .. L
      /\ \A n \in 1 .. L : n # m => new[n] = nodes[n]
      /\ new[m] = [old EXCEPT !.media = longer]
    <2> HIDE DEF old, longer, L
    <2> QED
        BY <1>1, <1>2, <1>4
<1>6. longer \in Seq(Nat)
    BY <1>3 DEF FolderNode
<1>7. /\ new[m] \in FolderNode /\ new[m].path = old.path /\ new[m].subs = old.subs
      /\ new[m].media = longer
    <2> HIDE DEF old, longer
    <2> QED
        BY <1>3, <1>5, <1>6 DEF FolderNode
<1>8. \A n \in 1 .. L : /\ new[n] \in FolderNode
                        /\ new[n].path = nodes[n].path /\ new[n].subs = nodes[n].subs
    <2>1. \A n \in 1 .. L : nodes[n] \in FolderNode
        BY <1>1
    <2> HIDE DEF longer, L
    <2> QED
        BY <1>5, <1>7, <2>1
<1>9. new \in Seq(FolderNode) /\ Len(new) = L
    <2>1. new \in [1 .. L -> FolderNode]
        <3>1. new = [n \in 1 .. L |-> new[n]]
            BY <1>4, <1>5
        <3> HIDE DEF L
        <3> QED
            BY <1>8, <3>1
    <2> HIDE DEF L
    <2> QED
        BY <1>1, <2>1
<1>10. Tree(new, roots, files)
    <2> HIDE DEF L
    <2>1. Len(roots) <= L /\ \A r \in DOMAIN roots : r \in 1 .. L /\ new[r].path = roots[r]
        <3>1. \A r \in DOMAIN roots : nodes[r].path = roots[r]
            BY DEF Tree
        <3>2. \A r \in DOMAIN roots : r \in 1 .. L
            BY <1>1 DEF Tree, L
        <3> QED
            BY <1>8, <3>1, <3>2 DEF Tree, L
    <2>2. \A n \in Len(roots) + 1 .. L : \E h \in 1 .. n - 1 : Hangs(new, n, h)
        <3>1. ASSUME NEW n \in Len(roots) + 1 .. L, NEW h \in 1 .. n - 1, Hangs(nodes, n, h)
              PROVE  Hangs(new, n, h)
            <4>1. n \in 1 .. L /\ h \in 1 .. L
                BY <1>1, <2>1 DEF L
            <4> QED
                BY <1>1, <1>5, <1>8, <3>1, <4>1 DEF Hangs
        <3> QED
            BY <3>1 DEF Tree, L
    <2>3. \A a, b \in 1 .. L : new[a].path = new[b].path => a = b
        BY <1>1, <1>8 DEF Tree
    <2>4. \A n \in 1 .. L : \A e \in Nat :
              Contains(new[n].subs, e) => e \in Len(roots) + 1 .. L
        BY <1>1, <1>8 DEF Tree, L
    <2>5. \A n \in 1 .. L, j \in DOMAIN files : new[n].path # files[j]
        BY <1>1, <1>8 DEF Tree
    <2> QED
        BY <1>5, <1>9, <2>1, <2>2, <2>3, <2>4, <2>5 DEF Tree
<1>11. ASSUME i > 0, folder = Front(files[i]), Placed(nodes, files, i - 1)
       PROVE  Placed(new, files, i)
    <2>1. \A n \in 1 .. L, e \in Nat :
             Contains(new[n].media, e) <=> Contains(nodes[n].media, e) \/ (n = m /\ e = i)
        <3>1. old.media \in Seq(Nat)
            BY <1>3 DEF FolderNode
        <3>2. \A e : Contains(longer, e) <=> Contains(old.media, e) \/ e = i
            BY <3>1, ContainsIs
        <3> HIDE DEF longer
        <3> QED
            BY <1>5, <1>7, <3>2
    <2> HIDE DEF old, longer, L
    <2>2. \A n \in 1 .. L : \A e \in Nat : Contains(nodes[n].media, e) => e \in 1 .. i - 1
        BY <1>1, <1>11 DEF Placed
    <2>3. ASSUME NEW j \in 1 .. i
          PROVE  \E n \in 1 .. L : new[n].path = Front(files[j]) /\ Holds(new, j, n)
        <3>1. CASE j = i
            <4>1. Holds(new, i, m)
                BY <1>5, <2>1, <2>2 DEF Holds
            <4> QED
                BY <1>2, <1>8, <1>11, <3>1, <4>1 DEF old
        <3>2. CASE j \in 1 .. i - 1
            <4>1. PICK n \in 1 .. L : nodes[n].path = Front(files[j]) /\ Holds(nodes, j, n)
                BY <1>1, <1>11, <3>2 DEF Placed
            <4>2. Holds(new, j, n)
                BY <1>1, <1>5, <2>1, <3>2, <4>1 DEF Holds
            <4> QED
                BY <1>8, <4>1, <4>2
        <3> QED
            BY <3>1, <3>2
    <2>4. \A n \in 1 .. L : \A e \in Nat : Contains(new[n].media, e) => e \in 1 .. i
        BY <1>11, <2>1, <2>2
    <2> QED
        BY <1>5, <2>3, <2>4 DEF Placed
<1> QED
    BY <1>10, <1>11 DEF new

LEMMA PlaceFileKeeps ==
    ASSUME NEW roots \in Seq(FilePath), NEW files, Indexed(files, roots),
           NEW nodes, Tree(nodes, roots, files), NEW i \in DOMAIN files
    PROVE  LET new == PlaceFile(nodes, roots, files[i], i)
           IN  /\ Tree(new, roots, files)
               /\ Placed(nodes, files, i - 1) => Placed(new, files, i)
<1> DEFINE folder == Front(files[i])
           grown == EnsureFolder(nodes, folder)
<1>1. i \in Nat /\ i > 0
    BY DEF Indexed
<1>2. PlaceFile(nodes, roots, files[i], i) = AddMedia(grown, folder, i)
    BY DEF PlaceFile, Indexed
<1>3. /\ Tree(grown, roots, files) /\ HasNode(grown, folder)
      /\ Placed(nodes, files, i - 1) => Placed(grown, files, i - 1)
    BY EnsureFolderKeeps
<1> HIDE DEF grown, folder
<1>4. /\ Tree(AddMedia(grown, folder, i), roots, files)
      /\ folder = Front(files[i]) /\ Placed(grown, files, i - 1)
            => Placed(AddMedia(grown, folder, i), files, i)
    BY <1>1, <1>3, AddMediaKeeps
<1> QED
    BY <1>2, <1>3, <1>4 DEF folder

LEMMA TreeIsBuilt ==
    ASSUME NEW roots, Apart(roots), NEW files, Indexed(files, roots)
    PROVE  LET tree == BuildFolderTree(roots, files)
           IN  Tree(tree, roots, files) /\ Placed(tree, files, Len(files))
<1> DEFINE n == Len(files)
           A == {nodes \in Seq(FolderNode) : Tree(nodes, roots, files)}
           base == [r \in DOMAIN roots |-> Node(roots[r])]
           step(a, i) == PlaceFile(a, roots, files[i], i)
           G == [p \in A \X (1 .. n) |-> step(p[1], p[2])]
           body(f) == [i \in 0 .. n |->
                          IF i = 0 THEN base
                          ELSE PlaceFile(f[i - 1], roots, files[i], i)]
           tree == CHOOSE f : f = body(f)
<1>1. n \in Nat /\ DOMAIN files = 1 .. n /\ roots \in Seq(FilePath)
    BY DEF Indexed, Apart
<1>2. Tree(base, roots, files) /\ Placed(base, files, 0)
    <2>1. Len(roots) \in Nat /\ DOMAIN roots = 1 .. Len(roots)
        BY <1>1
    <2>2. /\ base \in Seq(FolderNode) /\ Len(base) = Len(roots) /\ DOMAIN base = DOMAIN roots
          /\ \A r \in DOMAIN roots : base[r] = Node(roots[r])
        <3>1. \A r \in DOMAIN roots : Node(roots[r]) \in FolderNode
            BY <1>1 DEF Node, FolderNode
        <3>2. base \in [1 .. Len(roots) -> FolderNode]
            BY <2>1, <3>1
        <3> QED
            BY <2>1, <3>2
    <2> HIDE DEF base
    <2>3. \A r \in DOMAIN roots : /\ base[r].path = roots[r]
                                  /\ base[r].subs = <<>> /\ base[r].media = <<>>
        BY <2>2 DEF Node
    <2>4. \A e : ~Contains(<<>>, e)
        <3>1. <<>> \in Seq(Nat) /\ 0 \in Nat
            OBVIOUS
        <3> QED
            BY <3>1, ContainsIs
    <2>5. \A a, b \in DOMAIN roots : roots[a] = roots[b] => a = b
        <3>1. \A a \in DOMAIN roots : roots[a] \in Seq(Name)
            BY <1>1 DEF FilePath
        <3>2. \A a \in DOMAIN roots : IsPrefix(roots[a], roots[a])
            BY <3>1, PrefixIs
        <3> QED
            BY <3>2 DEF Apart
    <2>6. ASSUME NEW r \in DOMAIN roots, NEW j \in DOMAIN files
          PROVE  roots[r] # files[j]
        BY DEF Indexed, Apart
    <2>7. Len(roots) + 1 .. Len(base) = {}
        BY <2>1, <2>2
    <2>8. Tree(base, roots, files)
        BY <2>1, <2>2, <2>3, <2>4, <2>5, <2>6, <2>7 DEF Tree
    <2>9. 1 .. 0 = {}
        OBVIOUS
    <2> QED
        BY <2>2, <2>3, <2>4, <2>8, <2>9 DEF Placed
<1> HIDE DEF base
<1>3. base \in A
    BY <1>2 DEF Tree
<1>4. \A a \in A, i \in 1 .. n : step(a, i) \in A
    <2>1. ASSUME NEW a \in A, NEW i \in 1 .. n
          PROVE  Tree(step(a, i), roots, files)
        BY <1>1, PlaceFileKeeps
    <2> HIDE DEF step
    <2>2. \A x : Tree(x, roots, files) => x \in A
        BY DEF Tree
    <2> QED
        BY <2>1, <2>2
<1>5. PICK g \in [0 .. n -> A] : Goes(g, base, G, n)
    <2>1. G \in Steps(A, n)
        <3> HIDE DEF A, n, step
        <3> QED
            BY <1>4 DEF Steps
    <2> HIDE DEF A, n, G
    <2> QED
        BY <1>1, <1>3, <2>1, RecursionExists
<1>6. g = body(g)
    <2> HIDE DEF n, A
    <2>1. ASSUME NEW i \in 1 .. n
          PROVE  g[i] = step(g[i - 1], i)
        <3>1. <<g[i - 1], i>> \in A \X (1 .. n)
            BY <1>1
        <3>2. G[<<g[i - 1], i>>] = step(g[i - 1], i)
            BY <3>1
        <3> HIDE DEF G, step
        <3> QED
            BY <1>5, <3>2 DEF Goes
    <2>2. g[0] = base /\ \A i \in 0 .. n : i # 0 => i \in 1 .. n
        BY <1>1, <1>5 DEF Goes
    <2> HIDE DEF G
    <2> QED
        BY <2>1, <2>2
<1>7. tree = body(tree)
    <2> HIDE DEF body
    <2> QED
        BY <1>6
<1> HIDE DEF tree, G
<1> DEFINE T == {i \in 0 .. n : Tree(tree[i], roots, files) /\ Placed(tree[i], files, i)}
<1>8. 0 \in T
    <2> HIDE DEF n
    <2> QED
        BY <1>1, <1>2, <1>7
<1>9. ASSUME NEW i \in 0 .. n - 1, i \in T PROVE i + 1 \in T
    <2> HIDE DEF n
    <2>1. i + 1 \in 1 .. n /\ i + 1 \in 0 .. n /\ i + 1 # 0 /\ i + 1 - 1 = i
        BY <1>1
    <2>2. tree[i + 1] = body(tree)[i + 1]
        BY <1>7, <2>1
    <2>3. tree[i + 1] = PlaceFile(tree[i], roots, files[i + 1], i + 1)
        BY <2>1, <2>2
    <2> HIDE DEF body
    <2> DEFINE old == tree[i]  j == i + 1
    <2>4. Tree(old, roots, files) /\ Placed(old, files, j - 1) /\ j \in DOMAIN files
        BY <1>1, <1>9, <2>1
    <2> HIDE DEF old, j
    <2>5. /\ Tree(PlaceFile(old, roots, files[j], j), roots, files)
          /\ Placed(PlaceFile(old, roots, files[j], j), files, j)
        BY <1>1, <2>4, PlaceFileKeeps
    <2> QED
        BY <2>1, <2>3, <2>5 DEF old, j
<1>10. n \in T
    <2> HIDE DEF T, n
    <2>1. \A i \in 0 .. n : i \in T
        BY <1>1, <1>8, <1>9, UpTo
    <2> QED
        BY <1>1, <2>1
<1>11. BuildFolderTree(roots, files) = tree[n]
    BY DEF BuildFolderTree, tree, base
<1> QED
    BY <1>10, <1>11

-----------------------------------------------------------------------------
(* The order within a folder.                                              *)

(* A stable sort rearranges a list.                                        *)
LEMMA StableSortIs ==
    ASSUME NEW seq \in Seq(Nat), NEW key,
           \A k \in DOMAIN seq : key[seq[k]] \in Seq(Nat)
    PROVE  /\ StableSort(seq, key) \in Seq(Nat)
           /\ Len(StableSort(seq, key)) = Len(seq)
           /\ \A e \in Nat : Contains(StableSort(seq, key), e) <=> Contains(seq, e)
<1> DEFINE D == DOMAIN seq
           names == [k \in D |-> key[seq[k]]]
           less(i, j) == \/ NameLess(key[seq[i]], key[seq[j]])
                         \/ key[seq[i]] = key[seq[j]] /\ i < j
           R == {p \in D \X D : less(p[1], p[2])}
           Q == ByKey(names, NameOrder, LessThan, D)
           order == Ranked(D, R)
           sorted == [k \in D |-> seq[order[k]]]
<1>1. StableSort(seq, key) = sorted
    BY DEF StableSort, Sorted, OrderOf
<1>2. Len(seq) \in Nat /\ D = 1 .. Len(seq)
    OBVIOUS
<1>3. IsFiniteSet(D) /\ Cardinality(D) = Len(seq)
    <2> DEFINE m == Len(seq)
    <2> HIDE DEF D, m
    <2>1. m \in Nat /\ 1 \in Int /\ m \in Int /\ D = 1 .. m
        BY <1>2 DEF m
    <2>2. IsFiniteSet(1 .. m) /\ Cardinality(1 .. m) = IF 1 > m THEN 0 ELSE m - 1 + 1
        BY <2>1, FS_Interval, Zenon
    <2>3. (IF 1 > m THEN 0 ELSE m - 1 + 1) = m
        BY <2>1
    <2> QED
        BY <2>1, <2>2, <2>3, Zenon DEF m
<1>4. StrictTotal(Q, D)
    <2>1. names \in [D -> Seq(Nat)]
        <3> HIDE DEF less, R, Q, order, sorted
        <3>1. \A k \in D : key[seq[k]] \in Seq(Nat)
            OBVIOUS
        <3> HIDE DEF D
        <3> QED
            BY <3>1, Zenon
    <2>2. StrictTotal(LessThan, D)
        BY <1>2, LessThanIsStrict
    <2> HIDE DEF names, D
    <2> QED
        BY <2>1, <2>2, NamesAreOrdered, ByKeyIsStrict
<1>5. ASSUME NEW x \in D, NEW y \in D
      PROVE  <<x, y>> \in R <=> <<x, y>> \in Q
    <2>1. names[x] = key[seq[x]] /\ names[y] = key[seq[y]]
        OBVIOUS
    <2>2. names[x] \in Seq(Nat) /\ names[y] \in Seq(Nat)
        OBVIOUS
    <2> HIDE DEF names
    <2>3. <<x, y>> \in R <=> less(x, y)
        OBVIOUS
    <2>4. <<x, y>> \in LessThan <=> x < y
        BY <1>2 DEF LessThan
    <2>5. NameLess(names[x], names[y]) <=> <<names[x], names[y]>> \in NameOrder
        BY <2>2, NamesAreOrdered
    <2> HIDE DEF R
    <2> DEFINE either == \/ <<names[x], names[y]>> \in NameOrder
                         \/ (names[x] = names[y] /\ <<x, y>> \in LessThan)
    <2>6. less(x, y) <=> either
        BY <2>1, <2>4, <2>5
    <2> HIDE DEF less, D
    <2>7. <<x, y>> \in Q <=> either
        BY DEF ByKey
    <2> HIDE DEF either
    <2> QED
        BY <2>3, <2>6, <2>7
<1> HIDE DEF R, Q, less, names
<1>6. StrictTotal(R, D)
    <2> HIDE DEF D
    <2>1. D \in SUBSET D
        OBVIOUS
    <2> QED
        BY <1>4, <1>5, <2>1, StrictWhere
<1>7. /\ order \in [1 .. Len(seq) -> D]
      /\ \A x \in D : \E k \in DOMAIN order : order[k] = x
    <2> HIDE DEF D
    <2> QED
        BY <1>3, <1>6, RankedIs
<1> HIDE DEF order
<1>8. \A k \in D : order[k] \in D /\ sorted[k] = seq[order[k]]
    BY <1>2, <1>7
<1>9. sorted \in Seq(Nat) /\ Len(sorted) = Len(seq)
    <2>1. sorted \in [1 .. Len(seq) -> Nat]
        BY <1>2, <1>8
    <2> HIDE DEF sorted, D
    <2> QED
        BY <1>2, <2>1
<1>10. ASSUME NEW e \in Nat PROVE Contains(sorted, e) <=> Contains(seq, e)
    <2>1. \A k \in D : \E j \in D : order[j] = k
        BY <1>2, <1>7
    <2> HIDE DEF sorted
    <2>2. (\E k \in D : sorted[k] = e) <=> (\E k \in D : seq[k] = e)
        <3> HIDE DEF D
        <3>1. ASSUME NEW k \in D, seq[k] = e PROVE \E j \in D : sorted[j] = e
            <4>1. PICK j \in D : order[j] = k
                BY <2>1
            <4> QED
                BY <1>8, <3>1, <4>1
        <3>2. ASSUME NEW k \in D, sorted[k] = e PROVE \E j \in D : seq[j] = e
            BY <1>8, <3>2
        <3> QED
            BY <3>1, <3>2
    <2> QED
        BY <1>2, <1>9, <2>2 DEF Contains
<1> QED
    BY <1>1, <1>9, <1>10

\* The same nodes, with what they hold in some order.
Reordered(new, nodes) ==
    /\ new \in Seq(FolderNode) /\ Len(new) = Len(nodes)
    /\ \A n \in DOMAIN nodes :
          /\ new[n].path = nodes[n].path
          /\ \A e \in Nat : /\ Contains(new[n].subs, e) <=> Contains(nodes[n].subs, e)
                            /\ Contains(new[n].media, e) <=> Contains(nodes[n].media, e)

LEMMA SortReorders ==
    ASSUME NEW roots, NEW files, Indexed(files, roots),
           NEW nodes, Tree(nodes, roots, files), Placed(nodes, files, Len(files))
    PROVE  Reordered(SortFolderTree(nodes, files), nodes)
<1> DEFINE folderName == [j \in DOMAIN nodes |-> Lower(FileName(nodes[j].path))]
           fileName == [f \in DOMAIN files |-> Lower(FileName(files[f]))]
           subs(n) == StableSort(nodes[n].subs, folderName)
           media(n) == StableSort(nodes[n].media, fileName)
           new == SortFolderTree(nodes, files)
<1>1. /\ nodes \in Seq(FolderNode) /\ DOMAIN nodes = 1 .. Len(nodes) /\ Len(nodes) \in Nat
      /\ files \in Seq(FilePath) /\ DOMAIN files = 1 .. Len(files) /\ Len(files) \in Nat
    BY DEF Tree, Indexed
<1>2. \A p \in FilePath : Lower(FileName(p)) \in Seq(Nat)
    BY NameOfPath, LowerIs DEF FilePath, Name
<1>3. \A j \in DOMAIN nodes : nodes[j] \in FolderNode /\ folderName[j] \in Seq(Nat)
    <2>1. \A j \in DOMAIN nodes : nodes[j] \in FolderNode
        BY <1>1
    <2>2. \A j \in DOMAIN nodes : nodes[j].path \in FilePath
        <3> HIDE <1>1, <1>2
        <3> QED
            BY <2>1 DEF FolderNode
    <2> QED
        BY <1>2, <2>1, <2>2
<1>4. \A f \in DOMAIN files : fileName[f] \in Seq(Nat)
    BY <1>1, <1>2
<1>5. new = [n \in DOMAIN nodes |->
                [nodes[n] EXCEPT !.subs = StableSort(@, folderName),
                                 !.media = StableSort(@, fileName)]]
    BY DEF SortFolderTree
<1> HIDE DEF folderName, fileName, new
<1>6. ASSUME NEW n \in DOMAIN nodes
      PROVE  /\ nodes[n].subs \in Seq(Nat) /\ nodes[n].media \in Seq(Nat)
             /\ \A k \in DOMAIN nodes[n].subs : folderName[nodes[n].subs[k]] \in Seq(Nat)
             /\ \A k \in DOMAIN nodes[n].media : fileName[nodes[n].media[k]] \in Seq(Nat)
    <2>1. nodes[n].subs \in Seq(Nat) /\ nodes[n].media \in Seq(Nat)
        BY <1>3 DEF FolderNode
    <2>2. /\ \A k \in DOMAIN nodes[n].subs : /\ Contains(nodes[n].subs, nodes[n].subs[k])
                                             /\ nodes[n].subs[k] \in Nat
          /\ \A k \in DOMAIN nodes[n].media : /\ Contains(nodes[n].media, nodes[n].media[k])
                                              /\ nodes[n].media[k] \in Nat
        <3>1. ASSUME NEW s \in Seq(Nat), NEW k \in DOMAIN s
              PROVE  Contains(s, s[k]) /\ s[k] \in Nat
            BY ContainsIs, 0 \in Nat
        <3> QED
            BY <2>1, <3>1
    <2>3. \A k \in DOMAIN nodes[n].subs : nodes[n].subs[k] \in DOMAIN nodes
        <3>1. \A e \in Nat : Contains(nodes[n].subs, e) => e \in DOMAIN nodes
            <4>1. Len(roots) \in Nat
                BY <1>1 DEF Tree
            <4> QED
                BY <1>1, <4>1 DEF Tree
        <3> QED
            BY <2>1, <2>2, <3>1
    <2>4. \A k \in DOMAIN nodes[n].media : nodes[n].media[k] \in DOMAIN files
        <3>1. \A e \in Nat : Contains(nodes[n].media, e) => e \in DOMAIN files
            BY <1>1 DEF Placed
        <3> QED
            BY <2>1, <2>2, <3>1
    <2> QED
        BY <1>3, <1>4, <2>1, <2>3, <2>4
<1>7. ASSUME NEW n \in DOMAIN nodes
      PROVE  /\ subs(n) \in Seq(Nat) /\ media(n) \in Seq(Nat)
             /\ \A e \in Nat : /\ Contains(subs(n), e) <=> Contains(nodes[n].subs, e)
                               /\ Contains(media(n), e) <=> Contains(nodes[n].media, e)
    BY <1>6, StableSortIs
<1>8. ASSUME NEW n \in DOMAIN nodes
      PROVE  /\ new[n] \in FolderNode /\ new[n].path = nodes[n].path
             /\ new[n].subs = subs(n) /\ new[n].media = media(n)
    <2>1. new[n] = [nodes[n] EXCEPT !.subs = subs(n), !.media = media(n)]
        <3>1. nodes[n] \in FolderNode
            BY <1>3
        <3> QED
            BY <1>5, <3>1 DEF FolderNode
    <2> HIDE DEF subs, media
    <2> QED
        BY <1>3, <1>7, <2>1 DEF FolderNode
<1>9. new \in Seq(FolderNode) /\ Len(new) = Len(nodes)
    <2>1. new \in [1 .. Len(nodes) -> FolderNode]
        <3>1. new = [n \in DOMAIN nodes |-> new[n]]
            BY <1>5
        <3> QED
            BY <1>1, <1>8, <3>1
    <2> QED
        BY <1>1, <2>1
<1> HIDE DEF subs, media
<1> QED
    BY <1>7, <1>8, <1>9 DEF Reordered, new

LEMMA ReorderedKeeps ==
    ASSUME NEW roots, NEW files, NEW nodes, Tree(nodes, roots, files),
           NEW new, Reordered(new, nodes),
           Len(roots) \in Nat, DOMAIN roots = 1 .. Len(roots)
    PROVE  /\ Tree(new, roots, files)
           /\ \A k : Placed(nodes, files, k) => Placed(new, files, k)
<1>1. /\ nodes \in Seq(FolderNode) /\ DOMAIN nodes = 1 .. Len(nodes) /\ Len(nodes) \in Nat
      /\ new \in Seq(FolderNode) /\ DOMAIN new = DOMAIN nodes /\ Len(new) = Len(nodes)
    BY DEF Tree, Reordered
<1>2. \A n \in DOMAIN nodes : new[n].path = nodes[n].path
    BY DEF Reordered
<1>5. \A n \in DOMAIN nodes : \A e \in Nat : Contains(new[n].subs, e) <=> Contains(nodes[n].subs, e)
    BY DEF Reordered
<1>6. \A n \in DOMAIN nodes : \A e \in Nat : Contains(new[n].media, e) <=> Contains(nodes[n].media, e)
    BY DEF Reordered
<1>3. Tree(new, roots, files)
    <2>1. \A n \in Len(roots) + 1 .. Len(nodes) : \E m \in 1 .. n - 1 : Hangs(new, n, m)
        <3>1. ASSUME NEW n \in Len(roots) + 1 .. Len(nodes), NEW m \in 1 .. n - 1, Hangs(nodes, n, m)
              PROVE  Hangs(new, n, m)
            <4>1. n \in Nat /\ n \in DOMAIN nodes /\ m \in DOMAIN nodes
                BY <1>1
            <4>2. new[m].path = nodes[m].path /\ new[n].path = nodes[n].path
                BY <1>2, <4>1
            <4>3. \A q \in DOMAIN nodes : Contains(new[q].subs, n) <=> Contains(nodes[q].subs, n)
                BY <1>5, <4>1
            <4>4. nodes[m].path = Front(nodes[n].path)
                BY <3>1 DEF Hangs
            <4>5. \A q \in DOMAIN nodes : Contains(nodes[q].subs, n) <=> q = m
                BY <3>1 DEF Hangs
            <4> QED
                BY <1>1, <4>2, <4>3, <4>4, <4>5 DEF Hangs
        <3> QED
            BY <3>1 DEF Tree
    <2>2. \A r \in DOMAIN roots : r \in DOMAIN nodes /\ nodes[r].path = roots[r]
        BY <1>1 DEF Tree
    <2>3. \A r \in DOMAIN roots : new[r].path = roots[r]
        BY <1>2, <2>2
    <2>4. \A a, b \in DOMAIN nodes : new[a].path = new[b].path => a = b
        BY <1>2 DEF Tree
    <2>5. \A n \in DOMAIN nodes : \A e \in Nat :
              Contains(new[n].subs, e) => e \in Len(roots) + 1 .. Len(nodes)
        <3>1. \A n \in DOMAIN nodes : \A e \in Nat :
                  Contains(nodes[n].subs, e) => e \in Len(roots) + 1 .. Len(nodes)
            BY DEF Tree
        <3> QED
            BY <1>5, <3>1
    <2>6. \A n \in DOMAIN nodes, j \in DOMAIN files : new[n].path # files[j]
        BY <1>2 DEF Tree
    <2>7. Len(roots) <= Len(nodes)
        BY DEF Tree
    <2> QED
        BY <1>1, <2>1, <2>3, <2>4, <2>5, <2>6, <2>7 DEF Tree
<1>4. ASSUME NEW k, Placed(nodes, files, k) PROVE Placed(new, files, k)
    <2>1. \A i \in 1 .. k : i \in Nat
        OBVIOUS
    <2>2. ASSUME NEW i \in 1 .. k, NEW n \in DOMAIN nodes, Holds(nodes, i, n) PROVE Holds(new, i, n)
        <3>1. \A m \in DOMAIN nodes : Contains(nodes[m].media, i) <=> m = n
            BY <2>2 DEF Holds
        <3>2. \A m \in DOMAIN nodes : Contains(new[m].media, i) <=> Contains(nodes[m].media, i)
            BY <1>6, <2>1
        <3> QED
            BY <1>1, <3>1, <3>2 DEF Holds
    <2>3. \A m \in DOMAIN nodes : \A e \in Nat : Contains(new[m].media, e) => e \in 1 .. k
        <3>1. \A m \in DOMAIN nodes : \A e \in Nat : Contains(nodes[m].media, e) => e \in 1 .. k
            BY <1>4 DEF Placed
        <3> QED
            BY <1>6, <3>1
    <2>4. ASSUME NEW i \in 1 .. k
          PROVE  \E n \in DOMAIN new : new[n].path = Front(files[i]) /\ Holds(new, i, n)
        <3>1. PICK n \in DOMAIN nodes : nodes[n].path = Front(files[i]) /\ Holds(nodes, i, n)
            BY <1>4 DEF Placed
        <3>2. Holds(new, i, n)
            BY <2>2, <3>1
        <3>3. n \in DOMAIN new /\ new[n].path = Front(files[i])
            BY <1>1, <1>2, <3>1
        <3> QED
            BY <3>2, <3>3
    <2>5. \A m \in DOMAIN new : \A e \in Nat : Contains(new[m].media, e) => e \in 1 .. k
        BY <1>1, <2>3
    <2> QED
        BY <2>4, <2>5 DEF Placed
<1> QED
    BY <1>3, <1>4

-----------------------------------------------------------------------------
(* The index.                                                              *)

\* A sequence of the elements of K, each once.
OneEach(s, K) ==
    /\ s \in Seq(K)
    /\ \A i, j \in DOMAIN s : s[i] = s[j] => i = j
    /\ \A k \in K : \E j \in DOMAIN s : s[j] = k

OwnersAreLongest(subs, files) ==
    \A i, j \in DOMAIN files : \A k \in DOMAIN subs[i] :
        LET stem(f) == Lower(Stem(FileName(files[f])))
        IN  /\ Front(files[i]) = Front(files[j])
            /\ IsStrictPrefix(stem(i), stem(j))
            => ~IsPrefix(stem(j), Lower(Stem(subs[i][k])))

IndexOK(l) ==
    /\ Apart(l.roots)
    /\ Indexed(l.files, l.roots)
    /\ Tree(l.nodes, l.roots, l.files)
    /\ Placed(l.nodes, l.files, Len(l.files))
    /\ OneEach(l.video, {i \in DOMAIN l.files : ~IsAudio(l.files[i])})
    /\ OneEach(l.audio, {i \in DOMAIN l.files : IsAudio(l.files[i])})
    /\ \A i \in DOMAIN l.files : l.subs[i] \in Seq(Name)
    /\ OwnersAreLongest(l.subs, l.files)

(* Some of the numbers up to n, in their order.                            *)
LEMMA SomeNumbers ==
    ASSUME NEW n \in Nat, NEW K \in SUBSET (1 .. n)
    PROVE  OneEach(Sublist([i \in 1 .. n |-> i], K), K)
<1> DEFINE seq == [i \in 1 .. n |-> i]
           s == Sublist(seq, K)
<1>1. seq \in Seq(1 .. n) /\ DOMAIN seq = 1 .. n /\ \A i \in 1 .. n : seq[i] = i
    OBVIOUS
<1> HIDE DEF seq, s
<1>2. K \in SUBSET DOMAIN seq
    BY <1>1
<1>3. s \in Seq(1 .. n) /\ \E h : Picks(h, s, seq, K)
    BY <1>1, <1>2, SublistIs DEF s
<1>4. PICK h : Picks(h, s, seq, K)
    BY <1>3
<1>5. DOMAIN s = 1 .. Len(s) /\ Len(s) \in Nat
    BY <1>3
<1>6. \A j \in DOMAIN s : s[j] = h[j] /\ h[j] \in K
    BY <1>1, <1>2, <1>4 DEF Picks
<1>7. s \in Seq(K)
    <2>1. s = [j \in 1 .. Len(s) |-> s[j]]
        BY <1>3
    <2> QED
        BY <1>5, <1>6, <2>1
<1>8. ASSUME NEW i \in DOMAIN s, NEW j \in DOMAIN s, s[i] = s[j]
      PROVE  i = j
    <2>1. \A x, y \in DOMAIN s : x < y => h[x] < h[y]
        BY <1>4 DEF Picks
    <2>2. h[i] = h[j] /\ h[i] \in Nat
        BY <1>2, <1>6, <1>8
    <2>3. ~(h[i] < h[j]) /\ ~(h[j] < h[i])
        BY <2>2
    <2> QED
        BY <1>5, <2>1, <2>3
<1>9. \A k \in K : \E j \in DOMAIN s : s[j] = k
    BY <1>4, <1>6 DEF Picks
<1> QED
    BY <1>7, <1>8, <1>9 DEF OneEach, s, seq

LEMMA IndexIsOK ==
    ASSUME NEW disk, ADisk(disk), NEW dirs \in Seq(Seq(Name))
    PROVE  IndexOK(Index(disk, dirs))
<1> DEFINE roots == UniqueCanonicalRoots(dirs)
           files == MediaFiles(disk, roots)
           nodes == SortFolderTree(BuildFolderTree(roots, files), files)
           seq == [i \in DOMAIN files |-> i]
           video == {i \in DOMAIN files : ~IsAudio(files[i])}
           audio == {i \in DOMAIN files : IsAudio(files[i])}
           l == Index(disk, dirs)
<1>1. Apart(roots)
    BY RootsAreApart
<1>2. Indexed(files, roots)
    BY <1>1, FilesAreIndexed
<1>3. /\ l.roots = roots /\ l.files = files /\ l.nodes = nodes
      /\ l.subs = SidecarSubtitles(disk, files)
    BY DEF Index
<1>4. /\ l.video = Sublist(seq, {k \in DOMAIN seq : ~IsAudio(files[seq[k]])})
      /\ l.audio = Sublist(seq, {k \in DOMAIN seq : IsAudio(files[seq[k]])})
    BY DEF Index, Selected
<1>5. {k \in DOMAIN seq : ~IsAudio(files[seq[k]])} = video
    OBVIOUS
<1>6. {k \in DOMAIN seq : IsAudio(files[seq[k]])} = audio
    OBVIOUS
<1> HIDE DEF roots, files, l
<1>7. files \in Seq(FilePath) /\ Len(files) \in Nat /\ DOMAIN files = 1 .. Len(files)
    BY <1>2 DEF Indexed
<1>8. OneEach(l.video, video) /\ OneEach(l.audio, audio)
    <2>1. seq = [i \in 1 .. Len(files) |-> i]
        BY <1>7
    <2>2. video \in SUBSET (1 .. Len(files)) /\ audio \in SUBSET (1 .. Len(files))
        BY <1>7
    <2> HIDE DEF video, audio, seq
    <2>3. OneEach(Sublist(seq, video), video) /\ OneEach(Sublist(seq, audio), audio)
        BY <1>7, <2>1, <2>2, SomeNumbers
    <2> QED
        BY <1>4, <1>5, <1>6, <2>3
<1>9. Tree(nodes, roots, files) /\ Placed(nodes, files, Len(files))
    <2> DEFINE built == BuildFolderTree(roots, files)
    <2>1. Tree(built, roots, files) /\ Placed(built, files, Len(files))
        BY <1>1, <1>2, TreeIsBuilt
    <2> HIDE DEF built
    <2>2. Reordered(SortFolderTree(built, files), built)
        BY <1>2, <2>1, SortReorders
    <2>3. Len(roots) \in Nat /\ DOMAIN roots = 1 .. Len(roots)
        BY <1>1 DEF Apart
    <2>4. /\ Tree(SortFolderTree(built, files), roots, files)
          /\ Placed(SortFolderTree(built, files), files, Len(files))
        BY <2>1, <2>2, <2>3, ReorderedKeeps
    <2> QED
        BY <2>4 DEF built
<1>10. \A i \in DOMAIN files : l.subs[i] \in Seq(Name)
    BY <1>3, <1>7, SubtitlesAre
<1>11. OwnersAreLongest(l.subs, files)
    <2> SUFFICES ASSUME NEW i \in DOMAIN files, NEW j \in DOMAIN files,
                        NEW k \in DOMAIN l.subs[i],
                        Front(files[i]) = Front(files[j]),
                        IsStrictPrefix(Lower(Stem(FileName(files[i]))),
                                       Lower(Stem(FileName(files[j]))))
                 PROVE  ~IsPrefix(Lower(Stem(FileName(files[j]))), Lower(Stem(l.subs[i][k])))
        BY DEF OwnersAreLongest
    <2> QED
        BY <1>3, <1>7, LongestStemOwns
<1> HIDE DEF nodes, video, audio
<1>12. /\ OneEach(l.video, {i \in DOMAIN l.files : ~IsAudio(l.files[i])})
       /\ OneEach(l.audio, {i \in DOMAIN l.files : IsAudio(l.files[i])})
    BY <1>3, <1>8 DEF video, audio
<1> QED
    BY <1>1, <1>2, <1>3, <1>9, <1>10, <1>11, <1>12 DEF IndexOK, l

LEMMA DiskSeenIsADisk ==
    ASSUME NEW fs, NEW follow
    PROVE  ADisk(DiskSeen(fs, follow))
<1> DEFINE there == {p \in TreePaths : Resolve(fs, p, follow) # NoInode}
<1>1. DOMAIN DiskSeen(fs, follow) = there
    BY DEF DiskSeen
<1>2. IsFiniteSet(there)
    BY PathAssumption, FS_Subset
<1> QED
    BY <1>1, <1>2, PathAssumption DEF ADisk

LEMMA InitIndexOK == Init => IndexOK(lib)
<1> SUFFICES ASSUME Init PROVE IndexOK(lib)
    OBVIOUS
<1>1. PICK dirs \in Sources : lib = Index(DiskSeen(entry, FALSE), dirs)
    BY DEF Init, ServerInit
<1>2. dirs \in Seq(Seq(Name))
    BY PathAssumption
<1> QED
    BY <1>1, <1>2, DiskSeenIsADisk, IndexIsOK

LEMMA LibStays == [Next]_vars => lib' = lib
BY DEF Next, vars, serverVars, OpenList, NextPage, FetchItem, FetchSubtitle,
   FetchFromPlaylist, FetchUnlisted, FetchArt, RequestMedia, RequestArt, ServeStep,
   FindArt, OpenRoot, OpenDirectory, OpenFile, AnswerHead, StreamChunk, Finish,
   Owner, Rename, Unlink, Resize

(* What start_server indexes, from every disk and every list of sources,   *)
(* and serves as long as it runs: sources none of which lies in another,   *)
(* files each once, and a tree of folders with one node for each directory *)
(* (index_media, build_folder_tree and sort_folder_tree).                  *)
THEOREM IndexIsSound == Spec => []IndexOK(lib)
<1>1. IndexOK(lib) /\ [Next]_vars => IndexOK(lib)'
    BY LibStays
<1> QED
    BY <1>1, InitIndexOK, PTL DEF Spec

(* Whatever the sources, duplicates and folders inside each other among    *)
(* them, each file is indexed once and in the one folder of its directory, *)
(* and each folder below a source hangs under exactly one other            *)
(* (unique_canonical_roots, collect_media and build_folder_tree).          *)
THEOREM EachFileInOneFolderHolds == Spec => []EachFileInOneFolder
<1>1. IndexOK(lib) => EachFileInOneFolder
    <2> SUFFICES ASSUME IndexOK(lib) PROVE EachFileInOneFolder
        OBVIOUS
    <2>1. IsInjective(lib.files)
        BY DEF IndexOK, Indexed, IsInjective
    <2>2. lib.files \in Seq(FilePath) /\ DOMAIN lib.files = 1 .. Len(lib.files)
        BY DEF IndexOK, Indexed
    <2>3. \A i \in DOMAIN lib.files :
              \E n \in DOMAIN lib.nodes :
                  /\ lib.nodes[n].path = Front(lib.files[i])
                  /\ \A m \in DOMAIN lib.nodes :
                        Contains(lib.nodes[m].media, i) <=> m = n
        BY <2>2 DEF IndexOK, Placed, Holds
    <2>4. \A n \in Len(lib.roots) + 1 .. Len(lib.nodes) :
              \E m \in 1 .. n - 1 :
                  /\ lib.nodes[m].path = Front(lib.nodes[n].path)
                  /\ \A k \in DOMAIN lib.nodes :
                        Contains(lib.nodes[k].subs, n) <=> k = m
        BY DEF IndexOK, Tree, Hangs
    <2> QED
        BY <2>1, <2>3, <2>4 DEF EachFileInOneFolder
<1> QED
    BY <1>1, IndexIsSound, PTL

(* A sidecar is offered with the file whose stem is the longest it begins  *)
(* with (sidecar_owners).                                                  *)
THEOREM SubtitleOfLongestStemHolds == Spec => []SubtitleOfLongestStem
<1>1. IndexOK(lib) => SubtitleOfLongestStem
    BY DEF IndexOK, OwnersAreLongest, SubtitleOfLongestStem
<1> QED
    BY <1>1, IndexIsSound, PTL

-----------------------------------------------------------------------------
(* What is sent.                                                           *)

-----------------------------------------------------------------------------
(* parse_byte_range against what RFC 9110 says of the header.              *)

LEMMA AtMostIsMin ==
    ASSUME NEW a \in Nat, NEW b \in Nat
    PROVE  AtMost(a, b) = IF a <= b THEN a ELSE b
BY DEF AtMost

(* For every header and every length: a part is exactly the bytes asked    *)
(* for and not empty, the whole file is sent where it is what is asked     *)
(* for, and 416 is answered where nothing is.                              *)
LEMMA ParseByteRangeCorrect ==
    ASSUME NEW h \in Header, NEW len \in Nat
    PROVE  LET range == ParseByteRange(h, len)
           IN  \/ range = Full /\ Asked(h, len) = 0 .. len - 1
               \/ range = Unsatisfiable /\ Asked(h, len) = {}
               \/ \E s, e \in Nat :
                     /\ range = Part(s, e)
                     /\ s <= e /\ e < len
                     /\ Asked(h, len) = s .. e
<1> USE DEF Header, Open
<1>1. CASE h.form \in {"none", "other", "several"}
    BY <1>1 DEF ParseByteRange, Asked
<1>2. CASE h.form \notin {"none", "other", "several"} /\ (len = 0 \/ h.form = "bad")
    BY <1>2 DEF ParseByteRange, Asked
<1>3. CASE len # 0 /\ h.form = "suffix"
    <2>1. CASE h.first = 0
        BY <1>3, <2>1 DEF ParseByteRange, Asked
    <2>2. CASE h.first # 0
        <3> DEFINE s == IF h.first <= len THEN len - h.first ELSE 0
        <3>1. s \in Nat /\ len - 1 \in Nat /\ s <= len - 1
            BY <1>3, <2>2
        <3>2. ParseByteRange(h, len) = Part(s, len - 1)
            BY <1>3, <2>2, AtMostIsMin DEF ParseByteRange
        <3>3. Asked(h, len) = s .. len - 1
            BY <1>3, <2>2 DEF Asked
        <3> QED
            BY <3>1, <3>2, <3>3
    <2> QED
        BY <2>1, <2>2
<1>4. CASE len # 0 /\ h.form = "from"
    <2>1. CASE h.first >= len \/ (h.last # Open /\ h.last < h.first)
        BY <1>4, <2>1 DEF ParseByteRange, Asked
    <2>2. CASE ~(h.first >= len \/ (h.last # Open /\ h.last < h.first))
        <3> DEFINE e == IF h.last = Open \/ len - 1 <= h.last THEN len - 1 ELSE h.last
        <3>1. e \in Nat /\ h.first \in Nat /\ h.first <= e /\ e < len
            BY <1>4, <2>2
        <3>2. ParseByteRange(h, len) = Part(h.first, e)
            BY <1>4, <2>2, AtMostIsMin DEF ParseByteRange
        <3>3. Asked(h, len) = h.first .. e
            BY <1>4, <2>2 DEF Asked
        <3> QED
            BY <3>1, <3>2, <3>3
    <2> QED
        BY <2>1, <2>2
<1> QED
    BY <1>1, <1>2, <1>3, <1>4

-----------------------------------------------------------------------------
(* The inductive invariant.  What the two properties need is how the parts *)
(* of one request fit together: its range is the one of the length seen    *)
(* when the answer began, its position that of the bytes sent, and unless  *)
(* the owner changed something since, that length is still the file's.     *)

Files == {i \in Inode : KindOf[i] = "file"}

Unserved == {"idle", "art", "root", "open", "opened"}

SystemOK ==
    /\ entry \in [DOMAIN entry -> Inode]
    /\ length \in [Files -> Nat]
    /\ swaps \in Nat

RequestOK ==
    /\ DOMAIN req = DOMAIN Idle
    /\ req.pc \in Unserved \cup {"body", "done"}
    /\ req.status \in {0, 200, 206, 404, 416}
    /\ req.since \in Nat /\ req.since <= swaps
    /\ req.pc \in Unserved => req.status = 0 /\ req.pos = 0 /\ req.sent = 0
    /\ req.pc \in {"opened", "body"} => req.handle \in Files

AnswerOK ==
    req.status \in {200, 206, 416} =>
        /\ req.header \in Header
        /\ req.len \in Nat
        /\ req.range = ParseByteRange(req.header, req.len)
        /\ req.status = 200 => req.range.kind = "full" /\ req.declared = req.len
        /\ req.status = 206 => /\ req.range.kind = "part"
                               /\ req.declared = req.range.end - req.range.start + 1
        /\ req.status = 416 => req.range.kind = "unsatisfiable"

BodyOK ==
    /\ req.status \in {200, 206} => req.sent \in Nat
    /\ req.status = 206 => req.sent <= req.declared
    /\ req.pc = "body" =>
          /\ req.status \in {200, 206}
          /\ req.status = 200 => req.pos = req.sent
          /\ req.status = 206 => req.pos = req.range.start + req.sent
          /\ swaps = req.since => /\ length[req.handle] = req.len
                                  /\ req.sent <= req.declared
    /\ (req.pc = "done" /\ ~req.head /\ req.status \in {200, 206}
          /\ swaps = req.since) => req.sent = req.declared

IInv == SystemOK /\ RequestOK /\ AnswerOK /\ BodyOK

LEMMA InitIInv == Init => IInv
<1> SUFFICES ASSUME Init PROVE IInv
    OBVIOUS
<1> USE DEF Init, ServerInit
<1>1. SystemOK
    BY InodeAssumption, LengthAssumption DEF SystemOK, Files
<1>2. RequestOK
    BY DEF RequestOK, Idle, Unserved
<1>3. AnswerOK /\ BodyOK
    BY DEF AnswerOK, BodyOK, Idle
<1> QED
    BY <1>1, <1>2, <1>3 DEF IInv

-----------------------------------------------------------------------------
(* The steps.                                                              *)

ServerNext ==
    \/ \E item, url : RequestMedia(item, url)
    \/ \E i : RequestArt(i)
    \/ ServeStep
    \/ Finish
    \/ Owner
    \/ UNCHANGED serverVars

LEMMA StepOfServer == [Next]_vars => ServerNext
BY DEF Next, vars, ServerNext, OpenList, NextPage, FetchItem, FetchSubtitle,
       FetchFromPlaylist, FetchUnlisted, FetchArt

(* A request that starts, is refused or is forgotten holds nothing yet.    *)
LEMMA FreshRequest ==
    ASSUME IInv, UNCHANGED <<fsVars, swaps>>,
           DOMAIN req' = DOMAIN Idle,
           \/ req'.pc \in Unserved \ {"opened"} /\ req'.status = 0
           \/ req'.pc = "done" /\ req'.status = 404,
           req'.pos = 0, req'.sent = 0,
           req'.since \in Nat, req'.since <= swaps
    PROVE  IInv'
<1> USE DEF IInv, fsVars
<1>1. SystemOK'
    BY DEF SystemOK
<1>2. RequestOK'
    BY DEF RequestOK, Unserved
<1>3. AnswerOK' /\ BodyOK'
    BY DEF AnswerOK, BodyOK, Unserved
<1> QED
    BY <1>1, <1>2, <1>3

LEMMA OwnerKeeps == IInv /\ Owner => IInv'
<1> SUFFICES ASSUME IInv, Owner PROVE IInv'
    OBVIOUS
<1>1. SystemOK' /\ req' = req /\ swaps' = swaps + 1
    <2> USE DEF IInv, SystemOK
    <2>1. CASE Rename
        BY <2>1, InodeAssumption DEF Rename
    <2>2. CASE Unlink
        BY <2>2 DEF Unlink
    <2>3. CASE Resize
        BY <2>3, LengthAssumption DEF Resize
    <2> QED
        BY <2>1, <2>2, <2>3 DEF Owner
<1>2. RequestOK'
    BY <1>1 DEF IInv, SystemOK, RequestOK, Unserved
<1>3. AnswerOK'
    BY <1>1 DEF IInv, AnswerOK
<1>4. BodyOK'
    BY <1>1 DEF IInv, SystemOK, RequestOK, BodyOK
<1> QED
    BY <1>1, <1>2, <1>3, <1>4 DEF IInv

(* A cover is looked for once: it is not there, or its URL is opened.       *)
LEMMA CoverFound ==
    ASSUME FindArt
    PROVE  \/ req' = NotFound(req)
           \/ \E root, path :
                 req' = [req EXCEPT !.pc = "root", !.root = root, !.path = path]
<1> DEFINE art == AlbumArt(DiskSeen(entry, TRUE), req.path)
           url == IF art = <<>> THEN NoUrl ELSE MediaUrl(art, lib.roots)
<1>1. req' = IF url = NoUrl THEN NotFound(req)
             ELSE [req EXCEPT !.pc = "root", !.root = url.dir,
                              !.path = DecodePath(url.tail)]
    BY Zenon DEF FindArt
<1> HIDE DEF url
<1> QED
    BY <1>1, Zenon

LEMMA OpeningKeeps ==
    ASSUME IInv, FindArt \/ OpenRoot \/ OpenDirectory \/ OpenFile
    PROVE  IInv'
<1> USE DEF IInv, RequestOK, Unserved, Idle, NotFound, fsVars
<1>1. CASE FindArt
    <2>1. \/ req' = NotFound(req)
          \/ \E root, path :
                req' = [req EXCEPT !.pc = "root", !.root = root, !.path = path]
        BY <1>1, CoverFound
    <2>2. req.pc = "art" /\ UNCHANGED <<fsVars, swaps>>
        BY <1>1 DEF FindArt
    <2>3. CASE req' = NotFound(req)
        BY <2>2, <2>3, FreshRequest
    <2>4. ASSUME NEW root, NEW path,
                 req' = [req EXCEPT !.pc = "root", !.root = root, !.path = path]
          PROVE  IInv'
        BY <2>2, <2>4, FreshRequest
    <2> QED
        BY <2>1, <2>3, <2>4
<1>2. CASE OpenRoot
    <2>1. \/ req' = NotFound(req)
          \/ \E root : req' = [req EXCEPT !.pc = "open", !.handle = root]
        BY <1>2 DEF OpenRoot
    <2>2. req.pc = "root" /\ UNCHANGED <<fsVars, swaps>>
        BY <1>2 DEF OpenRoot
    <2>3. CASE req' = NotFound(req)
        BY <2>2, <2>3, FreshRequest
    <2>4. ASSUME NEW root, req' = [req EXCEPT !.pc = "open", !.handle = root] PROVE IInv'
        BY <2>2, <2>4, FreshRequest
    <2> QED
        BY <2>1, <2>3, <2>4
<1>3. CASE OpenDirectory
    BY <1>3, FreshRequest DEF OpenDirectory
<1>4. CASE OpenFile
    BY <1>4, FreshRequest DEF OpenFile, SystemOK, AnswerOK, BodyOK, At, NoInode, Files
<1> QED
    BY <1>1, <1>2, <1>3, <1>4

LEMMA AnswerKeeps ==
    ASSUME IInv, NEW h \in RangeHeader, NEW isHead \in BOOLEAN, AnswerHead(h, isHead)
    PROVE  IInv'
<1> DEFINE len == length[req.handle]
           range == ParseByteRange(h, len)
<1>1. h \in Header /\ len \in Nat
    BY HeaderAssumption DEF AnswerHead, IInv, SystemOK, RequestOK
<1>2. \/ range.kind = "full"
      \/ range.kind = "unsatisfiable"
      \/ /\ range.kind = "part"
         /\ range.start \in Nat /\ range.end \in Nat
         /\ range.start <= range.end
    BY <1>1, ParseByteRangeCorrect DEF Full, Unsatisfiable, Part
<1>3. /\ DOMAIN req' = DOMAIN req
      /\ req'.since = req.since /\ req'.handle = req.handle
      /\ req'.header = h /\ req'.len = len /\ req'.range = range
      /\ req'.head = isHead
      /\ req'.sent = 0
      /\ \/ /\ range.kind = "unsatisfiable"
            /\ req'.pc = "done" /\ req'.status = 416
         \/ /\ range.kind = "full"
            /\ req'.pc = IF isHead THEN "done" ELSE "body"
            /\ req'.status = 200 /\ req'.declared = len /\ req'.pos = 0
         \/ /\ range.kind = "part"
            /\ req'.pc = IF isHead THEN "done" ELSE "body"
            /\ req'.status = 206 /\ req'.pos = range.start
            /\ req'.declared = range.end - range.start + 1
    BY <1>2 DEF AnswerHead, IInv, RequestOK, Unserved, Idle
<1>4. UNCHANGED <<entry, length, swaps>> /\ req.handle \in Files
    BY DEF AnswerHead, fsVars, IInv, RequestOK
<1>5. SystemOK'
    BY <1>4 DEF IInv, SystemOK
<1>6. RequestOK'
    BY <1>3, <1>4 DEF IInv, RequestOK, Unserved
<1>7. AnswerOK'
    BY <1>1, <1>3 DEF AnswerOK
<1>8. BodyOK'
    BY <1>1, <1>2, <1>3, <1>4 DEF BodyOK
<1> QED
    BY <1>5, <1>6, <1>7, <1>8 DEF IInv

LEMMA StreamKeeps == IInv /\ StreamChunk => IInv'
<1> SUFFICES ASSUME IInv, StreamChunk PROVE IInv'
    OBVIOUS
<1> DEFINE size == length[req.handle]
           limit == IF req.status = 206 THEN ReadSize(req.declared - req.sent) ELSE Chunk
           there == IF size > req.pos THEN size - req.pos ELSE 0
           n == AtMost(limit, there)
<1>1. /\ UNCHANGED <<entry, length, swaps>>
      /\ req.pc = "body" /\ req.status \in {200, 206}
      /\ size \in Nat /\ req.sent \in Nat
    BY DEF StreamChunk, fsVars, IInv, SystemOK, RequestOK, BodyOK
<1>2. /\ req.len \in Nat
      /\ req.status = 200 => req.declared = req.len /\ req.pos = req.sent
      /\ req.status = 206 => /\ req.range.start \in Nat /\ req.range.end \in Nat
                             /\ req.range.end < req.len
                             /\ req.declared = req.range.end - req.range.start + 1
                             /\ req.sent <= req.declared
                             /\ req.pos = req.range.start + req.sent
    BY <1>1, ParseByteRangeCorrect DEF IInv, AnswerOK, BodyOK, Full, Unsatisfiable, Part
<1>3. /\ limit \in Nat /\ there \in Nat /\ n \in Nat
      /\ n <= limit /\ n <= there
      /\ n = 0 => limit = 0 \/ there = 0
      /\ req.status = 206 => limit <= req.declared - req.sent
      /\ limit = 0 => req.status = 206 /\ req.sent = req.declared
    <2>1. limit \in Nat /\ there \in Nat
        BY <1>1, <1>2, AtMostIsMin, LengthAssumption DEF ReadSize
    <2>2. req.status = 206 => limit <= req.declared - req.sent
        BY <1>1, <1>2, AtMostIsMin, LengthAssumption DEF ReadSize
    <2>3. limit = 0 => req.status = 206 /\ req.sent = req.declared
        BY <1>1, <1>2, AtMostIsMin, LengthAssumption DEF ReadSize
    <2> HIDE DEF limit, there
    <2>4. n \in Nat /\ n <= limit /\ n <= there /\ (n = 0 => limit = 0 \/ there = 0)
        BY <2>1, AtMostIsMin
    <2> QED
        BY <2>1, <2>2, <2>3, <2>4
<1> HIDE DEF size, limit, there, n
<1>4. /\ DOMAIN req' = DOMAIN req
      /\ \A f \in DOMAIN req \ {"pc", "pos", "sent"} : req'[f] = req[f]
      /\ \/ n = 0 /\ req'.pc = "done" /\ req'.pos = req.pos /\ req'.sent = req.sent
         \/ n # 0 /\ req'.pc = "body" /\ req'.pos = req.pos + n /\ req'.sent = req.sent + n
    BY <1>1 DEF StreamChunk, IInv, RequestOK, Idle, size, limit, there, n
<1>5. /\ req'.since = req.since /\ req'.handle = req.handle /\ req'.status = req.status
      /\ req'.header = req.header /\ req'.len = req.len /\ req'.range = req.range
      /\ req'.declared = req.declared /\ req'.head = req.head
    BY <1>4 DEF IInv, RequestOK, Idle
<1>6. swaps = req.since => size = req.len /\ req.sent <= req.declared
    BY <1>1 DEF IInv, BodyOK, size
<1>7. n = 0 /\ swaps = req.since => req.sent = req.declared
    BY <1>1, <1>2, <1>3, <1>6 DEF there
<1>8. n # 0 /\ swaps = req.since => req.sent + n <= req.declared
    BY <1>1, <1>2, <1>3, <1>6 DEF there
<1>9. SystemOK' /\ RequestOK'
    BY <1>1, <1>4, <1>5 DEF IInv, SystemOK, RequestOK, Unserved
<1>10. AnswerOK'
    BY <1>5 DEF IInv, AnswerOK
<1>11. BodyOK'
    BY <1>1, <1>2, <1>3, <1>4, <1>5, <1>6, <1>7, <1>8 DEF BodyOK, size
<1> QED
    BY <1>9, <1>10, <1>11 DEF IInv

LEMMA NextIInv == IInv /\ [Next]_vars => IInv'
<1> SUFFICES ASSUME IInv, ServerNext PROVE IInv'
    BY StepOfServer
<1>1. ASSUME NEW item, NEW url, RequestMedia(item, url) PROVE IInv'
    BY <1>1, FreshRequest
       DEF RequestMedia, Start, NotFound, Idle, Unserved, IInv, SystemOK, fsVars
<1>2. ASSUME NEW i, RequestArt(i) PROVE IInv'
    BY <1>2, FreshRequest
       DEF RequestArt, Start, NotFound, Idle, Unserved, IInv, SystemOK, fsVars
<1>3. CASE ServeStep
    BY <1>3, OpeningKeeps, AnswerKeeps, StreamKeeps DEF ServeStep
<1>4. CASE Finish
    BY <1>4, FreshRequest DEF Finish, Idle, Unserved, IInv, SystemOK, fsVars
<1>5. CASE Owner
    BY <1>5, OwnerKeeps
<1>6. CASE UNCHANGED serverVars
    BY <1>6 DEF serverVars, fsVars, IInv, SystemOK, RequestOK, AnswerOK, BodyOK
<1> QED
    BY <1>1, <1>2, <1>3, <1>4, <1>5, <1>6 DEF ServerNext

-----------------------------------------------------------------------------
(* The theorems.                                                           *)

LEMMA Invariance == Spec => []IInv
BY InitIInv, NextIInv, PTL DEF Spec

LEMMA IInvRange == IInv => RangeIsTheOneAsked
<1> SUFFICES ASSUME IInv, req.status \in {200, 206, 416}
             PROVE  LET asked == Asked(req.header, req.len)
                    IN  /\ req.status = 206 => /\ req.range.start .. req.range.end = asked
                                               /\ Cardinality(asked) = req.declared
                        /\ req.status = 200 => asked = 0 .. req.len - 1
                        /\ req.status = 416 => asked = {}
    BY DEF RangeIsTheOneAsked
<1> DEFINE asked == Asked(req.header, req.len)
<1>1. /\ req.header \in Header /\ req.len \in Nat
      /\ req.range = ParseByteRange(req.header, req.len)
      /\ req.status = 200 => req.range.kind = "full"
      /\ req.status = 206 => /\ req.range.kind = "part"
                             /\ req.declared = req.range.end - req.range.start + 1
      /\ req.status = 416 => req.range.kind = "unsatisfiable"
    BY DEF IInv, AnswerOK
<1>2. CASE req.status = 206
    <2>1. PICK s \in Nat, e \in Nat : /\ req.range = Part(s, e)
                                      /\ s <= e
                                      /\ asked = s .. e
        BY <1>1, <1>2, ParseByteRangeCorrect DEF Full, Unsatisfiable
    <2>2. req.range.start = s /\ req.range.end = e
        BY <2>1 DEF Part
    <2>3. Cardinality(asked) = e - s + 1
        BY <2>1, FS_Interval
    <2> QED
        BY <1>1, <1>2, <2>1, <2>2, <2>3
<1>3. CASE req.status # 206
    BY <1>1, <1>3, ParseByteRangeCorrect DEF Full, Unsatisfiable, Part
<1> QED
    BY <1>2, <1>3

(* Every answer: 206 sends exactly the bytes the header asks for, as many  *)
(* as it declares, 200 is sent where it asks for all, 416 where it asks    *)
(* for none (parse_byte_range and serve_opened).                           *)
THEOREM RangeIsTheOneAskedHolds == Spec => []RangeIsTheOneAsked
BY Invariance, IInvRange, PTL

(* Every body: never longer than declared, and as long when the file was   *)
(* left alone (serve_opened, take(n) and the stream of chunks).            *)
THEOREM PartialBodyFitsHolds == Spec => []PartialBodyFits
<1>1. IInv => PartialBodyFits
    BY DEF IInv, RequestOK, BodyOK, PartialBodyFits, Unserved
<1> QED
    BY <1>1, Invariance, PTL

-----------------------------------------------------------------------------
(* Links.                                                                  *)

\* What a link leads to stands outside of what is served: only inside another
\* such directory is it found by name, and there it is not a directory.
OnlyLinksLeadOut ==
    /\ \A l \in Layouts : \A e \in DOMAIN l :
          l[e] \in Linked => KindOf[l[e]] # "dir" /\ e[1] \in Linked
    /\ Spare \cap Linked = {}
    /\ Top \notin Linked /\ NoInode \notin Linked

\* The same of the entries as they have become.
EntriesOK ==
    \A e \in DOMAIN entry :
        entry[e] \in Linked => KindOf[entry[e]] # "dir" /\ e[1] \in Linked

LinksInv == EntriesOK /\ NoLinkFollowed

(* Nothing that a link leads to is found in a directory that is not one.   *)
LEMMA FoundIsNotLinked ==
    ASSUME OnlyLinksLeadOut, EntriesOK, NEW dir, NEW name,
           dir \notin Linked \/ (At(entry, dir, name) # NoInode /\ KindOf[At(entry, dir, name)] = "dir")
    PROVE  At(entry, dir, name) \notin Linked
<1>1. CASE <<dir, name>> \in DOMAIN entry
    <2>1. At(entry, dir, name) = entry[<<dir, name>>] /\ <<dir, name>>[1] = dir
        BY <1>1 DEF At
    <2> QED
        BY <1>1, <2>1 DEF EntriesOK
<1>2. CASE <<dir, name>> \notin DOMAIN entry
    BY <1>2 DEF At, OnlyLinksLeadOut
<1> QED
    BY <1>1, <1>2

(* However the names above the last one are walked, a source that is opened *)
(* is none that a link leads to.                                           *)
LEMMA SourceIsNotLinked ==
    ASSUME OnlyLinksLeadOut, EntriesOK, NEW path,
           Resolve(entry, path, TRUE) # NoInode,
           KindOf[Resolve(entry, path, TRUE)] = "dir"
    PROVE  Resolve(entry, path, TRUE) \notin Linked
<1>1. CASE path = <<>>
    BY <1>1 DEF Resolve, OnlyLinksLeadOut
<1>2. CASE path # <<>>
    <2>1. PICK dir, name : Resolve(entry, path, TRUE) = At(entry, dir, name)
        BY <1>2 DEF Resolve
    <2> QED
        BY <2>1, FoundIsNotLinked
<1> QED
    BY <1>1, <1>2

LEMMA LinksStep ==
    ASSUME OnlyLinksLeadOut, IInv, LinksInv, ServerNext
    PROVE  LinksInv'
<1> USE DEF LinksInv, NoLinkFollowed, fsVars
<1>0. NoInode \notin Linked /\ DOMAIN req = DOMAIN Idle
    BY DEF OnlyLinksLeadOut, IInv, RequestOK
<1>1. ASSUME UNCHANGED entry, \/ req'.handle = req.handle
                              \/ req'.handle \notin Linked
      PROVE  LinksInv'
    BY <1>1 DEF EntriesOK
<1>2. ASSUME NEW item, NEW url, RequestMedia(item, url) PROVE LinksInv'
    BY <1>0, <1>1, <1>2 DEF RequestMedia, Start, NotFound, Idle
<1>3. ASSUME NEW i, RequestArt(i) PROVE LinksInv'
    BY <1>0, <1>1, <1>3 DEF RequestArt, Start, NotFound, Idle
<1>4. CASE FindArt
    BY <1>0, <1>1, <1>4 DEF FindArt, NotFound, Idle
<1>5. CASE OpenRoot
    <2>1. PICK root : /\ root = Resolve(entry, lib.roots[req.root], TRUE)
                      /\ \/ req' = NotFound(req)
                         \/ /\ root # NoInode /\ KindOf[root] = "dir"
                            /\ req' = [req EXCEPT !.pc = "open", !.handle = root]
        BY <1>5 DEF OpenRoot
    <2>2. root # NoInode /\ KindOf[root] = "dir" => root \notin Linked
        BY <2>1, SourceIsNotLinked
    <2> QED
        BY <1>0, <1>1, <1>5, <2>1, <2>2 DEF OpenRoot, NotFound, Idle
<1>6. CASE OpenDirectory \/ OpenFile
    <2>1. PICK file : file = At(entry, req.handle, Head(req.path))
        OBVIOUS
    <2>2. file \notin Linked
        BY <2>1, FoundIsNotLinked
    <2> QED
        BY <1>0, <1>1, <1>6, <2>1, <2>2 DEF OpenDirectory, OpenFile, NotFound, Idle
<1>7. ASSUME NEW h, NEW isHead, AnswerHead(h, isHead) PROVE LinksInv'
    <2>1. ParseByteRange(h, length[req.handle]).kind \in {"full", "unsatisfiable", "part"}
        BY DEF ParseByteRange, Full, Unsatisfiable, Part
    <2> QED
        BY <1>0, <1>1, <1>7, <2>1 DEF AnswerHead, Idle
<1>8. CASE StreamChunk
    BY <1>0, <1>1, <1>8 DEF StreamChunk, Idle
<1>9. CASE Finish
    BY <1>0, <1>1, <1>9 DEF Finish, Idle
<1>10. CASE Owner
    <2>1. req' = req
        BY <1>10 DEF Owner, Rename, Unlink, Resize
    <2>2. EntriesOK'
        <3>1. CASE Rename
            BY <3>1 DEF Rename, EntriesOK, OnlyLinksLeadOut, IInv, SystemOK
        <3>2. CASE Unlink
            BY <3>2 DEF Unlink, EntriesOK
        <3>3. CASE Resize
            BY <3>3 DEF Resize, EntriesOK
        <3> QED
            BY <1>10, <3>1, <3>2, <3>3 DEF Owner
    <2> QED
        BY <2>1, <2>2
<1>11. CASE UNCHANGED serverVars
    BY <1>1, <1>11 DEF serverVars
<1> QED
    BY <1>2, <1>3, <1>4, <1>5, <1>6, <1>7, <1>8, <1>9, <1>10, <1>11 DEF ServerNext, ServeStep

(* Whatever is renamed, unlinked or linked between any two steps of        *)
(* opening, open_media_file holds no file or directory that a link leads   *)
(* to, where what the links lead to is outside of what is served.          *)
THEOREM NoLinkFollowedHolds ==
    ASSUME OnlyLinksLeadOut
    PROVE  Spec => []NoLinkFollowed
<1>1. Init => LinksInv
    BY DEF Init, ServerInit, Idle, LinksInv, EntriesOK, NoLinkFollowed, OnlyLinksLeadOut
<1>2. IInv /\ LinksInv /\ [Next]_vars => LinksInv'
    BY StepOfServer, LinksStep
<1>3. LinksInv => NoLinkFollowed
    BY DEF LinksInv
<1> QED
    BY <1>1, <1>2, <1>3, Invariance, PTL DEF Spec

-----------------------------------------------------------------------------
(* Pages.                                                                  *)

(* A page goes on where the list read so far ends, whatever count is asked *)
(* for, and is empty only at the end of the list.                          *)
LEMMA PageGoesOn ==
    ASSUME NEW S, NEW list \in Seq(S), NEW n \in 0 .. Len(list), NEW count \in Nat
    PROVE  \E m \in n .. Len(list) :
              /\ SubSeq(list, 1, n) \o Page(list, n, count) = SubSeq(list, 1, m)
              /\ Len(SubSeq(list, 1, m)) = m
              /\ Page(list, n, count) = <<>> => m = Len(list)
<1> USE PageCapAssumption
<1>1. PICK limit \in Nat \ {0} :
          PageSlice(n, count, Len(list)) = <<AtMost(n, Len(list)), AtMost(AtMost(n, Len(list)) + limit, Len(list))>>
    <2>1. (IF count = 0 THEN PageCap ELSE AtMost(count, PageCap)) \in Nat \ {0}
        BY AtMostIsMin
    <2> QED
        BY <2>1 DEF PageSlice
<1> DEFINE m == IF n + limit <= Len(list) THEN n + limit ELSE Len(list)
<1>2. Len(list) \in Nat /\ m \in n .. Len(list)
    OBVIOUS
<1>3. PageSlice(n, count, Len(list)) = <<n, m>>
    <2>1. AtMost(n, Len(list)) = n /\ AtMost(n + limit, Len(list)) = m
        BY <1>2, AtMostIsMin
    <2> QED
        BY <1>1, <2>1
<1>8. n \in Nat /\ m \in Nat /\ n <= m /\ m <= Len(list) /\ (m = n + limit \/ m = Len(list))
    BY <1>2
<1> HIDE DEF m
<1>4. Page(list, n, count) = SubSeq(list, n + 1, m)
    <2>1. PageSlice(n, count, Len(list))[1] = n /\ PageSlice(n, count, Len(list))[2] = m
        BY <1>3
    <2> QED
        BY <2>1 DEF Page
<1>5. SubSeq(list, 1, n) \o SubSeq(list, n + 1, m) = SubSeq(list, 1, m)
    <2>1. 1 \in 1 .. Len(list) + 1 /\ n \in 1 - 1 .. Len(list) /\ m \in n .. Len(list)
        BY <1>2
    <2> QED
        BY <2>1, ConcatAdjacentSubSeq
<1>6. Len(SubSeq(list, 1, m)) = m
    BY <1>8, SubSeqProperties
<1>7. Page(list, n, count) = <<>> => m = Len(list)
    <2> SUFFICES ASSUME Page(list, n, count) = <<>>, m # Len(list) PROVE FALSE
        OBVIOUS
    <2>1. m = n + limit /\ n + 1 <= m
        BY <1>8
    <2>2. Len(SubSeq(list, n + 1, m)) = m - (n + 1) + 1
        BY <1>8, <2>1, SubSeqProperties
    <2>3. Len(SubSeq(list, n + 1, m)) = 0
        <3>1. Len(<<>>) = 0
            BY EmptySeq
        <3> QED
            BY <1>4, <3>1
    <2> QED
        BY <1>8, <2>1, <2>2, <2>3
<1> QED
    BY <1>2, <1>4, <1>5, <1>6, <1>7

\* What the index holds are sequences.
IndexOfSequences(l) ==
    /\ l.video \in Seq(Nat) /\ l.audio \in Seq(Nat)
    /\ IsFiniteSet(DOMAIN l.roots)
    /\ \A n \in DOMAIN l.nodes : l.nodes[n].subs \in Seq(Nat) /\ l.nodes[n].media \in Seq(Nat)

LEMMA NumbersOf ==
    ASSUME NEW K \in SUBSET Nat, NEW s \in Seq(K)
    PROVE  s \in Seq(Nat)
<1>1. Len(s) \in Nat /\ s = [k \in 1 .. Len(s) |-> s[k]]
    OBVIOUS
<1>2. \A k \in 1 .. Len(s) : s[k] \in Nat
    <2>1. \A k \in 1 .. Len(s) : s[k] \in K
        OBVIOUS
    <2>2. \A x \in K : x \in Nat
        OBVIOUS
    <2> QED
        BY <2>1, <2>2
<1> QED
    BY <1>1, <1>2

LEMMA IndexHasSequences ==
    ASSUME NEW l, IndexOK(l)
    PROVE  /\ IndexOfSequences(l)
           /\ DOMAIN l.roots = 1 .. Len(l.roots) /\ Len(l.roots) \in Nat
           /\ DOMAIN l.files = 1 .. Len(l.files) /\ Len(l.files) \in Nat
           /\ DOMAIN l.nodes = 1 .. Len(l.nodes) /\ Len(l.nodes) \in Nat
           /\ DOMAIN l.roots \in SUBSET DOMAIN l.nodes
<1>1. l.roots \in Seq(FilePath) /\ l.files \in Seq(FilePath) /\ l.nodes \in Seq(FolderNode)
    BY DEF IndexOK, Apart, Indexed, Tree
<1>2. /\ DOMAIN l.roots = 1 .. Len(l.roots) /\ Len(l.roots) \in Nat
      /\ DOMAIN l.files = 1 .. Len(l.files) /\ Len(l.files) \in Nat
      /\ DOMAIN l.nodes = 1 .. Len(l.nodes) /\ Len(l.nodes) \in Nat
    BY <1>1
<1>3. IsFiniteSet(DOMAIN l.roots)
    <2>1. ASSUME NEW n \in Nat PROVE IsFiniteSet(1 .. n)
        BY FS_Interval
    <2> QED
        BY <1>2, <2>1
<1>4. l.video \in Seq(Nat) /\ l.audio \in Seq(Nat)
    <2>2. {i \in DOMAIN l.files : ~IsAudio(l.files[i])} \in SUBSET Nat
        BY <1>2
    <2>3. {i \in DOMAIN l.files : IsAudio(l.files[i])} \in SUBSET Nat
        BY <1>2
    <2> QED
        BY <2>2, <2>3, NumbersOf DEF IndexOK, OneEach
<1>5. \A n \in DOMAIN l.nodes : l.nodes[n].subs \in Seq(Nat) /\ l.nodes[n].media \in Seq(Nat)
    <2>1. \A n \in DOMAIN l.nodes : l.nodes[n] \in FolderNode
        BY <1>1
    <2>2. \A node \in FolderNode : node.subs \in Seq(Nat) /\ node.media \in Seq(Nat)
        BY DEF FolderNode
    <2> QED
        BY <2>1, <2>2
<1>6. DOMAIN l.roots \in SUBSET DOMAIN l.nodes
    BY <1>2 DEF IndexOK, Tree
<1> QED
    BY <1>2, <1>3, <1>4, <1>5, <1>6 DEF IndexOfSequences

LEMMA ItemsAreASequence ==
    ASSUME NEW l, NEW list \in Seq(Nat), NEW parent
    PROVE  /\ ItemsOf(l, list, parent) \in Seq({Item(l, i, ItemId(parent, i), parent) : i \in Nat})
           /\ Len(ItemsOf(l, list, parent)) = Len(list)
BY DEF ItemsOf

\* The folders of a list, as FolderChildren puts them first.
FoldersOf(l, list, parent) ==
    [k \in DOMAIN list |-> FolderContainer(l, list[k], parent)]

LEMMA FoldersAreASequence ==
    ASSUME NEW l, NEW list \in Seq(Nat), NEW parent
    PROVE  /\ FoldersOf(l, list, parent) \in Seq({FolderContainer(l, n, parent) : n \in Nat})
           /\ Len(FoldersOf(l, list, parent)) = Len(list)
BY DEF FoldersOf

LEMMA RootsAreASequence ==
    ASSUME NEW l, IndexOfSequences(l)
    PROVE  Len(ActiveRoots(l)) \in Nat /\ DOMAIN ActiveRoots(l) = 1 .. Len(ActiveRoots(l))
<1> DEFINE active == {n \in DOMAIN l.roots : FolderChildCount(l.nodes[n]) > 0}
<1>1. Cardinality(active) \in Nat
    BY FS_Subset, FS_CardinalityType DEF IndexOfSequences
<1> DEFINE R == OrderOf(active, <)
           pick(k) == CHOOSE x \in active : Cardinality(Under(R, active, x)) = k - 1
           S == {pick(k) : k \in 1 .. Cardinality(active)}
<1>3. ActiveRoots(l) = [k \in 1 .. Cardinality(active) |-> pick(k)]
    BY DEF ActiveRoots, Sorted, Ranked
<1>2. DOMAIN ActiveRoots(l) = 1 .. Cardinality(active)
    BY <1>3
<1> HIDE DEF active, R, pick
<1>4. ActiveRoots(l) \in [1 .. Cardinality(active) -> S]
    BY <1>3
<1> HIDE DEF S
<1>5. ActiveRoots(l) \in Seq(S) /\ Len(ActiveRoots(l)) = Cardinality(active)
    BY <1>1, <1>4
<1> QED
    BY <1>1, <1>2, <1>5

(* What a container lists is as long as its childCount says.               *)
LEMMA ChildCountIsRight ==
    ASSUME NEW l, IndexOfSequences(l),
           NEW id, \/ id \in {RootId, VideoId, AudioId, FolderId}
                   \/ \E n \in DOMAIN l.nodes : id = Obj("f", n)
    PROVE  /\ \E S : Children(l, id) \in Seq(S)
           /\ Metadata(l, id).children = Len(Children(l, id))
<1> USE DEF RootId, VideoId, AudioId, FolderId, Obj
<1>1. CASE id = RootId
    <2> DEFINE S == {Container(i, RootId, n) : i \in {VideoId, AudioId, FolderId}, n \in Nat}
               part(i, n) == IF n = 0 THEN <<>> ELSE <<Container(i, RootId, n)>>
    <2>4. ASSUME NEW i \in {VideoId, AudioId, FolderId}, NEW n \in Nat PROVE part(i, n) \in Seq(S)
        <3>1. Container(i, RootId, n) \in S
            OBVIOUS
        <3> HIDE DEF S
        <3> QED
            BY <3>1
    <2>1. /\ part(VideoId, Len(l.video)) \in Seq(S)
          /\ part(AudioId, Len(l.audio)) \in Seq(S)
          /\ part(FolderId, Len(ActiveRoots(l))) \in Seq(S)
        <3>1. Len(l.video) \in Nat /\ Len(l.audio) \in Nat /\ Len(ActiveRoots(l)) \in Nat
            BY RootsAreASequence DEF IndexOfSequences
        <3> HIDE DEF S, part
        <3> QED
            BY <2>4, <3>1
    <2>2. RootChildren(l) = part(VideoId, Len(l.video)) \o part(AudioId, Len(l.audio))
                            \o part(FolderId, Len(ActiveRoots(l)))
        BY DEF RootChildren
    <2> HIDE DEF S, part
    <2>3. RootChildren(l) \in Seq(S)
        BY <2>1, <2>2
    <2> QED
        BY <1>1, <2>3 DEF Children, Metadata, Container
<1>2. CASE id = VideoId
    BY <1>2, ItemsAreASequence DEF Children, Metadata, Container, IndexOfSequences
<1>3. CASE id = AudioId
    BY <1>3, ItemsAreASequence DEF Children, Metadata, Container, IndexOfSequences
<1>4. CASE id = FolderId
    <2> DEFINE roots == ActiveRoots(l)
               S == {FolderContainer(l, roots[k], FolderId) : k \in DOMAIN roots}
    <2>1. FolderRootChildren(l) \in [1 .. Len(roots) -> S]
        BY RootsAreASequence DEF FolderRootChildren
    <2>2. FolderRootChildren(l) \in Seq(S) /\ Len(FolderRootChildren(l)) = Len(roots)
        BY <2>1, RootsAreASequence
    <2> QED
        BY <1>4, <2>2 DEF Children, Metadata, Container
<1>5. ASSUME NEW n \in DOMAIN l.nodes, id = Obj("f", n)
      PROVE  /\ \E S : Children(l, id) \in Seq(S)
             /\ Metadata(l, id).children = Len(Children(l, id))
    <2> DEFINE node == l.nodes[n]
               folders == FoldersOf(l, node.subs, id)
               items == ItemsOf(l, node.media, id)
               F == {FolderContainer(l, i, id) : i \in Nat}
               I == {Item(l, i, ItemId(id, i), id) : i \in Nat}
    <2>1. node.subs \in Seq(Nat) /\ node.media \in Seq(Nat)
        BY DEF IndexOfSequences
    <2>2. items \in Seq(I) /\ Len(items) = Len(node.media)
        BY <2>1, ItemsAreASequence
    <2>3. folders \in Seq(F) /\ Len(folders) = Len(node.subs)
        BY <2>1, FoldersAreASequence
    <2>4. /\ Children(l, id) = folders \o items
          /\ Metadata(l, id).children = Len(node.subs) + Len(node.media)
        BY <1>5 DEF Children, FolderChildren, FoldersOf, Metadata, FolderContainer,
           Container, FolderChildCount
    <2> HIDE DEF node, folders, items, F, I
    <2>5. folders \in Seq(F \cup I) /\ items \in Seq(F \cup I)
        BY <2>2, <2>3
    <2>6. folders \o items \in Seq(F \cup I) /\ Len(folders \o items) = Len(folders) + Len(items)
        BY <2>5
    <2> QED
        BY <2>2, <2>3, <2>4, <2>6
<1> QED
    BY <1>1, <1>2, <1>3, <1>4, <1>5

-----------------------------------------------------------------------------
(* What a listing says of an object, and what BrowseMetadata says of it.   *)

(* An object is what its id says.                                          *)
LEMMA ObjectsAre ==
    ASSUME NEW l
    PROVE  /\ Children(l, RootId) = RootChildren(l)
           /\ Children(l, VideoId) = ItemsOf(l, l.video, VideoId)
           /\ Children(l, AudioId) = ItemsOf(l, l.audio, AudioId)
           /\ Children(l, FolderId) = FolderRootChildren(l)
           /\ \A n : Children(l, Obj("f", n)) = FolderChildren(l, n)
           /\ Metadata(l, VideoId) = Container(VideoId, RootId, Len(l.video))
           /\ Metadata(l, AudioId) = Container(AudioId, RootId, Len(l.audio))
           /\ Metadata(l, FolderId) = Container(FolderId, RootId, Len(ActiveRoots(l)))
<1> USE DEF Obj, RootId, VideoId, AudioId, FolderId
<1>1. Children(l, RootId) = RootChildren(l)
    BY DEF Children
<1>2. Children(l, VideoId) = ItemsOf(l, l.video, VideoId)
    BY DEF Children
<1>3. Children(l, AudioId) = ItemsOf(l, l.audio, AudioId)
    BY DEF Children
<1>4. Children(l, FolderId) = FolderRootChildren(l)
    BY DEF Children
<1>5. ASSUME NEW n PROVE Children(l, Obj("f", n)) = FolderChildren(l, n)
    BY DEF Children
<1>6. Metadata(l, VideoId) = Container(VideoId, RootId, Len(l.video))
    BY DEF Metadata
<1>7. Metadata(l, AudioId) = Container(AudioId, RootId, Len(l.audio))
    BY DEF Metadata
<1>8. Metadata(l, FolderId) = Container(FolderId, RootId, Len(ActiveRoots(l)))
    BY DEF Metadata
<1> QED
    BY <1>1, <1>2, <1>3, <1>4, <1>5, <1>6, <1>7, <1>8

\* An entry of the container id that tells the same as the object itself.
Agrees(l, e, id) ==
    /\ Exists(l, e.id)
    /\ Metadata(l, e.id) = e
    /\ e.parent = id
    /\ e.id.kind \notin ItemKind => Len(Children(l, e.id)) = e.children

LEMMA FolderAgrees ==
    ASSUME NEW l, IndexOK(l), NEW n \in DOMAIN l.nodes
    PROVE  Agrees(l, FolderContainer(l, n, FolderParent(l, n)), FolderParent(l, n))
<1> DEFINE id == Obj("f", n)
           e == FolderContainer(l, n, FolderParent(l, n))
<1>1. e.id = id /\ e.parent = FolderParent(l, n)
    BY DEF FolderContainer, Container
<1>2. id.kind = "f" /\ id.n = n /\ id \notin {RootId, VideoId, AudioId, FolderId}
    BY DEF Obj, RootId, VideoId, AudioId, FolderId
<1>3. Exists(l, id)
    BY <1>2 DEF Exists
<1> HIDE DEF id
<1>4. Metadata(l, id) = e
    BY <1>2 DEF Metadata
<1>5. Metadata(l, id).children = Len(Children(l, id))
    BY IndexHasSequences, ChildCountIsRight DEF id
<1> HIDE DEF e
<1> QED
    BY <1>1, <1>3, <1>4, <1>5 DEF Agrees, e

LEMMA ItemAgrees ==
    ASSUME NEW l, NEW i \in DOMAIN l.files, NEW parent,
           parent \notin {VideoId, AudioId} => parent = FolderOfMedia(l, i)
    PROVE  Agrees(l, Item(l, i, ItemId(parent, i), parent), parent)
<1> DEFINE id == ItemId(parent, i)
           e == Item(l, i, id, parent)
<1>1. e.id = id /\ e.parent = parent
    BY DEF Item
<1>2. /\ id.n = i /\ id.kind \in ItemKind
      /\ id \notin {RootId, VideoId, AudioId, FolderId}
      /\ parent = VideoId => id.kind = "v"
      /\ parent = AudioId => id.kind = "a"
      /\ parent \notin {VideoId, AudioId} => id.kind = "m"
    BY DEF ItemId, Obj, RootId, VideoId, AudioId, FolderId, ItemKind
<1> HIDE DEF id
<1>3. Exists(l, id)
    BY <1>2 DEF Exists
<1>4. Metadata(l, id) = e
    <2>1. CASE parent = VideoId
        BY <1>2, <2>1 DEF Metadata
    <2>2. CASE parent = AudioId
        BY <1>2, <2>2 DEF Metadata
    <2>3. CASE parent \notin {VideoId, AudioId}
        BY <1>2, <2>3 DEF Metadata
    <2> QED
        BY <2>1, <2>2, <2>3
<1> HIDE DEF e
<1> QED
    BY <1>1, <1>2, <1>3, <1>4 DEF Agrees, e, id

(* The one folder that lists a folder, or a file, is its parent.           *)
LEMMA ParentsAre ==
    ASSUME NEW l, IndexOK(l)
    PROVE  /\ \A n \in DOMAIN l.roots : FolderParent(l, n) = FolderId
           /\ \A n \in DOMAIN l.nodes : \A c \in Nat :
                 Contains(l.nodes[n].subs, c) =>
                     c \in DOMAIN l.nodes /\ FolderParent(l, c) = Obj("f", n)
           /\ \A n \in DOMAIN l.nodes : \A i \in Nat :
                 Contains(l.nodes[n].media, i) =>
                     i \in DOMAIN l.files /\ FolderOfMedia(l, i) = Obj("f", n)
<1>1. /\ DOMAIN l.roots = 1 .. Len(l.roots) /\ Len(l.roots) \in Nat
      /\ DOMAIN l.files = 1 .. Len(l.files) /\ Len(l.files) \in Nat
      /\ DOMAIN l.nodes = 1 .. Len(l.nodes) /\ Len(l.nodes) \in Nat
    BY IndexHasSequences
<1>2. \A n \in DOMAIN l.roots : FolderParent(l, n) = FolderId
    BY <1>1 DEF FolderParent
<1>3. ASSUME NEW n \in DOMAIN l.nodes, NEW c \in Nat, Contains(l.nodes[n].subs, c)
      PROVE  c \in DOMAIN l.nodes /\ FolderParent(l, c) = Obj("f", n)
    <2> DEFINE above == {p \in DOMAIN l.nodes : Contains(l.nodes[p].subs, c)}
    <2>1. c \in Len(l.roots) + 1 .. Len(l.nodes)
        BY <1>3 DEF IndexOK, Tree
    <2>2. PICK m \in 1 .. c - 1 : Hangs(l.nodes, c, m)
        BY <2>1 DEF IndexOK, Tree
    <2>3. \A k \in DOMAIN l.nodes : Contains(l.nodes[k].subs, c) <=> k = m
        BY <2>2 DEF Hangs
    <2>4. n = m
        BY <1>3, <2>3
    <2>5. above = {n}
        BY <2>3, <2>4
    <2>6. n \in Nat /\ ~(c <= Len(l.roots)) /\ c \in DOMAIN l.nodes
        BY <1>1, <2>1
    <2>7. (CHOOSE p \in {n} : \A q \in {n} : p <= q) = n
        BY <2>6
    <2> QED
        BY <2>5, <2>6, <2>7 DEF FolderParent
<1>4. ASSUME NEW n \in DOMAIN l.nodes, NEW i \in Nat, Contains(l.nodes[n].media, i)
      PROVE  i \in DOMAIN l.files /\ FolderOfMedia(l, i) = Obj("f", n)
    <2> DEFINE holding == {p \in DOMAIN l.nodes : Contains(l.nodes[p].media, i)}
    <2>1. i \in 1 .. Len(l.files)
        BY <1>4 DEF IndexOK, Placed
    <2>2. PICK m \in DOMAIN l.nodes : Holds(l.nodes, i, m)
        BY <2>1 DEF IndexOK, Placed
    <2>3. \A k \in DOMAIN l.nodes : Contains(l.nodes[k].media, i) <=> k = m
        BY <2>2 DEF Holds
    <2>4. n = m
        BY <1>4, <2>3
    <2>5. holding = {n}
        BY <2>3, <2>4
    <2>6. n \in Nat
        BY <1>1
    <2>7. (CHOOSE p \in {n} : \A q \in {n} : p <= q) = n
        BY <2>6
    <2> QED
        BY <1>1, <2>1, <2>5, <2>7 DEF FolderOfMedia
<1> QED
    BY <1>2, <1>3, <1>4

(* The sources listed are sources.                                         *)
LEMMA ActiveRootsAre ==
    ASSUME NEW l, IndexOK(l), NEW k \in DOMAIN ActiveRoots(l)
    PROVE  ActiveRoots(l)[k] \in DOMAIN l.roots
<1> DEFINE active == {n \in DOMAIN l.roots : FolderChildCount(l.nodes[n]) > 0}
           R == {p \in active \X active : p[1] < p[2]}
<1>1. IsFiniteSet(active) /\ active \in SUBSET Nat
    <2>1. IndexOfSequences(l) /\ DOMAIN l.roots = 1 .. Len(l.roots)
        BY IndexHasSequences
    <2>2. IsFiniteSet(DOMAIN l.roots) /\ DOMAIN l.roots \in SUBSET Nat
        BY <2>1 DEF IndexOfSequences
    <2>3. active \in SUBSET DOMAIN l.roots
        OBVIOUS
    <2> HIDE DEF active
    <2> QED
        BY <2>2, <2>3, FS_Subset
<1>2. StrictTotal(R, active)
    <2> HIDE DEF active
    <2> QED
        BY <1>1 DEF StrictTotal
<1>3. ActiveRoots(l) = Ranked(active, R)
    BY DEF ActiveRoots, Sorted, OrderOf
<1> HIDE DEF active, R
<1>4. Ranked(active, R) \in [1 .. Cardinality(active) -> active]
    BY <1>1, <1>2, RankedIs
<1>5. ActiveRoots(l)[k] \in active
    BY <1>3, <1>4
<1> QED
    BY <1>5 DEF active

LEMMA ChildrenAgree ==
    ASSUME NEW l, IndexOK(l),
           NEW id, \/ id \in {RootId, VideoId, AudioId, FolderId}
                   \/ \E n \in DOMAIN l.nodes : id = Obj("f", n),
           NEW k \in DOMAIN Children(l, id)
    PROVE  Agrees(l, Children(l, id)[k], id)
<1> DEFINE e == Children(l, id)[k]
<1>1. CASE id = RootId
    <2> DEFINE S == {Metadata(l, i) : i \in {VideoId, AudioId, FolderId}}
               part(i, n) == IF n = 0 THEN <<>> ELSE <<Container(i, RootId, n)>>
    <2>1. /\ Metadata(l, VideoId) = Container(VideoId, RootId, Len(l.video))
          /\ Metadata(l, AudioId) = Container(AudioId, RootId, Len(l.audio))
          /\ Metadata(l, FolderId) = Container(FolderId, RootId, Len(ActiveRoots(l)))
        BY ObjectsAre
    <2>2. ASSUME NEW i, NEW n, Container(i, RootId, n) \in S PROVE part(i, n) \in Seq(S)
        <3> HIDE DEF S
        <3> QED
            BY <2>2
    <2>3. /\ part(VideoId, Len(l.video)) \in Seq(S)
          /\ part(AudioId, Len(l.audio)) \in Seq(S)
          /\ part(FolderId, Len(ActiveRoots(l))) \in Seq(S)
        <3>1. /\ Container(VideoId, RootId, Len(l.video)) \in S
              /\ Container(AudioId, RootId, Len(l.audio)) \in S
              /\ Container(FolderId, RootId, Len(ActiveRoots(l))) \in S
            BY <2>1
        <3> HIDE DEF S, part
        <3> QED
            BY <2>2, <3>1
    <2>4. Children(l, id) = part(VideoId, Len(l.video)) \o part(AudioId, Len(l.audio))
                            \o part(FolderId, Len(ActiveRoots(l)))
        <3>1. Children(l, id) = RootChildren(l)
            BY <1>1, ObjectsAre
        <3> QED
            BY <3>1 DEF RootChildren
    <2> HIDE DEF S, part
    <2>5. Children(l, id) \in Seq(S)
        BY <2>3, <2>4
    <2>6. e \in S
        BY <2>5
    <2>7. PICK i \in {VideoId, AudioId, FolderId} : e = Metadata(l, i)
        BY <2>6 DEF S
    <2>8. e.id = i /\ e.parent = id
        BY <1>1, <2>1, <2>7 DEF Container
    <2>9. Exists(l, i)
        BY DEF Exists
    <2>10. Metadata(l, i).children = Len(Children(l, i))
        BY IndexHasSequences, ChildCountIsRight
    <2> HIDE DEF e
    <2> QED
        BY <2>7, <2>8, <2>9, <2>10 DEF Agrees, e
<1>2. ASSUME NEW list, NEW parent, NEW j \in DOMAIN list, list[j] \in DOMAIN l.files,
             parent \notin {VideoId, AudioId} => parent = FolderOfMedia(l, list[j])
      PROVE  Agrees(l, ItemsOf(l, list, parent)[j], parent)
    BY <1>2, ItemAgrees DEF ItemsOf
<1>3. CASE id = VideoId
    <2>1. Children(l, id) = ItemsOf(l, l.video, VideoId)
        BY <1>3, ObjectsAre
    <2>2. k \in DOMAIN l.video
        BY <2>1 DEF ItemsOf
    <2>3. l.video[k] \in DOMAIN l.files
        BY <2>2 DEF IndexOK, OneEach
    <2> QED
        BY <1>2, <1>3, <2>1, <2>2, <2>3
<1>4. CASE id = AudioId
    <2>1. Children(l, id) = ItemsOf(l, l.audio, AudioId)
        BY <1>4, ObjectsAre
    <2>2. k \in DOMAIN l.audio
        BY <2>1 DEF ItemsOf
    <2>3. l.audio[k] \in DOMAIN l.files
        BY <2>2 DEF IndexOK, OneEach
    <2> QED
        BY <1>2, <1>4, <2>1, <2>2, <2>3
<1>5. CASE id = FolderId
    <2> DEFINE roots == ActiveRoots(l)
    <2>1. Children(l, id) = [j \in DOMAIN roots |-> FolderContainer(l, roots[j], FolderId)]
        BY <1>5, ObjectsAre DEF FolderRootChildren
    <2>2. k \in DOMAIN roots /\ e = FolderContainer(l, roots[k], FolderId)
        BY <2>1
    <2>3. roots[k] \in DOMAIN l.roots
        BY <2>2, ActiveRootsAre
    <2>4. roots[k] \in DOMAIN l.nodes /\ FolderParent(l, roots[k]) = FolderId
        BY <2>3, IndexHasSequences, ParentsAre
    <2> HIDE DEF roots, e
    <2>5. Agrees(l, e, FolderId)
        BY <2>2, <2>4, FolderAgrees
    <2> QED
        BY <1>5, <2>5 DEF e
<1>6. ASSUME NEW n \in DOMAIN l.nodes, id = Obj("f", n)
      PROVE  Agrees(l, Children(l, id)[k], id)
    <2> DEFINE node == l.nodes[n]
               folders == FoldersOf(l, node.subs, id)
               items == ItemsOf(l, node.media, id)
               F == {FolderContainer(l, i, id) : i \in Nat}
               I == {Item(l, i, ItemId(id, i), id) : i \in Nat}
    <2>1. node.subs \in Seq(Nat) /\ node.media \in Seq(Nat)
        BY IndexHasSequences DEF IndexOfSequences
    <2>2. items \in Seq(I) /\ Len(items) = Len(node.media)
        BY <2>1, ItemsAreASequence
    <2>3. folders \in Seq(F) /\ Len(folders) = Len(node.subs)
        BY <2>1, FoldersAreASequence
    <2>4. Children(l, id) = folders \o items
        <3>1. Children(l, id) = FolderChildren(l, n)
            BY <1>6, ObjectsAre
        <3> QED
            BY <1>6, <3>1 DEF FolderChildren, FoldersOf
    <2>5. ASSUME NEW j \in DOMAIN folders PROVE Agrees(l, folders[j], id)
        <3>1. j \in DOMAIN node.subs /\ folders[j] = FolderContainer(l, node.subs[j], id)
            BY DEF FoldersOf
        <3>2. Contains(node.subs, node.subs[j]) /\ node.subs[j] \in Nat
            BY <2>1, <3>1, ContainsIs, 0 \in Nat
        <3>3. node.subs[j] \in DOMAIN l.nodes /\ FolderParent(l, node.subs[j]) = id
            BY <1>6, <3>2, ParentsAre
        <3> HIDE DEF node, folders
        <3> QED
            BY <3>1, <3>3, FolderAgrees
    <2>6. ASSUME NEW j \in DOMAIN items PROVE Agrees(l, items[j], id)
        <3>1. j \in DOMAIN node.media
            BY DEF ItemsOf
        <3>2. Contains(node.media, node.media[j]) /\ node.media[j] \in Nat
            BY <2>1, <3>1, ContainsIs, 0 \in Nat
        <3>3. node.media[j] \in DOMAIN l.files /\ FolderOfMedia(l, node.media[j]) = id
            BY <1>6, <3>2, ParentsAre
        <3> QED
            BY <1>2, <3>1, <3>3
    <2> HIDE DEF node, folders, items, F, I
    <2>7. DOMAIN folders = 1 .. Len(folders) /\ DOMAIN items = 1 .. Len(items)
          /\ Len(folders) \in Nat /\ Len(items) \in Nat
        BY <2>2, <2>3
    <2>11. /\ DOMAIN (folders \o items) = 1 .. Len(folders) + Len(items)
           /\ \A j \in 1 .. Len(folders) : (folders \o items)[j] = folders[j]
           /\ \A j \in Len(folders) + 1 .. Len(folders) + Len(items) :
                 (folders \o items)[j] = items[j - Len(folders)]
        <3>1. folders \in Seq(F \cup I) /\ items \in Seq(F \cup I)
            BY <2>2, <2>3
        <3> QED
            BY <3>1
    <2>8. k \in 1 .. Len(folders) + Len(items)
        BY <2>4, <2>11
    <2>9. CASE k <= Len(folders)
        <3>1. k \in DOMAIN folders /\ e = folders[k]
            BY <2>4, <2>7, <2>8, <2>9, <2>11
        <3> QED
            BY <2>5, <3>1
    <2>10. CASE k > Len(folders)
        <3>1. k - Len(folders) \in DOMAIN items /\ e = items[k - Len(folders)]
            BY <2>4, <2>7, <2>8, <2>10, <2>11
        <3> QED
            BY <2>6, <3>1
    <2> QED
        BY <2>7, <2>8, <2>9, <2>10
<1> QED
    BY <1>1, <1>3, <1>4, <1>5, <1>6

-----------------------------------------------------------------------------
(* Searching.                                                              *)

(* What lies below s lies below the directory it is in, or is s.           *)
LEMMA BelowParent ==
    ASSUME NEW s \in Seq(Name), NEW t \in Seq(Name), t # <<>>
    PROVE  /\ IsPrefix(s, t) <=> (s = t \/ IsPrefix(s, Front(t)))
           /\ Front(t) \in Seq(Name)
<1>1. /\ Front(t) \in Seq(Name) /\ Len(Front(t)) = Len(t) - 1
      /\ \A k \in 1 .. Len(t) - 1 : Front(t)[k] = t[k]
    BY NameOfPath
<1>2. Len(s) \in Nat /\ Len(t) \in Nat \ {0}
    OBVIOUS
<1>3. /\ IsPrefix(s, t) <=> Len(s) <= Len(t) /\ \A i \in 1 .. Len(s) : s[i] = t[i]
      /\ IsPrefix(s, Front(t)) <=> Len(s) <= Len(Front(t)) /\ \A i \in 1 .. Len(s) : s[i] = Front(t)[i]
    BY <1>1, PrefixIs
<1>4. CASE Len(s) = Len(t)
    <2>1. IsPrefix(s, t) <=> s = t
        BY <1>2, <1>3, <1>4, SeqEqual
    <2>2. ~IsPrefix(s, Front(t))
        BY <1>1, <1>2, <1>3, <1>4
    <2> QED
        BY <1>1, <2>1, <2>2
<1>5. CASE Len(s) # Len(t)
    <2>1. s # t
        BY <1>5
    <2>2. IsPrefix(s, t) <=> IsPrefix(s, Front(t))
        BY <1>1, <1>2, <1>3, <1>5
    <2> QED
        BY <1>1, <2>1, <2>2
<1> QED
    BY <1>4, <1>5

LEMMA ContainsIsMember ==
    ASSUME NEW S, NEW s \in Seq(S), NEW e
    PROVE  Contains(s, e) <=> e \in ToSet(s)
<1>1. DOMAIN s = 1 .. Len(s)
    OBVIOUS
<1> QED
    BY <1>1 DEF Contains, ToSet

(* Every folder is a source or lies below one.                             *)
LEMMA NodesAreBelowRoots ==
    ASSUME NEW l, IndexOK(l), NEW n \in DOMAIN l.nodes
    PROVE  \E r \in DOMAIN l.roots : IsPrefix(l.roots[r], l.nodes[n].path)
<1> DEFINE N == Len(l.nodes)
           below(m) == \E r \in DOMAIN l.roots : IsPrefix(l.roots[r], l.nodes[m].path)
           T == {k \in 0 .. N : \A m \in 1 .. k : below(m)}
<1>1. /\ DOMAIN l.roots = 1 .. Len(l.roots) /\ Len(l.roots) \in Nat
      /\ DOMAIN l.nodes = 1 .. N /\ N \in Nat
    BY IndexHasSequences
<1>2. /\ \A r \in DOMAIN l.roots : l.roots[r] \in FilePath
      /\ \A m \in DOMAIN l.nodes : l.nodes[m].path \in FilePath
    <2>1. l.nodes \in Seq(FolderNode) /\ l.roots \in Seq(FilePath)
        BY DEF IndexOK, Apart, Tree
    <2>2. \A m \in DOMAIN l.nodes : l.nodes[m] \in FolderNode
        BY <2>1
    <2>3. \A node \in FolderNode : node.path \in FilePath
        BY DEF FolderNode
    <2> QED
        BY <2>1, <2>2, <2>3
<1> HIDE DEF N
<1>3. 0 \in T
    BY <1>1
<1>4. ASSUME NEW k \in 0 .. N - 1, k \in T PROVE k + 1 \in T
    <2>1. k + 1 \in 0 .. N /\ k + 1 \in DOMAIN l.nodes
        BY <1>1
    <2>2. CASE k + 1 \in DOMAIN l.roots
        <3>1. l.nodes[k + 1].path = l.roots[k + 1]
            BY <2>2 DEF IndexOK, Tree
        <3>2. l.roots[k + 1] \in Seq(Name)
            BY <1>2, <2>2 DEF FilePath
        <3>3. IsPrefix(l.roots[k + 1], l.roots[k + 1])
            BY <3>2, PrefixIs
        <3>4. below(k + 1)
            BY <2>2, <3>1, <3>3
        <3> QED
            BY <1>1, <1>4, <2>1, <3>4
    <2>3. CASE k + 1 \notin DOMAIN l.roots
        <3>1. k + 1 \in Len(l.roots) + 1 .. Len(l.nodes)
            BY <1>1, <2>1, <2>3 DEF N
        <3>2. PICK m \in 1 .. k + 1 - 1 : Hangs(l.nodes, k + 1, m)
            BY <3>1 DEF IndexOK, Tree
        <3>3. m \in 1 .. k
            BY <1>1
        <3>4. PICK r \in DOMAIN l.roots : IsPrefix(l.roots[r], l.nodes[m].path)
            BY <1>4, <3>3
        <3>5. l.nodes[m].path = Front(l.nodes[k + 1].path)
            BY <3>2 DEF Hangs
        <3>6. l.nodes[k + 1].path \in Seq(Name) /\ l.nodes[k + 1].path # <<>>
              /\ l.roots[r] \in Seq(Name)
            BY <1>2, <2>1 DEF FilePath
        <3>7. IsPrefix(l.roots[r], l.nodes[k + 1].path)
            BY <3>4, <3>5, <3>6, BelowParent
        <3>8. below(k + 1)
            BY <3>7
        <3> HIDE DEF below
        <3> QED
            BY <1>1, <1>4, <2>1, <3>8
    <2> QED
        BY <2>2, <2>3
<1>5. N \in T
    <2> HIDE DEF T
    <2>1. \A k \in 0 .. N : k \in T
        BY <1>1, <1>3, <1>4, UpTo
    <2> QED
        BY <1>1, <2>1
<1> QED
    BY <1>1, <1>5

(* The recursion of SubtreeOf.                                             *)
Spreads(seen, l, n) ==
    /\ seen[0] = {n}
    /\ \A k \in 0 .. Len(l.nodes) - 1 : seen[k + 1] = WithSubfolders(l, seen[k])

LEMMA SubtreeUnfolds ==
    ASSUME NEW l, IndexOK(l), NEW n \in DOMAIN l.nodes
    PROVE  \E seen : SubtreeOf(l, n) = seen[Len(l.nodes)] /\ Spreads(seen, l, n)
<1> DEFINE N == Len(l.nodes)
           D == DOMAIN l.nodes
           A == SUBSET D
           base == {n}
           G == [p \in A \X (1 .. N) |-> WithSubfolders(l, p[1])]
           body(f) == [k \in 0 .. N |->
                          IF k = 0 THEN base ELSE WithSubfolders(l, f[k - 1])]
           seen == CHOOSE f : f = body(f)
<1>1. N \in Nat
    BY IndexHasSequences
<1>2. base \in A
    OBVIOUS
<1>3. \A s \in A : WithSubfolders(l, s) \in A
    <2>1. ASSUME NEW p \in D PROVE ToSet(l.nodes[p].subs) \in SUBSET D
        <3>1. l.nodes[p].subs \in Seq(Nat)
            BY IndexHasSequences DEF IndexOfSequences
        <3>2. \A i \in DOMAIN l.nodes[p].subs :
                  Contains(l.nodes[p].subs, l.nodes[p].subs[i]) /\ l.nodes[p].subs[i] \in Nat
            BY <3>1, ContainsIs, 0 \in Nat
        <3>3. \A c \in Nat : Contains(l.nodes[p].subs, c) => c \in D
            BY ParentsAre
        <3> QED
            BY <3>2, <3>3 DEF ToSet
    <2> HIDE DEF D
    <2> QED
        BY <2>1 DEF WithSubfolders
<1> HIDE DEF A, base, N
<1>4. G \in Steps(A, N) /\ \A a \in A, k \in 1 .. N : G[<<a, k>>] = WithSubfolders(l, a)
    BY <1>3 DEF Steps
<1> HIDE DEF G
<1>5. PICK g \in [0 .. N -> A] : Goes(g, base, G, N)
    BY <1>1, <1>2, <1>4, RecursionExists
<1>6. g = body(g)
    <2>1. \A k \in 1 .. N : k - 1 \in 0 .. N
        BY <1>1
    <2>2. \A k \in 1 .. N : g[k] = WithSubfolders(l, g[k - 1])
        BY <1>4, <1>5, <2>1 DEF Goes
    <2>3. g[0] = base /\ \A k \in 0 .. N : k # 0 => k \in 1 .. N
        BY <1>1, <1>5 DEF Goes
    <2> QED
        BY <2>2, <2>3
<1>7. seen = body(seen)
    <2> HIDE DEF body
    <2> QED
        BY <1>6
<1>11. SubtreeOf(l, n) = seen[N]
    BY DEF SubtreeOf, N, base
<1> HIDE DEF seen
<1>8. seen[0] = base
    BY <1>1, <1>7
<1>9. ASSUME NEW k \in 0 .. N - 1 PROVE seen[k + 1] = WithSubfolders(l, seen[k])
    <2>1. k + 1 \in 0 .. N /\ k + 1 # 0 /\ k + 1 - 1 = k
        BY <1>1
    <2>2. seen[k + 1] = body(seen)[k + 1]
        BY <1>7
    <2> QED
        BY <2>1, <2>2
<1> QED
    BY <1>8, <1>9, <1>11 DEF Spreads, N, base

(* The folders reached from one are those below it: the walk of            *)
(* folder_subtree_media misses none and leaves the folder nowhere.         *)
LEMMA SubtreeIs ==
    ASSUME NEW l, IndexOK(l), NEW n \in DOMAIN l.nodes
    PROVE  SubtreeOf(l, n) =
              {p \in DOMAIN l.nodes : IsPrefix(l.nodes[n].path, l.nodes[p].path)}
<1> DEFINE N == Len(l.nodes)
           top == l.nodes[n].path
           S == {p \in DOMAIN l.nodes : IsPrefix(top, l.nodes[p].path)}
<1>1. /\ DOMAIN l.roots = 1 .. Len(l.roots) /\ Len(l.roots) \in Nat
      /\ DOMAIN l.nodes = 1 .. N /\ N \in Nat
    BY IndexHasSequences
<1>2. /\ \A m \in DOMAIN l.nodes : l.nodes[m].path \in Seq(Name) /\ l.nodes[m].path # <<>>
      /\ \A r \in DOMAIN l.roots : l.roots[r] \in Seq(Name)
    <2>1. l.nodes \in Seq(FolderNode) /\ l.roots \in Seq(FilePath)
        BY DEF IndexOK, Apart, Tree
    <2>2. \A m \in DOMAIN l.nodes : l.nodes[m] \in FolderNode
        BY <2>1
    <2>3. \A node \in FolderNode : node.path \in FilePath
        BY DEF FolderNode
    <2> QED
        BY <2>1, <2>2, <2>3 DEF FilePath
<1>10. PICK seen : SubtreeOf(l, n) = seen[Len(l.nodes)] /\ Spreads(seen, l, n)
    BY SubtreeUnfolds
<1>3. /\ SubtreeOf(l, n) = seen[N]
      /\ seen[0] = {n}
      /\ \A k \in 0 .. N - 1 : seen[k + 1] = WithSubfolders(l, seen[k])
    BY <1>10 DEF Spreads
<1>4. ASSUME NEW p \in DOMAIN l.nodes, NEW c \in ToSet(l.nodes[p].subs)
      PROVE  /\ c \in DOMAIN l.nodes
             /\ l.nodes[p].path = Front(l.nodes[c].path)
    <2>1. l.nodes[p].subs \in Seq(Nat)
        BY IndexHasSequences DEF IndexOfSequences
    <2>2. PICK i \in DOMAIN l.nodes[p].subs : c = l.nodes[p].subs[i]
        BY DEF ToSet
    <2>3. Contains(l.nodes[p].subs, c) /\ c \in Nat
        BY <2>1, <2>2, ContainsIs, 0 \in Nat
    <2>4. c \in Len(l.roots) + 1 .. Len(l.nodes)
        BY <2>3 DEF IndexOK, Tree
    <2>5. PICK m \in 1 .. c - 1 : Hangs(l.nodes, c, m)
        BY <2>4 DEF IndexOK, Tree
    <2>6. p = m
        BY <2>3, <2>5 DEF Hangs
    <2>7. c \in DOMAIN l.nodes
        BY <1>1, <2>4
    <2> QED
        BY <2>5, <2>6, <2>7 DEF Hangs
<1>5. S \in SUBSET DOMAIN l.nodes /\ n \in S
    BY <1>2, PrefixIs
<1> DEFINE T == {k \in 0 .. N : /\ seen[k] \in SUBSET S /\ n \in seen[k]
                                /\ \A p \in S : p <= k => p \in seen[k]}
<1> HIDE DEF N
<1>6. 0 \in T
    <2>1. \A p \in S : ~(p <= 0)
        BY <1>1, <1>5
    <2> HIDE DEF S
    <2> QED
        BY <1>1, <1>3, <1>5, <2>1
<1>7. ASSUME NEW k \in 0 .. N - 1, k \in T PROVE k + 1 \in T
    <2>1. k + 1 \in 0 .. N
        BY <1>1
    <2>2. seen[k + 1] = seen[k] \cup UNION {ToSet(l.nodes[p].subs) : p \in seen[k]}
        BY <1>3 DEF WithSubfolders
    <2>3. seen[k] \in SUBSET S /\ n \in seen[k] /\ \A p \in S : p <= k => p \in seen[k]
        BY <1>7
    <2>4. ASSUME NEW p \in seen[k], NEW c \in ToSet(l.nodes[p].subs) PROVE c \in S
        <3>1. p \in DOMAIN l.nodes /\ IsPrefix(top, l.nodes[p].path)
            BY <2>3
        <3>2. c \in DOMAIN l.nodes /\ l.nodes[p].path = Front(l.nodes[c].path)
            BY <1>4, <3>1
        <3>3. IsPrefix(top, l.nodes[c].path)
            BY <1>2, <3>1, <3>2, BelowParent
        <3> QED
            BY <3>2, <3>3
    <2>5. ASSUME NEW p \in S, p = k + 1, p # n PROVE p \in seen[k + 1]
        <3>1. l.nodes[p].path # top
            BY <2>5 DEF IndexOK, Tree
        <3>2. IsPrefix(top, Front(l.nodes[p].path))
            BY <1>2, <3>1, BelowParent
        <3>3. p \notin DOMAIN l.roots
            <4> SUFFICES ASSUME p \in DOMAIN l.roots PROVE FALSE
                OBVIOUS
            <4>1. l.nodes[p].path = l.roots[p]
                BY DEF IndexOK, Tree
            <4>2. PICK r \in DOMAIN l.roots : IsPrefix(l.roots[r], top)
                BY NodesAreBelowRoots
            <4>3. IsPrefix(top, l.roots[p])
                BY <4>1
            <4>4. IsPrefix(l.roots[r], l.roots[p])
                BY <1>2, <4>2, <4>3, PrefixesMeet
            <4>5. r = p
                BY <4>4 DEF IndexOK, Apart
            <4>6. top = l.roots[p]
                BY <1>2, <4>2, <4>3, <4>5, PrefixesMeet
            <4> QED
                BY <3>1, <4>1, <4>6
        <3>4. p \in Len(l.roots) + 1 .. Len(l.nodes)
            BY <1>1, <3>3 DEF N
        <3>5. PICK m \in 1 .. p - 1 : Hangs(l.nodes, p, m)
            BY <3>4 DEF IndexOK, Tree
        <3>6. m \in DOMAIN l.nodes /\ m <= k
            BY <1>1, <2>1, <2>5
        <3>7. l.nodes[m].path = Front(l.nodes[p].path) /\ Contains(l.nodes[m].subs, p)
            BY <3>5, <3>6 DEF Hangs
        <3>8. m \in seen[k]
            BY <2>3, <3>2, <3>6, <3>7
        <3>9. p \in ToSet(l.nodes[m].subs)
            <4>1. l.nodes[m].subs \in Seq(Nat)
                BY <3>6, IndexHasSequences DEF IndexOfSequences
            <4> QED
                BY <3>7, <4>1, ContainsIsMember
        <3> HIDE DEF S
        <3> QED
            BY <2>2, <3>8, <3>9
    <2> HIDE DEF S
    <2>6. \A p \in S : p <= k + 1 => p <= k \/ p = k + 1
        BY <1>1, <1>5
    <2>7. \A p \in S : p <= k + 1 => p \in seen[k + 1]
        BY <2>2, <2>3, <2>5, <2>6
    <2>8. seen[k + 1] \in SUBSET S /\ n \in seen[k + 1]
        BY <2>2, <2>3, <2>4
    <2> QED
        BY <2>1, <2>7, <2>8
<1>8. N \in T
    <2> HIDE DEF T
    <2>1. \A k \in 0 .. N : k \in T
        BY <1>1, <1>6, <1>7, UpTo
    <2> QED
        BY <1>1, <2>1
<1>9. \A p \in S : p <= N
    BY <1>1, <1>5
<1> HIDE DEF S
<1>11. seen[N] = S
    BY <1>8, <1>9
<1> QED
    BY <1>3, <1>11 DEF S

(* What the folders below one hold are the files below it.                 *)
LEMMA MediaBelow ==
    ASSUME NEW l, IndexOK(l), NEW n \in DOMAIN l.nodes
    PROVE  UNION {ToSet(l.nodes[p].media) : p \in SubtreeOf(l, n)} =
              {i \in DOMAIN l.files : IsPrefix(l.nodes[n].path, l.files[i])}
<1> DEFINE top == l.nodes[n].path
           M == UNION {ToSet(l.nodes[p].media) : p \in SubtreeOf(l, n)}
           F == {i \in DOMAIN l.files : IsPrefix(top, l.files[i])}
<1>1. /\ DOMAIN l.files = 1 .. Len(l.files) /\ Len(l.files) \in Nat
      /\ \A m \in DOMAIN l.nodes : l.nodes[m].media \in Seq(Nat)
    BY IndexHasSequences DEF IndexOfSequences
<1>2. /\ \A i \in DOMAIN l.files : l.files[i] \in Seq(Name) /\ l.files[i] # <<>>
      /\ top \in Seq(Name)
    <2>1. l.nodes \in Seq(FolderNode) /\ l.files \in Seq(FilePath)
        BY DEF IndexOK, Indexed, Tree
    <2>2. l.nodes[n] \in FolderNode
        BY <2>1
    <2>3. \A node \in FolderNode : node.path \in FilePath
        BY DEF FolderNode
    <2>4. \A i \in DOMAIN l.files : l.files[i] \in FilePath
        BY <2>1
    <2> QED
        BY <2>2, <2>3, <2>4 DEF FilePath
<1>3. ASSUME NEW i \in DOMAIN l.files
      PROVE  \E m \in DOMAIN l.nodes :
                /\ l.nodes[m].path = Front(l.files[i])
                /\ \A p \in DOMAIN l.nodes : i \in ToSet(l.nodes[p].media) <=> p = m
    <2>1. PICK m \in DOMAIN l.nodes :
              l.nodes[m].path = Front(l.files[i]) /\ Holds(l.nodes, i, m)
        BY <1>1 DEF IndexOK, Placed
    <2>2. \A p \in DOMAIN l.nodes : Contains(l.nodes[p].media, i) <=> p = m
        BY <2>1 DEF Holds
    <2>3. \A p \in DOMAIN l.nodes : Contains(l.nodes[p].media, i) <=> i \in ToSet(l.nodes[p].media)
        BY <1>1, ContainsIsMember
    <2> QED
        BY <2>1, <2>2, <2>3
<1>4. \A p : p \in SubtreeOf(l, n) <=> p \in DOMAIN l.nodes /\ IsPrefix(top, l.nodes[p].path)
    BY SubtreeIs
<1> HIDE DEF top
<1>5. ASSUME NEW i \in M PROVE i \in F
    <2>1. PICK p \in SubtreeOf(l, n) : i \in ToSet(l.nodes[p].media)
        OBVIOUS
    <2>2. p \in DOMAIN l.nodes /\ IsPrefix(top, l.nodes[p].path)
        BY <1>4
    <2>3. i \in DOMAIN l.files
        <3>1. \E j \in DOMAIN l.nodes[p].media : i = l.nodes[p].media[j]
            BY <2>1 DEF ToSet
        <3>2. i \in Nat
            BY <1>1, <2>2, <3>1
        <3>3. Contains(l.nodes[p].media, i)
            BY <1>1, <2>1, <2>2, ContainsIsMember
        <3> QED
            BY <2>2, <3>2, <3>3, ParentsAre
    <2>4. l.nodes[p].path = Front(l.files[i])
        BY <1>3, <2>1, <2>2, <2>3
    <2>5. IsPrefix(top, l.files[i])
        BY <1>2, <2>2, <2>3, <2>4, BelowParent
    <2> QED
        BY <2>3, <2>5
<1>6. ASSUME NEW i \in F PROVE i \in M
    <2>1. i \in DOMAIN l.files /\ IsPrefix(top, l.files[i])
        OBVIOUS
    <2>2. top # l.files[i]
        BY <2>1 DEF IndexOK, Tree, top
    <2>3. IsPrefix(top, Front(l.files[i]))
        BY <1>2, <2>1, <2>2, BelowParent
    <2>4. PICK m \in DOMAIN l.nodes :
              /\ l.nodes[m].path = Front(l.files[i])
              /\ \A p \in DOMAIN l.nodes : i \in ToSet(l.nodes[p].media) <=> p = m
        BY <1>3, <2>1
    <2>5. m \in SubtreeOf(l, n) /\ i \in ToSet(l.nodes[m].media)
        BY <1>4, <2>3, <2>4
    <2> QED
        BY <2>5
<1> HIDE DEF M, F
<1>7. M = F
    BY <1>5, <1>6
<1> QED
    BY <1>7 DEF M, F, top

LEMMA SortedNumbers ==
    ASSUME NEW K \in SUBSET Nat, IsFiniteSet(K)
    PROVE  OneEach(Sorted(K, <), K) /\ ToSet(Sorted(K, <)) = K
<1> DEFINE R == {p \in K \X K : p[1] < p[2]}
           s == Ranked(K, R)
<1>1. Sorted(K, <) = s
    BY DEF Sorted, OrderOf
<1>2. StrictTotal(R, K)
    BY DEF StrictTotal
<1> HIDE DEF R, s
<1>3. /\ s \in Seq(K)
      /\ \A j, k \in DOMAIN s : s[j] = s[k] => j = k
      /\ \A x \in K : \E k \in DOMAIN s : s[k] = x
    BY <1>2, RankedIs DEF s
<1>4. ToSet(s) = K
    <2>1. \A k \in DOMAIN s : s[k] \in K
        BY <1>3
    <2> QED
        BY <1>3, <2>1 DEF ToSet
<1> QED
    BY <1>1, <1>3, <1>4 DEF OneEach

(* Those of a list that are in P.                                          *)
LEMMA SomeOfEach ==
    ASSUME NEW K, NEW s, OneEach(s, K), NEW P
    PROVE  OneEach(Sublist(s, {k \in DOMAIN s : s[k] \in P}), {x \in K : x \in P})
<1> DEFINE D == {k \in DOMAIN s : s[k] \in P}
           t == Sublist(s, D)
           L == {x \in K : x \in P}
<1>1. s \in Seq(K) /\ DOMAIN s \in SUBSET Nat
    BY DEF OneEach
<1>2. D \in SUBSET DOMAIN s
    OBVIOUS
<1>7. \A k \in D : s[k] \in L
    BY <1>1
<1>8. \A x \in L : \E k \in D : s[k] = x
    BY DEF OneEach
<1> HIDE DEF D, t
<1>3. t \in Seq(K) /\ \E h : Picks(h, t, s, D)
    BY <1>1, <1>2, SublistIs DEF t
<1>4. PICK h : Picks(h, t, s, D)
    BY <1>3
<1>5. \A j \in DOMAIN t : h[j] \in D /\ t[j] = s[h[j]]
    BY <1>4 DEF Picks
<1>6. t \in Seq(L)
    <2> HIDE DEF L
    <2>1. DOMAIN t = 1 .. Len(t) /\ Len(t) \in Nat /\ t = [j \in 1 .. Len(t) |-> t[j]]
        BY <1>3
    <2>2. \A j \in 1 .. Len(t) : t[j] \in L
        BY <1>5, <1>7, <2>1
    <2> QED
        BY <2>1, <2>2
<1>9. ASSUME NEW i \in DOMAIN t, NEW j \in DOMAIN t, t[i] = t[j]
      PROVE  i = j
    <2>1. h[i] = h[j]
        BY <1>2, <1>5, <1>9 DEF OneEach
    <2>2. \A x, y \in DOMAIN t : x < y => h[x] < h[y]
        BY <1>4 DEF Picks
    <2>3. h[i] \in Nat /\ ~(h[i] < h[j]) /\ ~(h[j] < h[i])
        BY <1>1, <1>2, <1>5, <2>1
    <2>4. i \in Nat /\ j \in Nat
        BY <1>3
    <2> QED
        BY <2>2, <2>3, <2>4
<1>10. \A x \in L : \E j \in DOMAIN t : t[j] = x
    <2> SUFFICES ASSUME NEW x \in L PROVE \E j \in DOMAIN t : t[j] = x
        OBVIOUS
    <2>1. PICK k \in D : s[k] = x
        BY <1>8
    <2>2. PICK j \in DOMAIN t : h[j] = k
        BY <1>4 DEF Picks
    <2> QED
        BY <1>5, <2>1, <2>2
<1> HIDE DEF L
<1> QED
    BY <1>6, <1>9, <1>10 DEF OneEach, t, D, L

LEMMA CandidatesAre ==
    ASSUME IndexOK(lib), NEW id \in Containers
    PROVE  OneEach(SearchCandidates(lib, id), {i \in DOMAIN lib.files : Below(id, i)})
<1> USE DEF Obj, RootId, VideoId, AudioId, FolderId
<1> DEFINE under(n) == {i \in DOMAIN lib.files : IsPrefix(lib.nodes[n].path, lib.files[i])}
<1>1. /\ DOMAIN lib.files = 1 .. Len(lib.files) /\ Len(lib.files) \in Nat
      /\ IsFiniteSet(DOMAIN lib.files)
    <2>1. ASSUME NEW n \in Nat PROVE IsFiniteSet(1 .. n)
        BY FS_Interval
    <2> QED
        BY <2>1, IndexHasSequences
<1>2. ASSUME NEW n \in DOMAIN lib.nodes
      PROVE  /\ OneEach(FolderSubtreeMedia(lib, n), under(n))
             /\ ToSet(FolderSubtreeMedia(lib, n)) = under(n)
    <2>1. FolderSubtreeMedia(lib, n) = Sorted(under(n), <)
        BY MediaBelow DEF FolderSubtreeMedia
    <2>2. under(n) \in SUBSET Nat /\ IsFiniteSet(under(n))
        BY <1>1, FS_Subset
    <2> HIDE DEF under
    <2> QED
        BY <2>1, <2>2, SortedNumbers
<1>3. CASE id = RootId
    <2>1. SearchCandidates(lib, id) = [i \in DOMAIN lib.files |-> i]
        BY <1>3 DEF SearchCandidates
    <2>2. {i \in DOMAIN lib.files : Below(id, i)} = DOMAIN lib.files
        BY <1>3 DEF Below
    <2>3. OneEach([i \in 1 .. Len(lib.files) |-> i], 1 .. Len(lib.files))
        BY <1>1 DEF OneEach
    <2> QED
        BY <1>1, <2>1, <2>2, <2>3
<1>4. CASE id = VideoId
    <2>1. SearchCandidates(lib, id) = lib.video
        BY <1>4 DEF SearchCandidates
    <2>2. {i \in DOMAIN lib.files : Below(id, i)} = {i \in DOMAIN lib.files : ~IsAudio(lib.files[i])}
        BY <1>4 DEF Below
    <2> QED
        BY <2>1, <2>2 DEF IndexOK
<1>5. CASE id = AudioId
    <2>1. SearchCandidates(lib, id) = lib.audio
        BY <1>5 DEF SearchCandidates
    <2>2. {i \in DOMAIN lib.files : Below(id, i)} = {i \in DOMAIN lib.files : IsAudio(lib.files[i])}
        BY <1>5 DEF Below
    <2> QED
        BY <2>1, <2>2 DEF IndexOK
<1>6. CASE id = FolderId
    <2> DEFINE all == UNION {ToSet(FolderSubtreeMedia(lib, r)) : r \in DOMAIN lib.roots}
    <2>1. SearchCandidates(lib, id) = Sorted(all, <)
        BY <1>6 DEF SearchCandidates
    <2>2. {i \in DOMAIN lib.files : Below(id, i)} = DOMAIN lib.files
        BY <1>6 DEF Below
    <2>3. \A r \in DOMAIN lib.roots : r \in DOMAIN lib.nodes /\ lib.nodes[r].path = lib.roots[r]
        BY IndexHasSequences DEF IndexOK, Tree
    <2>4. all = DOMAIN lib.files
        <3>1. \A r \in DOMAIN lib.roots : ToSet(FolderSubtreeMedia(lib, r)) = under(r)
            BY <1>2, <2>3
        <3>2. \A i \in DOMAIN lib.files : \E r \in DOMAIN lib.roots : i \in under(r)
            BY <2>3 DEF IndexOK, Indexed
        <3>3. \A r : under(r) \in SUBSET DOMAIN lib.files
            OBVIOUS
        <3> HIDE DEF under
        <3> QED
            BY <3>1, <3>2, <3>3
    <2>5. DOMAIN lib.files \in SUBSET Nat
        BY <1>1
    <2> HIDE DEF all
    <2> QED
        BY <1>1, <2>1, <2>2, <2>4, <2>5, SortedNumbers
<1>7. ASSUME NEW n \in DOMAIN lib.nodes, id = Obj("f", n)
      PROVE  OneEach(SearchCandidates(lib, id), {i \in DOMAIN lib.files : Below(id, i)})
    <2>1. SearchCandidates(lib, id) = FolderSubtreeMedia(lib, n)
        BY <1>7 DEF SearchCandidates
    <2>2. {i \in DOMAIN lib.files : Below(id, i)} = under(n)
        BY <1>7 DEF Below
    <2> QED
        BY <1>2, <2>1, <2>2
<1> QED
    BY <1>3, <1>4, <1>5, <1>6, <1>7 DEF Containers

\* The files that a search finds.
Matched(l, id, criterion) ==
    Selected(SearchCandidates(l, id), LAMBDA i : MatchesSearch(FileName(l.files[i]), criterion))

LEMMA MatchedAre ==
    ASSUME IndexOK(lib), NEW id \in Containers, NEW criterion
    PROVE  OneEach(Matched(lib, id, criterion),
                   {i \in DOMAIN lib.files :
                      Below(id, i) /\ MatchesSearch(FileName(lib.files[i]), criterion)})
<1> DEFINE K == {i \in DOMAIN lib.files : Below(id, i)}
           s == SearchCandidates(lib, id)
           P == {i \in DOMAIN lib.files : MatchesSearch(FileName(lib.files[i]), criterion)}
           D == {k \in DOMAIN s : MatchesSearch(FileName(lib.files[s[k]]), criterion)}
<1>1. OneEach(s, K)
    BY CandidatesAre
<1>2. Matched(lib, id, criterion) = Sublist(s, D)
    BY DEF Matched, Selected
<1>3. \A k \in DOMAIN s : s[k] \in DOMAIN lib.files
    BY <1>1 DEF OneEach
<1>4. D = {k \in DOMAIN s : s[k] \in P}
    BY <1>3
<1>5. {x \in K : x \in P} = {i \in DOMAIN lib.files :
          Below(id, i) /\ MatchesSearch(FileName(lib.files[i]), criterion)}
    OBVIOUS
<1> HIDE DEF K, s, P, D
<1>6. OneEach(Sublist(s, {k \in DOMAIN s : s[k] \in P}), {x \in K : x \in P})
    BY <1>1, SomeOfEach
<1> QED
    BY <1>2, <1>4, <1>5, <1>6

-----------------------------------------------------------------------------
(* What a control point reads.                                             *)

(* The inductive invariant: the control point holds the first so many      *)
(* entries of the list it reads, and all of them once it stops.            *)
Found(l, id, criterion) == ItemsOf(l, Matched(l, id, criterion), id)

Listing ==
    IF cp.search THEN Found(lib, cp.id, cp.criterion) ELSE Children(lib, cp.id)

PagingInv ==
    /\ IndexOK(lib)
    /\ DOMAIN cp = DOMAIN Away
    /\ cp.pc \in {"paging", "listed"} =>
          /\ cp.id \in Containers
          /\ cp.count \in Nat
          /\ \E n \in 0 .. Len(Listing) : /\ cp.got = SubSeq(Listing, 1, n)
                                          /\ Len(cp.got) = n
          /\ cp.pc = "listed" => cp.got = Listing /\ cp.total = Len(Listing)

LEMMA ContainersExist ==
    ASSUME IndexOK(lib), NEW id \in Containers
    PROVE  /\ \E S : Children(lib, id) \in Seq(S)
           /\ Metadata(lib, id).children = Len(Children(lib, id))
           /\ \A criterion : \E S : Found(lib, id, criterion) \in Seq(S)
<1>1. \/ id \in {RootId, VideoId, AudioId, FolderId}
      \/ \E n \in DOMAIN lib.nodes : id = Obj("f", n)
    BY DEF Containers
<1>2. IndexOfSequences(lib)
    BY IndexHasSequences
<1>3. /\ \E S : Children(lib, id) \in Seq(S)
      /\ Metadata(lib, id).children = Len(Children(lib, id))
    BY <1>1, <1>2, ChildCountIsRight
<1>4. ASSUME NEW criterion PROVE \E S : Found(lib, id, criterion) \in Seq(S)
    <2> DEFINE K == {i \in DOMAIN lib.files :
                       Below(id, i) /\ MatchesSearch(FileName(lib.files[i]), criterion)}
               matched == Matched(lib, id, criterion)
    <2>1. matched \in Seq(K)
        BY MatchedAre DEF OneEach
    <2>2. K \in SUBSET Nat
        <3>1. DOMAIN lib.files = 1 .. Len(lib.files) /\ Len(lib.files) \in Nat
            BY IndexHasSequences
        <3>2. K \subseteq DOMAIN lib.files
            OBVIOUS
        <3> QED
            BY <3>1, <3>2
    <2> HIDE DEF matched, K
    <2>3. matched \in Seq(Nat)
        BY <2>1, <2>2, NumbersOf
    <2> QED
        BY <2>3, ItemsAreASequence DEF Found, matched
<1> QED
    BY <1>3, <1>4

LEMMA ContainersAnswer ==
    ASSUME NEW id \in Containers
    PROVE  id.kind \notin ItemKind /\ Exists(lib, id)
<1>1. \/ id \in {RootId, VideoId, AudioId, FolderId}
      \/ \E n \in DOMAIN lib.nodes : id = Obj("f", n)
    BY DEF Containers
<1> QED
    BY <1>1 DEF Exists, ItemKind, Obj, RootId, VideoId, AudioId, FolderId

LEMMA NextPageKeeps == PagingInv /\ NextPage => PagingInv'
<1> SUFFICES ASSUME PagingInv, NextPage PROVE PagingInv'
    OBVIOUS
<1> DEFINE list == Listing
           got == cp.got \o Reply.entries
<1>1. lib' = lib /\ cp.pc = "paging" /\ cp.id \in Containers /\ cp.count \in Nat
    BY DEF NextPage, PagingInv, serverVars
<1>2. PICK S : list \in Seq(S)
    BY <1>1, ContainersExist DEF PagingInv, Listing
<1>3. PICK n \in 0 .. Len(list) : cp.got = SubSeq(list, 1, n) /\ Len(cp.got) = n
    BY <1>1 DEF PagingInv
<1>4. Reply.entries = Page(list, n, cp.count) /\ Reply.total = Len(list)
    <2>1. Reply = Answer(Listing, Len(cp.got), cp.count)
        <3>1. cp.id.kind \notin ItemKind /\ Exists(lib, cp.id)
            BY <1>1, ContainersAnswer
        <3>2. CASE cp.search
            BY <3>1, <3>2 DEF Reply, Listing, Search, Found, Matched
        <3>3. CASE ~cp.search
            BY <3>1, <3>3 DEF Reply, Listing, Browse
        <3> QED
            BY <3>2, <3>3
    <2>2. Reply = Answer(list, n, cp.count)
        BY <1>3, <2>1
    <2> QED
        BY <2>2 DEF Answer
<1>5. PICK m \in n .. Len(list) :
          /\ got = SubSeq(list, 1, m)
          /\ Len(got) = m
          /\ Reply.entries = <<>> => m = Len(list)
    <2> HIDE DEF list
    <2>1. \E m \in n .. Len(list) :
              /\ SubSeq(list, 1, n) \o Page(list, n, cp.count) = SubSeq(list, 1, m)
              /\ Len(SubSeq(list, 1, m)) = m
              /\ Page(list, n, cp.count) = <<>> => m = Len(list)
        BY <1>1, <1>2, PageGoesOn
    <2>2. got = SubSeq(list, 1, n) \o Page(list, n, cp.count)
        BY <1>3, <1>4
    <2> HIDE DEF got
    <2> QED
        BY <1>4, <2>1, <2>2
<1>6. /\ DOMAIN cp' = DOMAIN cp
      /\ cp'.search = cp.search /\ cp'.criterion = cp.criterion
      /\ cp'.id = cp.id /\ cp'.count = cp.count
      /\ cp'.got = got /\ cp'.total = Len(list)
      /\ cp'.pc = IF Reply.entries = <<>> \/ m >= Len(list) THEN "listed" ELSE "paging"
    BY <1>4, <1>5 DEF NextPage, PagingInv, Away
<1> HIDE DEF list, got
<1>7. Len(list) \in Nat
    BY <1>2
<1>8. cp'.pc = "listed" => cp'.got = list
    <2>1. cp'.pc = "listed" => m = Len(list)
        BY <1>5, <1>6, <1>7
    <2> QED
        BY <1>2, <1>5, <1>6, <2>1, SubSeqFull
<1>9. m \in 0 .. Len(list) /\ cp'.got = SubSeq(list, 1, m) /\ Len(cp'.got) = m
    BY <1>5, <1>6, <1>7
<1>10. Listing' = list /\ Containers' = Containers
    BY <1>1, <1>6 DEF list, Listing, Containers
<1> QED
    BY <1>1, <1>6, <1>8, <1>9, <1>10 DEF PagingInv

LEMMA PagingStep == PagingInv /\ [Next]_vars => PagingInv'
<1> SUFFICES ASSUME PagingInv, [Next]_vars PROVE PagingInv'
    OBVIOUS
<1>1. lib' = lib
    BY LibStays
<1>2. Containers' = Containers
    BY <1>1 DEF Containers
<1>3. CASE cp' = cp
    BY <1>1, <1>2, <1>3 DEF PagingInv, Listing
<1>4. CASE cp' = Gone
    BY <1>1, <1>4 DEF PagingInv, Gone, Away
<1>5. ASSUME NEW id \in Containers, NEW count \in Counts, NEW search, NEW c,
             OpenList(id, search, c, count)
      PROVE  PagingInv'
    <2>1. /\ DOMAIN cp' = DOMAIN Away
          /\ cp'.pc = "paging" /\ cp'.id = id /\ cp'.count = count /\ cp'.got = <<>>
        BY <1>5 DEF OpenList, Away
    <2>2. PICK S : Listing' \in Seq(S)
        <3>1. CASE search
            BY <1>1, <1>5, <2>1, <3>1, ContainersExist DEF PagingInv, Listing, OpenList, Away
        <3>2. CASE ~search
            BY <1>1, <1>5, <2>1, <3>2, ContainersExist DEF PagingInv, Listing, OpenList, Away
        <3> QED
            BY <3>1, <3>2
    <2>3. 0 \in 0 .. Len(Listing') /\ SubSeq(Listing', 1, 0) = <<>>
        BY <2>2, SubSeqEmpty
    <2>4. Len(<<>>) = 0
        BY EmptySeq
    <2> QED
        BY <1>1, <1>2, <2>1, <2>3, <2>4, CountsAssumption DEF PagingInv
<1>6. CASE NextPage
    BY <1>6, NextPageKeeps
<1> QED
    BY <1>3, <1>4, <1>5, <1>6 DEF Next, vars, FetchItem, FetchSubtitle,
       FetchFromPlaylist, FetchUnlisted, FetchArt

LEMMA PagingHolds == Spec => []PagingInv
<1>1. Init => PagingInv
    <2> SUFFICES ASSUME Init PROVE PagingInv
        OBVIOUS
    <2>1. IndexOK(lib)
        BY InitIndexOK
    <2> QED
        BY <2>1 DEF Init, PagingInv, Away
<1> QED
    BY <1>1, PagingStep, PTL DEF Spec

(* A control point that pages through a container of any library, with any *)
(* page size and any cap, has read every child once and in order when it   *)
(* stops, as many as TotalMatches and childCount say (page_slice).         *)
THEOREM PagesMakeTheListHolds == Spec => []PagesMakeTheList
<1>1. PagingInv => PagesMakeTheList
    BY ContainersExist DEF PagingInv, Listing, PagesMakeTheList
<1> QED
    BY <1>1, PagingHolds, PTL

(* What a listing says of an object is what BrowseMetadata says of it, for *)
(* every container of every library (folder_parent_id, folder_id_for_media *)
(* and the childCounts of content_dir.rs).                                 *)
THEOREM MetadataAgreesHolds == Spec => []MetadataAgrees
<1>1. PagingInv => MetadataAgrees
    <2> SUFFICES ASSUME PagingInv, cp.pc = "listed", ~cp.search,
                        NEW k \in DOMAIN cp.got
                 PROVE  LET e == cp.got[k]
                        IN  /\ Browse(lib, e.id, TRUE, 0, 0).entries = <<e>>
                            /\ e.parent = cp.id
                            /\ e.id.kind \notin ItemKind => Len(Children(lib, e.id)) = e.children
        BY DEF MetadataAgrees
    <2>1. cp.got = Children(lib, cp.id) /\ cp.id \in Containers
        BY DEF PagingInv, Listing
    <2>2. Agrees(lib, cp.got[k], cp.id)
        BY <2>1, ChildrenAgree DEF Containers, PagingInv
    <2> QED
        BY <2>2 DEF Agrees, Browse, One
<1> QED
    BY <1>1, PagingHolds, PTL
(* A search, read in pages of any size, finds each matching file below the *)
(* container once and no other, whatever the library (search_response,     *)
(* folder_subtree_media).                                                  *)
THEOREM SearchFindsTheSubtreeHolds == Spec => []SearchFindsTheSubtree
<1>1. PagingInv => SearchFindsTheSubtree
    <2> DEFINE K == {i \in DOMAIN lib.files :
                       /\ Below(cp.id, i)
                       /\ MatchesSearch(FileName(lib.files[i]), cp.criterion)}
               found == [k \in DOMAIN cp.got |-> cp.got[k].id.n]
               matched == Matched(lib, cp.id, cp.criterion)
    <2> SUFFICES ASSUME PagingInv, cp.pc = "listed", cp.search
                 PROVE  IsInjective(found) /\ Range(found) = K
        BY DEF SearchFindsTheSubtree
    <2>1. cp.got = ItemsOf(lib, matched, cp.id) /\ cp.id \in Containers
        BY DEF PagingInv, Listing, Found
    <2>2. OneEach(matched, K)
        BY <2>1, MatchedAre DEF PagingInv
    <2> HIDE DEF matched, K
    <2>3. /\ DOMAIN cp.got = DOMAIN matched
          /\ \A k \in DOMAIN matched : cp.got[k].id.n = matched[k]
        <3>1. /\ DOMAIN cp.got = DOMAIN matched
              /\ \A k \in DOMAIN matched : cp.got[k] =
                    Item(lib, matched[k], ItemId(cp.id, matched[k]), cp.id)
            BY <2>1 DEF ItemsOf
        <3>2. \A i, parent : Item(lib, i, ItemId(parent, i), parent).id.n = i
            BY DEF Item, ItemId, Obj
        <3> QED
            BY <3>1, <3>2
    <2>4. DOMAIN found = DOMAIN matched /\ \A k \in DOMAIN matched : found[k] = matched[k]
        BY <2>3
    <2> HIDE DEF found
    <2>5. \A k \in DOMAIN matched : matched[k] \in K
        BY <2>2 DEF OneEach
    <2> QED
        BY <2>2, <2>4, <2>5 DEF IsInjective, Range, OneEach
<1> QED
    BY <1>1, PagingHolds, PTL

-----------------------------------------------------------------------------
(* Where a path leads.                                                     *)

\* The places that a walk goes through.
Walks(at, fs, path, follow) ==
    /\ at[0] = Top
    /\ \A m \in 0 .. Len(path) - 1 :
          at[m + 1] = Through(At(fs, at[m], path[m + 1]), follow)

LEMMA WalkUnfolds ==
    ASSUME NEW fs, NEW path \in Seq(Name), NEW follow
    PROVE  \E at : Walk(fs, path, follow) = at[Len(path)] /\ Walks(at, fs, path, follow)
<1> DEFINE N == Len(path)
           to(d, k) == Through(At(fs, d, path[k]), follow)
           A == {Top} \cup {Through(i, follow) : i \in {NoInode} \cup {fs[e] : e \in DOMAIN fs}}
           G == [p \in A \X (1 .. N) |-> to(p[1], p[2])]
           body(f) == [k \in 0 .. N |-> IF k = 0 THEN Top ELSE to(f[k - 1], k)]
           at == CHOOSE f : f = body(f)
<1>1. N \in Nat
    OBVIOUS
<1>2. Top \in A
    OBVIOUS
<1>3. \A d, k : to(d, k) \in A
    BY DEF At
<1>11. Walk(fs, path, follow) = at[N]
    BY DEF Walk
<1> HIDE DEF A, N, to
<1>4. G \in Steps(A, N) /\ \A a \in A, k \in 1 .. N : G[<<a, k>>] = to(a, k)
    BY <1>3 DEF Steps
<1> HIDE DEF G
<1>5. PICK g \in [0 .. N -> A] : Goes(g, Top, G, N)
    BY <1>1, <1>2, <1>4, RecursionExists
<1>6. g = body(g)
    <2>1. \A k \in 1 .. N : k - 1 \in 0 .. N
        BY <1>1
    <2>2. \A k \in 1 .. N : g[k] = to(g[k - 1], k)
        BY <1>4, <1>5, <2>1 DEF Goes
    <2>3. g[0] = Top /\ \A k \in 0 .. N : k # 0 => k \in 1 .. N
        BY <1>1, <1>5 DEF Goes
    <2> QED
        BY <2>2, <2>3
<1>7. at = body(at)
    <2> HIDE DEF body
    <2> QED
        BY <1>6
<1> HIDE DEF at
<1>8. at[0] = Top
    BY <1>1, <1>7
<1>9. ASSUME NEW k \in 0 .. N - 1 PROVE at[k + 1] = to(at[k], k + 1)
    <2>1. k + 1 \in 0 .. N /\ k + 1 # 0 /\ k + 1 - 1 = k
        BY <1>1
    <2>2. at[k + 1] = body(at)[k + 1]
        BY <1>7
    <2> QED
        BY <2>1, <2>2
<1> QED
    BY <1>8, <1>9, <1>11 DEF Walks, N, to

\* The first n names of a path.
Upto(path, n) == SubSeq(path, 1, n)

(* A walk leads on from where the names before the last one led.           *)
LEMMA WalkGoesOn ==
    ASSUME NEW fs, NEW path \in Seq(Name), NEW follow
    PROVE  /\ Walk(fs, Upto(path, 0), follow) = Top
           /\ \A n \in 0 .. Len(path) - 1 :
                 Walk(fs, Upto(path, n + 1), follow)
                    = Through(At(fs, Walk(fs, Upto(path, n), follow), path[n + 1]), follow)
<1>1. Len(path) \in Nat
    OBVIOUS
<1>2. \A n \in 0 .. Len(path) : /\ Upto(path, n) \in Seq(Name) /\ Len(Upto(path, n)) = n
                                /\ \A i \in 1 .. n : Upto(path, n)[i] = path[i]
    BY BeginningIs DEF Upto
<1>3. PICK at : Walk(fs, path, follow) = at[Len(path)] /\ Walks(at, fs, path, follow)
    BY WalkUnfolds
<1>4. ASSUME NEW n \in 0 .. Len(path)
      PROVE  Walk(fs, Upto(path, n), follow) = at[n]
    <2> DEFINE p == Upto(path, n)
    <2>1. p \in Seq(Name) /\ Len(p) = n /\ \A i \in 1 .. n : p[i] = path[i]
        BY <1>2
    <2>2. n \in Nat /\ \A m \in 0 .. n - 1 : m + 1 \in 1 .. n /\ m \in 0 .. Len(path) - 1
        BY <1>1
    <2> HIDE DEF p
    <2>3. PICK b : Walk(fs, p, follow) = b[Len(p)] /\ Walks(b, fs, p, follow)
        BY <2>1, WalkUnfolds
    <2> DEFINE T == {m \in 0 .. n : b[m] = at[m]}
    <2>4. 0 \in T
        BY <1>3, <2>2, <2>3 DEF Walks
    <2>5. ASSUME NEW m \in 0 .. n - 1, m \in T PROVE m + 1 \in T
        <3>1. b[m + 1] = Through(At(fs, b[m], p[m + 1]), follow)
            BY <2>1, <2>3 DEF Walks
        <3>2. at[m + 1] = Through(At(fs, at[m], path[m + 1]), follow)
            BY <1>3, <2>2 DEF Walks
        <3>3. p[m + 1] = path[m + 1] /\ m + 1 \in 0 .. n /\ b[m] = at[m]
            BY <2>1, <2>2, <2>5
        <3> QED
            BY <3>1, <3>2, <3>3
    <2> HIDE DEF T
    <2>6. \A m \in 0 .. n : m \in T
        BY <2>2, <2>4, <2>5, UpTo
    <2> QED
        BY <2>1, <2>2, <2>3, <2>6 DEF T, p
<1>5. \A n \in 0 .. Len(path) - 1 : n \in 0 .. Len(path) /\ n + 1 \in 0 .. Len(path)
    BY <1>1
<1>6. 0 \in 0 .. Len(path)
    BY <1>1
<1> HIDE DEF Upto
<1> QED
    BY <1>3, <1>4, <1>5, <1>6 DEF Walks

LEMMA WalkStraight ==
    ASSUME NEW fs, NEW path \in Seq(Name)
    PROVE  /\ Walk(fs, Upto(path, 0), FALSE) = Top
           /\ \A n \in 0 .. Len(path) - 1 :
                 Walk(fs, Upto(path, n + 1), FALSE)
                    = At(fs, Walk(fs, Upto(path, n), FALSE), path[n + 1])
BY WalkGoesOn DEF Through

\* A file system of which only directories have entries.
AFileSystem(fs) ==
    \A e \in DOMAIN fs : fs[e] \in Inode /\ e[1] \in Inode /\ KindOf[e[1]] = "dir"

(* What stands at the path that a walk without links leads to stands below *)
(* directories, so that a walk through links leads to them too.            *)
LEMMA DirectoriesAbove ==
    ASSUME NEW fs, AFileSystem(fs), NEW path \in Seq(Name),
           Walk(fs, path, FALSE) # NoInode,
           NEW n \in 0 .. Len(path) - 1
    PROVE  /\ Walk(fs, Upto(path, n), FALSE) \in Inode
           /\ KindOf[Walk(fs, Upto(path, n), FALSE)] = "dir"
           /\ Walk(fs, Upto(path, n), TRUE) = Walk(fs, Upto(path, n), FALSE)
<1> DEFINE N == Len(path)
           at(k) == Walk(fs, Upto(path, k), FALSE)
           to(k) == Walk(fs, Upto(path, k), TRUE)
<1>0. NoInode \notin Inode
    BY InodeAssumption
<1>1. N \in Nat /\ n \in Nat /\ n < N
    OBVIOUS
<1>2. /\ at(0) = Top
      /\ \A k \in 0 .. N - 1 : at(k + 1) = At(fs, at(k), path[k + 1])
    BY WalkStraight
<1>3. /\ to(0) = Top
      /\ \A k \in 0 .. N - 1 : to(k + 1) = FollowLink(At(fs, to(k), path[k + 1]))
    BY WalkGoesOn DEF Through
<1>4. at(N) # NoInode
    BY SubSeqFull DEF Upto
<1> HIDE DEF at, to, N
<1>5. ASSUME NEW k \in 0 .. N - 1, at(k + 1) # NoInode
      PROVE  at(k) \in Inode /\ KindOf[at(k)] = "dir"
    <2>1. <<at(k), path[k + 1]>> \in DOMAIN fs
        BY <1>2, <1>5 DEF At
    <2>2. <<at(k), path[k + 1]>>[1] = at(k)
        OBVIOUS
    <2> QED
        BY <2>1, <2>2 DEF AFileSystem
<1>6. \A k \in 0 .. N - 1 : at(k) \in Inode /\ KindOf[at(k)] = "dir"
    <2> DEFINE T == {j \in 0 .. N : at(N - j) # NoInode}
    <2>1. 0 \in T
        BY <1>1, <1>4
    <2>2. ASSUME NEW j \in 0 .. N - 1, j \in T PROVE j + 1 \in T
        <3>1. N - (j + 1) \in 0 .. N - 1 /\ N - (j + 1) + 1 = N - j /\ j + 1 \in 0 .. N
            BY <1>1
        <3>2. at(N - (j + 1) + 1) # NoInode
            BY <2>2, <3>1
        <3>3. at(N - (j + 1)) # NoInode
            BY <1>0, <1>5, <3>1, <3>2
        <3> QED
            BY <3>1, <3>3
    <2> HIDE DEF T
    <2>3. \A j \in 0 .. N : j \in T
        BY <1>1, <2>1, <2>2, UpTo
    <2>4. ASSUME NEW k \in 0 .. N - 1 PROVE at(k + 1) # NoInode
        <3>1. N - (k + 1) \in 0 .. N /\ N - (N - (k + 1)) = k + 1
            BY <1>1
        <3>2. N - (k + 1) \in T
            BY <2>3, <3>1
        <3> QED
            BY <3>1, <3>2 DEF T
    <2> QED
        BY <1>5, <2>4
<1>7. to(n) = at(n)
    <2> DEFINE T == {k \in 0 .. n : to(k) = at(k)}
    <2>1. 0 \in T
        BY <1>1, <1>2, <1>3
    <2>2. ASSUME NEW k \in 0 .. n - 1, k \in T PROVE k + 1 \in T
        <3>1. k \in 0 .. N - 1 /\ k + 1 \in 0 .. N - 1 /\ k + 1 \in 0 .. n
            BY <1>1
        <3>2. to(k + 1) = FollowLink(at(k + 1))
            BY <1>2, <1>3, <2>2, <3>1
        <3>3. KindOf[at(k + 1)] = "dir"
            BY <1>6, <3>1
        <3>4. FollowLink(at(k + 1)) = at(k + 1)
            BY <3>3 DEF FollowLink
        <3> QED
            BY <3>1, <3>2, <3>4
    <2> HIDE DEF T
    <2>3. \A k \in 0 .. n : k \in T
        BY <1>1, <2>1, <2>2, UpTo
    <2>4. n \in 0 .. n
        BY <1>1
    <2> QED
        BY <2>3, <2>4 DEF T
<1>8. n \in 0 .. N - 1
    BY <1>1
<1> QED
    BY <1>6, <1>7, <1>8 DEF at, to

(* Where a name is looked up, its directory was walked to.                 *)
LEMMA ResolveIs ==
    ASSUME NEW fs, NEW path \in Seq(Name), NEW n \in 1 .. Len(path), NEW follow
    PROVE  Resolve(fs, Upto(path, n), follow)
              = At(fs, Walk(fs, Upto(path, n - 1), follow), path[n])
<1> DEFINE p == Upto(path, n)
<1>1. n \in Nat /\ n # 0 /\ n \in 0 .. Len(path) /\ n - 1 \in 0 .. Len(path) /\ n \in 1 .. n
    OBVIOUS
<1>2. p \in Seq(Name) /\ Len(p) = n /\ \A i \in 1 .. n : p[i] = path[i]
    BY <1>1, BeginningIs DEF Upto
<1>3. /\ Upto(path, n - 1) \in Seq(Name) /\ Len(Upto(path, n - 1)) = n - 1
      /\ \A i \in 1 .. n - 1 : Upto(path, n - 1)[i] = path[i]
    BY <1>1, BeginningIs DEF Upto
<1> HIDE DEF p
<1>4. p # <<>> /\ Last(p) = path[n]
    BY <1>1, <1>2 DEF Last
<1>5. Front(p) \in Seq(Name) /\ Len(Front(p)) = n - 1 /\ \A i \in 1 .. n - 1 : Front(p)[i] = p[i]
    BY <1>2, <1>4, NameOfPath
<1>6. Front(p) = Upto(path, n - 1)
    <2>1. \A i \in 1 .. n - 1 : Front(p)[i] = Upto(path, n - 1)[i]
        <3>1. \A i \in 1 .. n - 1 : i \in 1 .. n
            BY <1>1
        <3> QED
            BY <1>2, <1>3, <1>5, <3>1
    <2> HIDE DEF Upto
    <2> QED
        BY <1>3, <1>5, <2>1, SeqEqual
<1>7. Resolve(fs, p, follow) = At(fs, Walk(fs, Front(p), follow), Last(p))
    BY <1>4 DEF Resolve
<1> QED
    BY <1>4, <1>6, <1>7 DEF p

-----------------------------------------------------------------------------
(* What a URL leads to.                                                    *)

\* The names of a path after the first n.
After(path, n) == SubSeq(path, n + 1, Len(path))

LEMMA AfterIs ==
    ASSUME NEW path \in Seq(Name), NEW n \in 0 .. Len(path) - 1
    PROVE  /\ After(path, n) \in Seq(Name)
           /\ After(path, n) # <<>>
           /\ Len(After(path, n)) = Len(path) - n
           /\ Head(After(path, n)) = path[n + 1]
           /\ Tail(After(path, n)) = After(path, n + 1)
           /\ FileName(After(path, n)) = FileName(path)
<1> DEFINE s == After(path, n)
<1>1. Len(path) \in Nat /\ n \in Nat /\ n < Len(path)
    OBVIOUS
<1>2. n + 1 \in 1 .. Len(path) /\ Len(path) \in n + 1 .. Len(path)
    BY <1>1
<1>3. \A i \in n + 1 .. Len(path) : path[i] \in Name
    BY <1>1
<1>4. /\ s \in Seq(Name)
      /\ Len(s) = Len(path) - n
      /\ \A i \in 1 .. Len(path) - n : s[i] = path[n + i]
    <2>1. n + 1 \in Int /\ Len(path) \in Int
        BY <1>1
    <2>2. /\ s \in Seq(Name)
          /\ Len(s) = IF n + 1 <= Len(path) THEN Len(path) - (n + 1) + 1 ELSE 0
          /\ \A i \in 1 .. Len(path) - (n + 1) + 1 : s[i] = path[n + 1 + i - 1]
        BY <1>3, <2>1, SubSeqProperties DEF After
    <2>3. /\ (IF n + 1 <= Len(path) THEN Len(path) - (n + 1) + 1 ELSE 0) = Len(path) - n
          /\ Len(path) - (n + 1) + 1 = Len(path) - n
          /\ \A i \in 1 .. Len(path) - n : n + 1 + i - 1 = n + i
        BY <1>1
    <2> QED
        BY <2>2, <2>3
<1>5. Head(s) = path[n + 1] /\ Tail(s) = After(path, n + 1)
    BY <1>2, HeadTailOfSubSeq DEF After
<1>6. s # <<>> /\ path # <<>>
    BY <1>1, <1>4
<1>7. FileName(s) = FileName(path)
    <2>1. Last(s) = s[Len(path) - n] /\ Last(path) = path[Len(path)]
        BY <1>4 DEF Last
    <2>2. Len(path) - n \in 1 .. Len(path) - n /\ n + (Len(path) - n) = Len(path)
        BY <1>1
    <2> QED
        BY <1>4, <2>1, <2>2 DEF FileName
<1> QED
    BY <1>4, <1>5, <1>6, <1>7

(* Decoding undoes encoding.                                               *)
LEMMA DecodedIsEncoded ==
    ASSUME NEW path \in Seq(Name), path # <<>>
    PROVE  DecodePath(EncodePath(path)) = path
<1> DEFINE s == EncodePath(path)
<1>1. DOMAIN s = DOMAIN path /\ \A i \in DOMAIN path : s[i].name = path[i] /\ s[i].kind = "name"
    BY DEF EncodePath, Plain
<1>2. \A i \in DOMAIN path : s[i] \notin Refused
    BY <1>1 DEF Refused
<1>3. s # <<>>
    BY <1>1
<1> HIDE DEF s
<1>4. [i \in DOMAIN s |-> s[i].name] = path
    BY <1>1
<1> QED
    BY <1>1, <1>2, <1>3, <1>4 DEF DecodePath, s

\* A URL that names a source and the rest of the path from there.
LeadsTo(url, l, path) ==
    /\ url # NoUrl
    /\ url.dir \in DOMAIN l.roots
    /\ \E n \in 1 .. Len(path) - 1 : /\ l.roots[url.dir] = Upto(path, n)
                                     /\ DecodePath(url.tail) = After(path, n)

(* Every indexed file has a URL, and it leads to the file.                 *)
LEMMA MediaUrlLeads ==
    ASSUME NEW l, IndexOK(l), NEW i \in DOMAIN l.files
    PROVE  LeadsTo(MediaUrl(l.files[i], l.roots), l, l.files[i])
<1> DEFINE f == l.files[i]
           above == {r \in DOMAIN l.roots : IsPrefix(l.roots[r], f)}
           first == CHOOSE r \in above : \A q \in above : r <= q
           u == MediaUrl(f, l.roots)
<1>1. /\ f \in Seq(Name)
      /\ \A r \in DOMAIN l.roots : l.roots[r] \in Seq(Name) /\ l.roots[r] # <<>>
      /\ DOMAIN l.roots \in SUBSET (Nat \ {0})
    BY SMTT(30) DEF IndexOK, Apart, Indexed, FilePath
<1>2. \E r \in DOMAIN l.roots : IsPrefix(l.roots[r], f)
    BY DEF IndexOK, Indexed
<1>3. above # {} /\ above \in SUBSET Nat
    BY <1>1, <1>2
<1>4. first \in above
    <2> HIDE DEF above
    <2>1. \E r \in above : \A q \in above : r <= q
        BY <1>3, Least
    <2> QED
        BY <2>1
<1>5. u = [dir |-> first, tail |-> EncodePath(SubSeq(f, Len(l.roots[first]) + 1, Len(f)))]
    BY <1>3 DEF MediaUrl
<1> HIDE DEF first
<1>6. first \in DOMAIN l.roots /\ first # 0 /\ IsPrefix(l.roots[first], f)
    BY <1>1, <1>4
<1> DEFINE n == Len(l.roots[first])
<1>7. l.roots[first] = Upto(f, n) /\ n \in 1 .. Len(f) - 1
    <2>1. l.roots[first] \in Seq(Name) /\ l.roots[first] # <<>>
        BY <1>1, <1>6
    <2>2. l.roots[first] = SubSeq(f, 1, n) /\ n \in 0 .. Len(f)
        BY <1>1, <1>6, <2>1, PrefixIs
    <2>3. n # 0
        BY <2>1
    <2>4. n # Len(f)
        <3>1. PICK r \in DOMAIN l.roots : IsPrefix(l.roots[r], f) /\ l.roots[r] # f
            BY DEF IndexOK, Indexed
        <3>2. IsPrefix(l.roots[r], l.roots[first]) \/ IsPrefix(l.roots[first], l.roots[r])
            BY <1>1, <1>6, <3>1, PrefixesMeet
        <3>3. r = first
            BY <1>6, <3>2 DEF IndexOK, Apart
        <3>4. n = Len(f) => l.roots[first] = f
            BY <1>1, <2>2, SubSeqFull
        <3> QED
            BY <3>1, <3>3, <3>4
    <2>5. Len(f) \in Nat
        BY <1>1
    <2> QED
        BY <2>2, <2>3, <2>4, <2>5 DEF Upto
<1> HIDE DEF n, f
<1>8. n \in 0 .. Len(f) - 1
    BY <1>7
<1>9. DecodePath(EncodePath(After(f, n))) = After(f, n)
    BY <1>1, <1>8, AfterIs, DecodedIsEncoded DEF f
<1>10. u.dir = first /\ u.tail = EncodePath(After(f, n)) /\ u # NoUrl
    <2>1. u = [dir |-> first, tail |-> EncodePath(After(f, n))]
        BY <1>5 DEF After, n, f
    <2> QED
        BY <1>6, <2>1 DEF NoUrl
<1> HIDE DEF u
<1> QED
    BY <1>6, <1>7, <1>9, <1>10 DEF LeadsTo, u, f

(* What a control point lists as an item has the URL of its file.          *)
LEMMA ListedLeads ==
    ASSUME PagingInv, cp.pc = "listed",
           NEW k \in DOMAIN cp.got, cp.got[k].id.kind \in ItemKind
    PROVE  /\ cp.got[k].id.n \in DOMAIN lib.files
           /\ cp.got[k].url = MediaUrl(lib.files[cp.got[k].id.n], lib.roots)
<1> DEFINE e == cp.got[k]
<1>1. /\ IndexOK(lib) /\ cp.id \in Containers
      /\ cp.got = Listing
    BY DEF PagingInv
<1>2. CASE ~cp.search
    <2>1. \/ cp.id \in {RootId, VideoId, AudioId, FolderId}
          \/ \E n \in DOMAIN lib.nodes : cp.id = Obj("f", n)
        BY <1>1 DEF Containers
    <2>2. cp.got = Children(lib, cp.id)
        BY <1>1, <1>2 DEF Listing
    <2>3. Agrees(lib, e, cp.id)
        BY <1>1, <2>1, <2>2, ChildrenAgree
    <2> HIDE DEF e
    <2>4. Exists(lib, e.id) /\ Metadata(lib, e.id) = e
        BY <2>3 DEF Agrees
    <2>5. e.id.kind \in ItemKind
        BY DEF e
    <2>6. e.id \notin {RootId, VideoId, AudioId, FolderId} /\ e.id.kind \in {"v", "a", "m"}
        BY <2>5 DEF ItemKind, Obj, RootId, VideoId, AudioId, FolderId
    <2>7. e.id.n \in DOMAIN lib.files
        BY <2>4, <2>6 DEF Exists
    <2>8. \E parent : e = Item(lib, e.id.n, e.id, parent)
        BY <2>4, <2>6 DEF Metadata
    <2>9. e.url = MediaUrl(lib.files[e.id.n], lib.roots)
        BY <2>8 DEF Item
    <2> QED
        BY <2>7, <2>9 DEF e
<1>3. CASE cp.search
    <2> DEFINE matched == Matched(lib, cp.id, cp.criterion)
    <2>1. cp.got = ItemsOf(lib, matched, cp.id)
        BY <1>1, <1>3 DEF Listing, Found
    <2> DEFINE K == {i \in DOMAIN lib.files :
                       /\ Below(cp.id, i)
                       /\ MatchesSearch(FileName(lib.files[i]), cp.criterion)}
    <2>6. OneEach(matched, K)
        BY <1>1, MatchedAre
    <2>7. \A i \in K : i \in DOMAIN lib.files
        OBVIOUS
    <2> HIDE DEF matched, K
    <2>2. \A j \in DOMAIN matched : matched[j] \in DOMAIN lib.files
        BY <2>6, <2>7 DEF OneEach
    <2>3. k \in DOMAIN matched
        BY <2>1 DEF ItemsOf
    <2>4. e = Item(lib, matched[k], ItemId(cp.id, matched[k]), cp.id)
        BY <2>1, <2>3 DEF ItemsOf
    <2>5. e.id.n = matched[k] /\ e.url = MediaUrl(lib.files[matched[k]], lib.roots)
        BY <2>4 DEF Item, ItemId, Obj
    <2> QED
        BY <2>2, <2>3, <2>5
<1> QED
    BY <1>2, <1>3

(* A selection of all is the list itself.                                  *)
LEMMA SelectedAll ==
    ASSUME NEW S, NEW seq \in Seq(S)
    PROVE  Sublist(seq, DOMAIN seq) = seq
<1> DEFINE n == Len(seq)
           s == Sublist(seq, DOMAIN seq)
<1>1. n \in Nat /\ DOMAIN seq = 1 .. n
    OBVIOUS
<1>2. PICK upto : s = upto[n] /\ Grows(upto, seq, DOMAIN seq)
    BY SublistUnfolds
<1>3. /\ upto[0] = <<>>
      /\ \A m \in 0 .. n - 1 : upto[m + 1] = Append(upto[m], seq[m + 1])
    <2>1. \A m \in 0 .. n - 1 : m + 1 \in DOMAIN seq
        BY <1>1
    <2>2. /\ upto[0] = <<>>
          /\ \A m \in 0 .. n - 1 :
                upto[m + 1] = IF m + 1 \in DOMAIN seq THEN Append(upto[m], seq[m + 1])
                              ELSE upto[m]
        BY <1>2 DEF Grows
    <2> QED
        BY <2>1, <2>2
<1> DEFINE T == {m \in 0 .. n : upto[m] = SubSeq(seq, 1, m)}
<1>4. 0 \in T
    <2>1. SubSeq(seq, 1, 0) = <<>>
        BY SubSeqEmpty
    <2>2. upto[0] = SubSeq(seq, 1, 0)
        BY <1>3, <2>1
    <2>3. 0 \in 0 .. n
        BY <1>1
    <2> QED
        BY <2>2, <2>3
<1>5. ASSUME NEW m \in 0 .. n - 1, m \in T PROVE m + 1 \in T
    <2>1. m \in 0 .. n /\ m + 1 \in 0 .. n /\ m + 1 \in 1 .. n
        BY <1>1
    <2> DEFINE a == SubSeq(seq, 1, m)
               b == SubSeq(seq, 1, m + 1)
    <2>2. /\ a \in Seq(S) /\ Len(a) = m /\ \A i \in 1 .. m : a[i] = seq[i]
          /\ b \in Seq(S) /\ Len(b) = m + 1 /\ \A i \in 1 .. m + 1 : b[i] = seq[i]
        BY <2>1, BeginningIs
    <2>3. seq[m + 1] \in S /\ m \in Nat
        BY <2>1
    <2> HIDE DEF a, b
    <2>4. Append(a, seq[m + 1]) = b
        <3>1. /\ Append(a, seq[m + 1]) \in Seq(S) /\ Len(Append(a, seq[m + 1])) = m + 1
              /\ \A i \in 1 .. m + 1 : Append(a, seq[m + 1])[i] = seq[i]
            BY <2>2, <2>3
        <3> QED
            BY <2>2, <3>1, SeqEqual
    <2> QED
        BY <1>3, <1>5, <2>1, <2>4 DEF a, b
<1> HIDE DEF T
<1>6. n \in T
    <2>1. \A m \in 0 .. n : m \in T
        BY <1>1, <1>4, <1>5, UpTo
    <2> QED
        BY <1>1, <2>1
<1> QED
    BY <1>2, <1>6, SubSeqFull DEF T

(* The playlist names every file, in the order of the index.               *)
LEMMA PlaylistIs ==
    ASSUME NEW l, IndexOK(l)
    PROVE  M3uPlaylist(l.files, l.roots)
              = [i \in DOMAIN l.files |-> MediaUrl(l.files[i], l.roots)]
<1> DEFINE urls == [i \in DOMAIN l.files |-> MediaUrl(l.files[i], l.roots)]
           S == {MediaUrl(l.files[i], l.roots) : i \in DOMAIN l.files}
           K == {k \in DOMAIN urls : urls[k] # NoUrl}
<1>1. M3uPlaylist(l.files, l.roots) = Sublist(urls, K)
    BY DEF M3uPlaylist, Selected
<1>2. \A i \in DOMAIN l.files : urls[i] # NoUrl
    BY MediaUrlLeads DEF LeadsTo
<1>3. K = DOMAIN urls
    BY <1>2
<1>4. urls \in Seq(S)
    <2>1. DOMAIN l.files = 1 .. Len(l.files) /\ Len(l.files) \in Nat
        BY IndexHasSequences
    <2>2. \A i \in DOMAIN l.files : MediaUrl(l.files[i], l.roots) \in S
        OBVIOUS
    <2> HIDE DEF S
    <2> QED
        BY <2>1, <2>2
<1> HIDE DEF urls, S, K
<1> QED
    BY <1>1, <1>3, <1>4, SelectedAll DEF urls

-----------------------------------------------------------------------------
(* From a URL to the file.                                                 *)

\* The files stand where they were indexed.
FilesStand ==
    /\ AFileSystem(entry)
    /\ \A i \in DOMAIN lib.files :
          /\ Walk(entry, lib.files[i], FALSE) # NoInode
          /\ KindOf[Walk(entry, lib.files[i], FALSE)] = "file"
          /\ IsIndexed(FileName(lib.files[i]))

\* A request for path: the source and the handle are at its first names, and
\* what is left to open are the others.
OnItsWay(path) ==
    /\ req.pc \in {"root", "open", "opened", "body", "done"}
    /\ req.pc = "root" =>
          /\ req.root \in DOMAIN lib.roots
          /\ \E n \in 1 .. Len(path) - 1 : /\ lib.roots[req.root] = Upto(path, n)
                                           /\ req.path = After(path, n)
    /\ req.pc = "open" =>
          \E n \in 1 .. Len(path) - 1 : /\ req.path = After(path, n)
                                        /\ req.handle = Walk(entry, Upto(path, n), FALSE)
    /\ req.pc \in {"opened", "body", "done"} => req.handle = Walk(entry, path, FALSE)

RequestLeads ==
    req.item # 0 => req.item \in DOMAIN lib.files /\ OnItsWay(lib.files[req.item])

UrlInv == swaps = 0 => FilesStand /\ RequestLeads

LEMMA ResolvedIsWalked ==
    ASSUME NEW fs, NEW path \in Seq(Name), path # <<>>
    PROVE  Resolve(fs, path, FALSE) = Walk(fs, path, FALSE)
<1> DEFINE N == Len(path)
<1>1. N \in 1 .. Len(path) /\ N - 1 \in 0 .. Len(path) - 1 /\ N - 1 + 1 = N
    OBVIOUS
<1>2. Upto(path, N) = path
    BY SubSeqFull DEF Upto
<1>3. \A n \in 1 .. Len(path) :
         Resolve(fs, Upto(path, n), FALSE) = At(fs, Walk(fs, Upto(path, n - 1), FALSE), path[n])
    BY ResolveIs
<1>4. \A n \in 0 .. Len(path) - 1 :
         Walk(fs, Upto(path, n + 1), FALSE) = At(fs, Walk(fs, Upto(path, n), FALSE), path[n + 1])
    BY WalkStraight
<1> HIDE DEF N
<1> QED
    BY <1>1, <1>2, <1>3, <1>4

LEMMA InitUrlInv == Init => UrlInv
<1> SUFFICES ASSUME Init PROVE FilesStand /\ RequestLeads
    BY DEF UrlInv
<1>1. req.item = 0
    BY DEF Init, ServerInit, Idle
<1>2. AFileSystem(entry)
    BY InodeAssumption DEF Init, ServerInit, AFileSystem
<1>3. ASSUME NEW i \in DOMAIN lib.files
      PROVE  /\ Walk(entry, lib.files[i], FALSE) # NoInode
             /\ KindOf[Walk(entry, lib.files[i], FALSE)] = "file"
             /\ IsIndexed(FileName(lib.files[i]))
    <2> DEFINE disk == DiskSeen(entry, FALSE)
               f == lib.files[i]
    <2>1. PICK dirs \in Sources : lib = Index(disk, dirs)
        BY DEF Init, ServerInit
    <2>2. /\ lib.roots = UniqueCanonicalRoots(dirs)
          /\ lib.files = MediaFiles(disk, UniqueCanonicalRoots(dirs))
        BY <2>1 DEF Index
    <2>3. ADisk(disk) /\ Apart(lib.roots) /\ f \in Seq(Name) /\ f # <<>>
        <3>1. IndexOK(lib)
            BY InitIndexOK
        <3>2. Apart(lib.roots) /\ lib.files \in Seq(FilePath)
            BY <3>1 DEF IndexOK, Indexed
        <3>3. f \in FilePath
            BY <3>2
        <3>4. ADisk(disk)
            BY DiskSeenIsADisk
        <3> QED
            BY <3>2, <3>3, <3>4 DEF FilePath
    <2> HIDE DEF disk
    <2>4. PICK r \in DOMAIN lib.roots : f \in FindMedia(disk, lib.roots[r])
        BY <2>2, <2>3, FilesAreIndexed
    <2>5. f \in DOMAIN disk /\ disk[f] = "file" /\ IsIndexed(FileName(f))
        BY <2>4 DEF FindMedia
    <2>6. Resolve(entry, f, FALSE) # NoInode /\ KindOf[Resolve(entry, f, FALSE)] = "file"
        BY <2>5 DEF disk, DiskSeen
    <2>7. Resolve(entry, f, FALSE) = Walk(entry, f, FALSE)
        BY <2>3, ResolvedIsWalked
    <2> QED
        BY <2>5, <2>6, <2>7
<1> QED
    BY <1>1, <1>2, <1>3 DEF FilesStand, RequestLeads

(* A control point that fetches what it listed, or what the playlist says, *)
(* asks for the file.                                                      *)
LEMMA FetchLeads ==
    ASSUME IndexOK(lib), NEW item \in DOMAIN lib.files, DOMAIN req = DOMAIN Idle,
           RequestMedia(item, MediaUrl(lib.files[item], lib.roots))
    PROVE  RequestLeads'
<1> DEFINE f == lib.files[item]
           url == MediaUrl(f, lib.roots)
<1>1. LeadsTo(url, lib, f)
    BY MediaUrlLeads
<1>2. f \in Seq(Name)
    BY DEF IndexOK, Indexed, FilePath
<1> HIDE DEF f, url
<1>3. PICK n \in 1 .. Len(f) - 1 : /\ lib.roots[url.dir] = Upto(f, n)
                                   /\ DecodePath(url.tail) = After(f, n)
    BY <1>1 DEF LeadsTo
<1>4. n \in 0 .. Len(f) - 1
    OBVIOUS
<1>5. DecodePath(url.tail) # <<>> /\ url.dir \in DOMAIN lib.roots
    BY <1>1, <1>2, <1>3, <1>4, AfterIs DEF LeadsTo
<1>6. req' = [Start(item) EXCEPT !.pc = "root", !.root = url.dir, !.path = After(f, n)]
    BY <1>3, <1>5 DEF RequestMedia, url, f
<1>7. /\ req'.pc = "root" /\ req'.root = url.dir /\ req'.path = After(f, n)
      /\ req'.item = item
    BY <1>6 DEF Start, Idle
<1>8. lib' = lib
    BY DEF RequestMedia
<1>9. OnItsWay(f)'
    BY <1>3, <1>5, <1>7, <1>8 DEF OnItsWay, f
<1> QED
    BY <1>7, <1>8, <1>9 DEF RequestLeads, f

(* Each step of the opening goes one name further.                         *)
LEMMA OpeningLeads ==
    ASSUME IndexOK(lib), IInv, FilesStand, RequestLeads, req.item # 0,
           OpenRoot \/ OpenDirectory \/ OpenFile
    PROVE  RequestLeads'
<1> DEFINE f == lib.files[req.item]
           at(n) == Walk(entry, Upto(f, n), FALSE)
<1>1. /\ req.item \in DOMAIN lib.files /\ OnItsWay(f)
      /\ DOMAIN req = DOMAIN Idle
    BY DEF RequestLeads, IInv, RequestOK
<1>2. f \in Seq(Name) /\ f # <<>>
    BY <1>1 DEF IndexOK, Indexed, FilePath
<1>3. /\ AFileSystem(entry)
      /\ Walk(entry, f, FALSE) # NoInode /\ KindOf[Walk(entry, f, FALSE)] = "file"
      /\ IsIndexed(FileName(f))
    BY <1>1 DEF FilesStand
<1>4. entry' = entry /\ lib' = lib
    BY DEF OpenRoot, OpenDirectory, OpenFile, fsVars
<1>5. req'.item = req.item => (RequestLeads' <=> OnItsWay(f)')
    BY <1>1, <1>4 DEF RequestLeads
<1> HIDE DEF f
<1>6. \A n \in 0 .. Len(f) - 1 : /\ at(n) \in Inode /\ KindOf[at(n)] = "dir"
                                 /\ Walk(entry, Upto(f, n), TRUE) = at(n)
    BY <1>2, <1>3, DirectoriesAbove
<1>7. \A n \in 0 .. Len(f) - 1 : at(n + 1) = At(entry, at(n), f[n + 1])
    BY <1>2, WalkStraight
<1>8. at(Len(f)) = Walk(entry, f, FALSE)
    BY <1>2, SubSeqFull DEF Upto
<1>9. Len(f) \in Nat
    BY <1>2
<1>10. NoInode \notin Inode
    BY InodeAssumption
<1> HIDE DEF at
<1>11. CASE OpenRoot
    <2> DEFINE root == Resolve(entry, lib.roots[req.root], TRUE)
    <2>1. req.pc = "root"
        BY <1>11 DEF OpenRoot
    <2>2. PICK n \in 1 .. Len(f) - 1 : /\ lib.roots[req.root] = Upto(f, n)
                                       /\ req.path = After(f, n)
        BY <1>1, <2>1 DEF OnItsWay
    <2>3. n \in 1 .. Len(f) /\ n \in 0 .. Len(f) - 1 /\ n - 1 \in 0 .. Len(f) - 1 /\ n - 1 + 1 = n
        BY <1>9
    <2>4. root = At(entry, at(n - 1), f[n])
        <3>1. \A m \in 1 .. Len(f) :
                 Resolve(entry, Upto(f, m), TRUE)
                    = At(entry, Walk(entry, Upto(f, m - 1), TRUE), f[m])
            BY <1>2, ResolveIs
        <3>2. root = At(entry, Walk(entry, Upto(f, n - 1), TRUE), f[n])
            BY <2>2, <2>3, <3>1
        <3> QED
            BY <1>6, <2>3, <3>2
    <2>5. root = at(n)
        BY <1>7, <2>3, <2>4
    <2> HIDE DEF root
    <2>6. root # NoInode /\ KindOf[root] = "dir"
        BY <1>6, <1>10, <2>3, <2>5
    <2>7. MimeOf(FileName(req.path)) # "none"
        <3>1. FileName(req.path) = FileName(f)
            BY <1>2, <2>2, <2>3, AfterIs
        <3> QED
            BY <1>3, <3>1 DEF IsIndexed
    <2>8. req' = [req EXCEPT !.pc = "open", !.handle = root]
        BY <1>11, <2>6, <2>7 DEF OpenRoot, root
    <2>9. /\ req'.pc = "open" /\ req'.handle = at(n) /\ req'.path = After(f, n)
          /\ req'.item = req.item
        BY <1>1, <2>2, <2>5, <2>8 DEF Idle
    <2>10. OnItsWay(f)'
        BY <1>4, <2>9 DEF OnItsWay, f, at
    <2> QED
        BY <1>5, <2>9, <2>10
<1>12. ASSUME req.pc = "open"
       PROVE  \E n \in 1 .. Len(f) - 1 :
                 /\ req.path = After(f, n)
                 /\ At(entry, req.handle, Head(req.path)) = at(n + 1)
                 /\ Tail(req.path) = After(f, n + 1)
                 /\ Len(req.path) = Len(f) - n
    <2>1. PICK n \in 1 .. Len(f) - 1 : req.path = After(f, n) /\ req.handle = at(n)
        BY <1>1, <1>12 DEF OnItsWay, at
    <2>2. n \in 0 .. Len(f) - 1
        BY <1>9
    <2>3. /\ Head(req.path) = f[n + 1] /\ Tail(req.path) = After(f, n + 1)
          /\ Len(req.path) = Len(f) - n
        BY <1>2, <2>1, <2>2, AfterIs
    <2> QED
        BY <1>7, <2>1, <2>2, <2>3
<1>13. CASE OpenDirectory
    <2>1. req.pc = "open" /\ Len(req.path) > 1
        BY <1>13 DEF OpenDirectory
    <2>2. PICK n \in 1 .. Len(f) - 1 :
                 /\ req.path = After(f, n)
                 /\ At(entry, req.handle, Head(req.path)) = at(n + 1)
                 /\ Tail(req.path) = After(f, n + 1)
                 /\ Len(req.path) = Len(f) - n
        BY <1>12, <2>1
    <2>3. n + 1 \in 1 .. Len(f) - 1 /\ n + 1 \in 0 .. Len(f) - 1
        BY <1>9, <2>1, <2>2
    <2>4. at(n + 1) # NoInode /\ KindOf[at(n + 1)] = "dir"
        BY <1>6, <1>10, <2>3
    <2>5. req' = [req EXCEPT !.handle = at(n + 1), !.path = After(f, n + 1)]
        BY <1>13, <2>2, <2>4 DEF OpenDirectory
    <2>6. /\ req'.pc = "open" /\ req'.handle = at(n + 1) /\ req'.path = After(f, n + 1)
          /\ req'.item = req.item
        BY <1>1, <2>1, <2>5 DEF Idle
    <2>7. OnItsWay(f)'
        BY <1>4, <2>3, <2>6 DEF OnItsWay, f, at
    <2> QED
        BY <1>5, <2>6, <2>7
<1>14. CASE OpenFile
    <2>1. req.pc = "open" /\ Len(req.path) = 1
        BY <1>14 DEF OpenFile
    <2>2. PICK n \in 1 .. Len(f) - 1 :
                 /\ req.path = After(f, n)
                 /\ At(entry, req.handle, Head(req.path)) = at(n + 1)
                 /\ Tail(req.path) = After(f, n + 1)
                 /\ Len(req.path) = Len(f) - n
        BY <1>12, <2>1
    <2>3. n + 1 = Len(f)
        <3>1. Len(req.path) = Len(f) - n
            BY <2>2
        <3>2. Len(f) - n = 1
            BY <2>1, <3>1
        <3> QED
            BY <1>9, <3>2
    <2>4. At(entry, req.handle, Head(req.path)) = Walk(entry, f, FALSE)
        BY <1>8, <2>2, <2>3
    <2>5. req' = [req EXCEPT !.pc = "opened", !.handle = Walk(entry, f, FALSE), !.path = <<>>]
        BY <1>3, <1>14, <2>4 DEF OpenFile
    <2>6. /\ req'.pc = "opened" /\ req'.handle = Walk(entry, f, FALSE)
          /\ req'.item = req.item
        BY <1>1, <2>5 DEF Idle
    <2>7. OnItsWay(f)'
        BY <1>4, <2>6 DEF OnItsWay, f
    <2> QED
        BY <1>5, <2>6, <2>7
<1> QED
    BY <1>11, <1>13, <1>14

LEMMA UrlStep == IInv /\ PagingInv /\ UrlInv /\ [Next]_vars => UrlInv'
<1> SUFFICES ASSUME IInv, PagingInv, UrlInv, [Next]_vars, swaps' = 0
             PROVE  FilesStand' /\ RequestLeads'
    BY DEF UrlInv
<1>1. IndexOK(lib) /\ swaps \in Nat /\ DOMAIN req = DOMAIN Idle /\ lib' = lib
    BY LibStays DEF PagingInv, IInv, SystemOK, RequestOK
<1>2. ~Owner
    <2>1. Owner => swaps' = swaps + 1
        BY DEF Owner, Rename, Unlink, Resize
    <2> QED
        BY <1>1, <2>1
<1>3. swaps = 0 /\ entry' = entry
    BY <1>2 DEF Next, vars, serverVars, fsVars, OpenList, NextPage, FetchItem,
       FetchSubtitle, FetchFromPlaylist, FetchUnlisted, FetchArt, RequestMedia,
       RequestArt, ServeStep, FindArt, OpenRoot, OpenDirectory, OpenFile, AnswerHead,
       StreamChunk, Finish
<1>4. FilesStand /\ RequestLeads
    BY <1>3 DEF UrlInv
<1>5. FilesStand'
    BY <1>1, <1>3, <1>4 DEF FilesStand, AFileSystem
<1> SUFFICES RequestLeads'
    BY <1>5
<1>6. ASSUME UNCHANGED <<req, lib, entry>> PROVE RequestLeads'
    BY <1>4, <1>6 DEF RequestLeads, OnItsWay
<1>7. ASSUME req'.item = 0 PROVE RequestLeads'
    BY <1>7 DEF RequestLeads
<1>8. ASSUME NEW url, RequestMedia(0, url) PROVE RequestLeads'
    BY <1>1, <1>7, <1>8 DEF RequestMedia, Start, NotFound, Idle
<1>9. CASE FetchItem
    <2>1. PICK k \in DOMAIN cp.got : /\ cp.pc = "listed"
                                     /\ cp.got[k].id.kind \in ItemKind
                                     /\ RequestMedia(cp.got[k].id.n, cp.got[k].url)
        BY <1>9 DEF FetchItem
    <2>2. /\ cp.got[k].id.n \in DOMAIN lib.files
          /\ cp.got[k].url = MediaUrl(lib.files[cp.got[k].id.n], lib.roots)
        BY <2>1, ListedLeads
    <2> QED
        BY <1>1, <2>1, <2>2, FetchLeads
<1>10. CASE FetchFromPlaylist
    <2> DEFINE list == M3uPlaylist(lib.files, lib.roots)
    <2>1. list = [i \in DOMAIN lib.files |-> MediaUrl(lib.files[i], lib.roots)]
        BY <1>1, PlaylistIs
    <2>2. PICK k \in DOMAIN list : RequestMedia(k, list[k])
        BY <1>10 DEF FetchFromPlaylist
    <2> HIDE DEF list
    <2>3. k \in DOMAIN lib.files /\ list[k] = MediaUrl(lib.files[k], lib.roots)
        BY <2>1, <2>2
    <2> QED
        BY <1>1, <2>2, <2>3, FetchLeads
<1>11. CASE FetchSubtitle \/ FetchUnlisted
    BY <1>8, <1>11 DEF FetchSubtitle, FetchUnlisted
<1>12. CASE FetchArt
    <2>1. PICK i : RequestArt(i)
        BY <1>12 DEF FetchArt
    <2> QED
        BY <1>1, <1>7, <2>1 DEF RequestArt, Start, NotFound, Idle
<1>13. CASE ServeStep
    <2>1. CASE req.item = 0
        <3>1. req'.item = req.item
            <4>1. CASE FindArt
                BY <1>1, <4>1 DEF FindArt, NotFound, Idle
            <4>2. CASE OpenRoot
                BY <1>1, <4>2 DEF OpenRoot, NotFound, Idle
            <4>3. CASE OpenDirectory
                BY <1>1, <4>3 DEF OpenDirectory, NotFound, Idle
            <4>6. CASE OpenFile
                BY <1>1, <4>6 DEF OpenFile, NotFound, Idle
            <4>4. ASSUME NEW h, NEW isHead, AnswerHead(h, isHead) PROVE req'.item = req.item
                <5>1. ParseByteRange(h, length[req.handle]).kind
                         \in {"full", "unsatisfiable", "part"}
                    BY DEF ParseByteRange, Full, Unsatisfiable, Part
                <5> QED
                    BY <1>1, <4>4, <5>1 DEF AnswerHead, Idle
            <4>5. CASE StreamChunk
                BY <1>1, <4>5 DEF StreamChunk, Idle
            <4> QED
                BY <1>13, <4>1, <4>2, <4>3, <4>4, <4>5, <4>6 DEF ServeStep
        <3> QED
            BY <1>7, <2>1, <3>1
    <2>2. CASE req.item # 0
        <3>1. OnItsWay(lib.files[req.item]) /\ req.item \in DOMAIN lib.files
            BY <1>4, <2>2 DEF RequestLeads
        <3>2. ~FindArt
            BY <3>1 DEF FindArt, OnItsWay
        <3>3. CASE OpenRoot \/ OpenDirectory \/ OpenFile
            BY <1>1, <1>4, <2>2, <3>3, OpeningLeads
        <3>4. ASSUME req.pc \in {"opened", "body"}, req'.pc \in {"body", "done"},
                     req'.handle = req.handle, req'.item = req.item
              PROVE  RequestLeads'
            BY <1>1, <1>3, <3>1, <3>4 DEF RequestLeads, OnItsWay
        <3>5. ASSUME NEW h, NEW isHead, AnswerHead(h, isHead) PROVE RequestLeads'
            <4>1. ParseByteRange(h, length[req.handle]).kind \in {"full", "unsatisfiable", "part"}
                BY DEF ParseByteRange, Full, Unsatisfiable, Part
            <4> QED
                BY <1>1, <3>4, <3>5, <4>1 DEF AnswerHead, Idle
        <3>6. CASE StreamChunk
            BY <1>1, <3>4, <3>6 DEF StreamChunk, Idle
        <3> QED
            BY <1>13, <3>2, <3>3, <3>5, <3>6 DEF ServeStep
    <2> QED
        BY <2>1, <2>2
<1>14. CASE Finish
    BY <1>1, <1>7, <1>14 DEF Finish, Idle
<1>15. CASE UNCHANGED serverVars
    BY <1>6, <1>15 DEF serverVars
<1> QED
    BY <1>2, <1>9, <1>10, <1>11, <1>12, <1>13, <1>14, <1>15
       DEF Next, vars, OpenList, NextPage

(* What is listed, or named by the playlist, is served: its URL names the  *)
(* source and the path, decoding gives the path back, and the opening      *)
(* walks without links to the file that was indexed (media_url_path,       *)
(* decode_rel_path, media_request, open_media_file).                       *)
THEOREM UrlLeadsBackHolds == Spec => []UrlLeadsBack
<1>1. IndexOK(lib) /\ UrlInv => UrlLeadsBack
    <2> SUFFICES ASSUME IndexOK(lib), UrlInv, req.item # 0, swaps = 0,
                        req.pc \in {"opened", "body", "done"}
                 PROVE  req.handle = Resolve(entry, lib.files[req.item], FALSE)
        BY DEF UrlLeadsBack
    <2>1. /\ req.item \in DOMAIN lib.files
          /\ req.handle = Walk(entry, lib.files[req.item], FALSE)
        BY DEF UrlInv, RequestLeads, OnItsWay
    <2>2. lib.files[req.item] \in Seq(Name) /\ lib.files[req.item] # <<>>
        BY <2>1 DEF IndexOK, Indexed, FilePath
    <2> QED
        BY <2>1, <2>2, ResolvedIsWalked
<1>2. UrlInv /\ IInv /\ PagingInv /\ [Next]_vars => UrlInv'
    BY UrlStep
<1> QED
    BY <1>1, <1>2, InitUrlInv, IndexIsSound, Invariance, PagingHolds, PTL DEF Spec
=============================================================================
