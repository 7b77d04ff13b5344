------------------------------ MODULE Library ------------------------------
(***************************************************************************)
(* The library of core/src/lib.rs and api/src/lib.rs: what the scan of the *)
(* source directories finds, in which order, the folder tree built from    *)
(* it, the sidecars of a file, and the URLs under which a file is served.  *)
(* Everything here is a function of the disk, read once at start.          *)
(*                                                                         *)
(* A name is a sequence of numbers: the dot-separated parts of its stem,   *)
(* then its extension.  Parts 2k and 2k+1 differ in case only.  A path is  *)
(* a sequence of names.  A disk maps paths to what stands there; the       *)
(* parent of an entry is a directory of the same disk.  Indices start at 1.*)
(***************************************************************************)
EXTENDS Lists

CONSTANTS
    Mime,       \* mime_for_ext on extensions it knows, up to the main type
    JunkName,   \* JUNK_DIR_NAMES
    ArtName     \* ART_NAMES, in order of preference

ASSUME MimeAssumption ==
    \A e \in DOMAIN Mime : Mime[e] \in {"video", "audio", "text", "image"}

EntryKind == {"dir", "denied", "file", "link", "fifo"}

Name == {n \in Seq(Nat) : Len(n) > 1}
FilePath == Seq(Name) \ {<<>>}

-----------------------------------------------------------------------------
(* Names, paths and their orders.                                          *)

Lower(name) == [i \in DOMAIN name |-> name[i] \div 2]
FileName(path) == Last(path)
Stem(name) == Front(name)
MimeOf(name) ==
    LET e == Last(name) \div 2 IN IF e \in DOMAIN Mime THEN Mime[e] ELSE "none"
IsAudio(path) == MimeOf(FileName(path)) = "audio"
IsIndexed(name) == MimeOf(name) \in {"video", "audio"}

Before(a, b, less(_, _)) ==
    \E k \in 1 .. Len(b) :
        /\ k <= Len(a) + 1
        /\ \A i \in 1 .. k - 1 : a[i] = b[i]
        /\ k <= Len(a) => less(a[k], b[k])

NameLess(a, b) == Before(a, b, <)
PathLess(a, b) == Before(a, b, NameLess)

\* The comparison of sort_media_paths: by lowered name, then by whole path.
MediaLess(a, b) ==
    LET an == Lower(FileName(a))  bn == Lower(FileName(b))
    IN  NameLess(an, bn) \/ (an = bn /\ PathLess(a, b))

\* A stable sort of seq by key: sort_by keeps the order of equal keys.
StableSort(seq, key) ==
    LET less(i, j) == \/ NameLess(key[seq[i]], key[seq[j]])
                      \/ key[seq[i]] = key[seq[j]] /\ i < j
        order == Sorted(DOMAIN seq, less)
    IN  [k \in DOMAIN seq |-> seq[order[k]]]

-----------------------------------------------------------------------------
(* The scan.                                                               *)

KeepNested(dirs) ==  \* mutant of UniqueCanonicalRoots: only duplicates go
    LET distinct(acc, p) == IF p = <<>> \/ Contains(acc, p) THEN acc
                            ELSE Append(acc, p)
    IN  FoldLeft(distinct, <<>>, dirs)

\* One more source: kept unless an earlier one is or holds it, and those it
\* holds go.  A directory that cannot be canonicalized is the empty path.
Outermost(roots, dir) ==
    IF dir = <<>> \/ \E i \in DOMAIN roots : IsPrefix(roots[i], dir) THEN roots
    ELSE Append(Selected(roots, LAMBDA r : ~IsPrefix(dir, r)), dir)

UniqueCanonicalRoots(dirs) ==
    LET kept[k \in 0 .. Len(dirs)] ==
            IF k = 0 THEN <<>> ELSE Outermost(kept[k - 1], dirs[k])
    IN  kept[Len(dirs)]

\* The walk enters directories it can read, except junk below the root, and
\* follows no link.
Entered(disk, root, dir) ==
    /\ disk[dir] = "dir"
    /\ dir # root => Lower(FileName(dir)) \notin {Lower(n) : n \in JunkName}

FindMedia(disk, root) ==
    {p \in DOMAIN disk :
        /\ disk[p] = "file"
        /\ IsStrictPrefix(root, p)
        /\ IsIndexed(FileName(p))
        /\ \A n \in Len(root) .. Len(p) - 1 : Entered(disk, root, SubSeq(p, 1, n))}

\* Every root is scanned and the whole list sorted again.
MediaFiles(disk, roots) ==
    LET found == UNION {{<<i, p>> : p \in FindMedia(disk, roots[i])} :
                        i \in DOMAIN roots}
        less(x, y) == \/ MediaLess(x[2], y[2])
                      \/ x[2] = y[2] /\ x[1] < y[1]
        list == Sorted(found, less)
    IN  [k \in DOMAIN list |-> list[k][2]]

-----------------------------------------------------------------------------
(* The folder tree.                                                        *)

Node(path) == [path |-> path, subs |-> <<>>, media |-> <<>>]

NodeAt(nodes, path) == CHOOSE i \in DOMAIN nodes : nodes[i].path = path
HasNode(nodes, path) == \E i \in DOMAIN nodes : nodes[i].path = path

AddUnder(nodes, parent, path) ==
    Append([nodes EXCEPT ![parent].subs = Append(@, Len(nodes) + 1)], Node(path))

AddFolder(nodes, path) == AddUnder(nodes, NodeAt(nodes, Front(path)), path)

\* ensure_folder: the missing folders from the nearest known one down to path.
EnsureFolder(nodes, path) ==
    LET known == {n \in 1 .. Len(path) : HasNode(nodes, SubSeq(path, 1, n))}
        nearest == CHOOSE n \in known : \A k \in known : k <= n
        grown[n \in 0 .. Len(path)] ==
            IF n = 0 THEN nodes
            ELSE IF n <= nearest THEN grown[n - 1]
            ELSE AddFolder(grown[n - 1], SubSeq(path, 1, n))
    IN  IF known = {} THEN nodes ELSE grown[Len(path)]

AddMedia(nodes, folder, i) ==
    [nodes EXCEPT ![NodeAt(nodes, folder)].media = Append(@, i)]

PlaceFile(nodes, roots, file, i) ==
    IF \E r \in DOMAIN roots : IsPrefix(roots[r], file)
    THEN AddMedia(EnsureFolder(nodes, Front(file)), Front(file), i)
    ELSE nodes

BuildFolderTree(roots, files) ==
    LET tree[i \in 0 .. Len(files)] ==
            IF i = 0 THEN [r \in DOMAIN roots |-> Node(roots[r])]
            ELSE PlaceFile(tree[i - 1], roots, files[i], i)
    IN  tree[Len(files)]

SortFolderTree(nodes, files) ==
    LET folderName == [j \in DOMAIN nodes |-> Lower(FileName(nodes[j].path))]
        fileName == [f \in DOMAIN files |-> Lower(FileName(files[f]))]
    IN  [i \in DOMAIN nodes |->
            [nodes[i] EXCEPT !.subs = StableSort(@, folderName),
                             !.media = StableSort(@, fileName)]]

-----------------------------------------------------------------------------
(* Sidecars.                                                               *)

Siblings(disk, path) ==
    {FileName(q) : q \in {q \in DOMAIN disk :
                            /\ Len(q) = Len(path) /\ Front(q) = Front(path)
                            /\ disk[q] = "file"}}

ShortestStem(name, stems) ==  \* mutant of OwnerStem
    LET base(k) == SubSeq(Lower(Stem(name)), 1, Len(Stem(name)) - k)
        fits == {k \in 0 .. 2 : k < Len(Stem(name)) /\ base(k) \in stems}
    IN  IF fits = {} THEN <<>> ELSE base(CHOOSE k \in fits : \A j \in fits : j <= k)

\* sidecar_owners: the stem, less one part, less two; the longest that fits.
OwnerStem(name, stems) ==
    LET base(k) == SubSeq(Lower(Stem(name)), 1, Len(Stem(name)) - k)
        fits == {k \in 0 .. 2 : k < Len(Stem(name)) /\ base(k) \in stems}
    IN  IF fits = {} THEN <<>> ELSE base(CHOOSE k \in fits : \A j \in fits : k <= j)

\* sidecar_order: untagged ones first, by extension; tagged ones by name.
SidecarLess(a, b, stem) ==
    LET tagged(n) == Lower(Stem(n)) # Lower(stem)
        rank(n) == IF tagged(n) THEN 0 ELSE Last(n) \div 2
    IN  \/ ~tagged(a) /\ tagged(b)
        \/ /\ tagged(a) = tagged(b)
           /\ rank(a) < rank(b) \/ (rank(a) = rank(b) /\ NameLess(a, b))

SidecarSubtitles(disk, files) ==
    [i \in DOMAIN files |->
        LET here == {j \in DOMAIN files : Front(files[j]) = Front(files[i])}
            stems == {Lower(Stem(FileName(files[j]))) : j \in here}
            own == Stem(FileName(files[i]))
            mine == {n \in Siblings(disk, files[i]) :
                        MimeOf(n) = "text" /\ OwnerStem(n, stems) = Lower(own)}
        IN  Sorted(mine, LAMBDA a, b : SidecarLess(a, b, own))]

\* album_art_sidecar: same stem with a picture extension, then ART_NAMES.
AlbumArt(disk, path) ==
    LET pictures == {e \in DOMAIN Mime : Mime[e] = "image"}
        same == [k \in 1 .. Cardinality(pictures) |->
                    Append(Stem(FileName(path)), 2 * Sorted(pictures, <)[k])]
        there == Selected(same \o ArtName, LAMBDA n : n \in Siblings(disk, path))
    IN  IF there = <<>> THEN <<>> ELSE Append(Front(path), there[1])

-----------------------------------------------------------------------------
(* The library that start_server serves.                                   *)

Index(disk, dirs) ==
    LET roots == UniqueCanonicalRoots(dirs)
        files == MediaFiles(disk, roots)
    IN  [roots |-> roots, files |-> files,
         nodes |-> SortFolderTree(BuildFolderTree(roots, files), files),
         video |-> Selected([i \in DOMAIN files |-> i], LAMBDA i : ~IsAudio(files[i])),
         audio |-> Selected([i \in DOMAIN files |-> i], LAMBDA i : IsAudio(files[i])),
         subs |-> SidecarSubtitles(disk, files)]

-----------------------------------------------------------------------------
(* URLs.  A segment of a URL either decodes to a name or is one of those   *)
(* that decode_rel_path refuses.                                           *)

Plain(name) == [kind |-> "name", name |-> name]
Refused == {[kind |-> k, name |-> <<>>] : k \in {"empty", "dot", "dotdot", "bad"}}

EncodePath(path) == [i \in DOMAIN path |-> Plain(path[i])]

DecodePath(segments) ==
    IF segments = <<>> \/ \E i \in DOMAIN segments : segments[i] \in Refused
    THEN <<>> ELSE [i \in DOMAIN segments |-> segments[i].name]

NoUrl == [dir |-> 0, tail |-> <<>>]

OneSourceUrl(path, roots) ==  \* mutant of MediaUrl: every file is of the first
    LET above == {r \in DOMAIN roots : IsPrefix(roots[r], path)}
        first == CHOOSE r \in above : \A q \in above : r <= q
    IN  IF above = {} THEN NoUrl
        ELSE [dir |-> 1,
              tail |-> EncodePath(SubSeq(path, Len(roots[first]) + 1, Len(path)))]

\* media_url_path: the first root above the file, and the path below it.
MediaUrl(path, roots) ==
    LET above == {r \in DOMAIN roots : IsPrefix(roots[r], path)}
        first == CHOOSE r \in above : \A q \in above : r <= q
    IN  IF above = {} THEN NoUrl
        ELSE [dir |-> first,
              tail |-> EncodePath(SubSeq(path, Len(roots[first]) + 1, Len(path)))]

\* m3u_playlist: one entry per file that has a URL.
M3uPlaylist(files, roots) ==
    Selected([i \in DOMAIN files |-> MediaUrl(files[i], roots)],
              LAMBDA url : url # NoUrl)
=============================================================================
