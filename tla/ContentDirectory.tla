-------------------------- MODULE ContentDirectory --------------------------
(***************************************************************************)
(* The ContentDirectory service of dlna/src/content_dir.rs: Browse and     *)
(* Search of a library, and the objects and pages they answer with.        *)
(*                                                                         *)
(* An object id is [kind, n]: the containers "0", "V", "A" and "F" (n = 0),*)
(* a folder "f:n", the items "v:n", "a:n" and "m:n", and "x" for an id of  *)
(* no known form.  An answer lists entries [id, parent, children, url,     *)
(* subs, ref]; children is the childCount of a container.                  *)
(***************************************************************************)
EXTENDS Library

CONSTANT PageCap   \* DEFAULT_BROWSE_PAGE

ASSUME PageCapAssumption == PageCap \in Nat \ {0}

Obj(k, n) == [kind |-> k, n |-> n]
RootId == Obj("0", 0)
VideoId == Obj("V", 0)
AudioId == Obj("A", 0)
FolderId == Obj("F", 0)
NoId == Obj("-", 0)    \* the parent "-1" of the root

ItemKind == {"v", "a", "m"}

-----------------------------------------------------------------------------
(* Pages.                                                                  *)

AtMost(a, b) == IF a <= b THEN a ELSE b

ClampedByCount(start, count, total) ==   \* mutant of PageSlice: 0 is 0
    <<AtMost(start, total), AtMost(AtMost(start, total) + AtMost(count, PageCap), total)>>

\* page_slice: RequestedCount 0 asks for a full page, more than one is cut.
PageSlice(start, count, total) ==
    LET from == AtMost(start, total)
        limit == IF count = 0 THEN PageCap ELSE AtMost(count, PageCap)
    IN  <<from, AtMost(from + limit, total)>>

Page(list, start, count) ==
    LET slice == PageSlice(start, count, Len(list))
    IN  SubSeq(list, slice[1] + 1, slice[2])

Answer(list, start, count) ==
    [fault |-> FALSE, entries |-> Page(list, start, count), total |-> Len(list)]
One(entry) == [fault |-> FALSE, entries |-> <<entry>>, total |-> 1]
Nothing == [fault |-> FALSE, entries |-> <<>>, total |-> 0]
NoSuchObject == [fault |-> TRUE, entries |-> <<>>, total |-> 0]

-----------------------------------------------------------------------------
(* Entries.                                                                *)

Container(id, parent, children) ==
    [id |-> id, parent |-> parent, children |-> children,
     url |-> NoUrl, subs |-> <<>>, ref |-> NoId]

FolderChildCount(node) == Len(node.subs) + Len(node.media)

FolderContainer(lib, n, parent) ==
    Container(Obj("f", n), parent, FolderChildCount(lib.nodes[n]))

ItemId(parent, i) ==
    Obj(IF parent = VideoId THEN "v" ELSE IF parent = AudioId THEN "a" ELSE "m", i)

SubtitleUrls(lib, i) ==
    LET names == lib.subs[i]
    IN  [k \in DOMAIN names |->
            MediaUrl(Append(Front(lib.files[i]), names[k]), lib.roots)]

\* item_xml and sidecar_subtitle_res.
Item(lib, i, id, parent) ==
    [id |-> id, parent |-> parent, children |-> 0,
     url |-> MediaUrl(lib.files[i], lib.roots),
     subs |-> Selected(SubtitleUrls(lib, i), LAMBDA u : u # NoUrl),
     ref |-> IF id.kind = "m" THEN NoId ELSE Obj("m", i)]

ItemsOf(lib, indices, parent) ==
    [k \in DOMAIN indices |->
        Item(lib, indices[k], ItemId(parent, indices[k]), parent)]

-----------------------------------------------------------------------------
(* Containers.                                                             *)

\* The sources with media in them, in their order.
ActiveRoots(lib) ==
    Sorted({n \in DOMAIN lib.roots : FolderChildCount(lib.nodes[n]) > 0}, <)

RootChildren(lib) ==
    LET container(id, n) ==
            IF n = 0 THEN <<>> ELSE <<Container(id, RootId, n)>>
    IN  container(VideoId, Len(lib.video)) \o container(AudioId, Len(lib.audio))
        \o container(FolderId, Len(ActiveRoots(lib)))

FolderRootChildren(lib) ==
    LET roots == ActiveRoots(lib)
    IN  [k \in DOMAIN roots |-> FolderContainer(lib, roots[k], FolderId)]

FolderChildren(lib, n) ==
    LET node == lib.nodes[n]
    IN  [k \in DOMAIN node.subs |-> FolderContainer(lib, node.subs[k], Obj("f", n))]
        \o ItemsOf(lib, node.media, Obj("f", n))

FlatParent(lib, n) == FolderId  \* mutant of FolderParent: every folder is a root

FolderParent(lib, n) ==
    LET above == {p \in DOMAIN lib.nodes : Contains(lib.nodes[p].subs, n)}
    IN  IF n <= Len(lib.roots) \/ above = {} THEN FolderId
        ELSE Obj("f", CHOOSE p \in above : \A q \in above : p <= q)

FolderOfMedia(lib, i) ==
    LET holding == {p \in DOMAIN lib.nodes : Contains(lib.nodes[p].media, i)}
    IN  IF holding = {} THEN FolderId
        ELSE Obj("f", CHOOSE p \in holding : \A q \in holding : p <= q)

Children(lib, id) ==
    CASE id = RootId -> RootChildren(lib)
      [] id = VideoId -> ItemsOf(lib, lib.video, VideoId)
      [] id = AudioId -> ItemsOf(lib, lib.audio, AudioId)
      [] id = FolderId -> FolderRootChildren(lib)
      [] id.kind = "f" -> FolderChildren(lib, id.n)
      [] OTHER -> <<>>

Exists(lib, id) ==
    \/ id \in {RootId, VideoId, AudioId, FolderId}
    \/ id.kind = "f" /\ id.n \in DOMAIN lib.nodes
    \/ id.kind \in ItemKind /\ id.n \in DOMAIN lib.files

Metadata(lib, id) ==
    CASE id = RootId -> Container(RootId, NoId, Len(RootChildren(lib)))
      [] id = VideoId -> Container(VideoId, RootId, Len(lib.video))
      [] id = AudioId -> Container(AudioId, RootId, Len(lib.audio))
      [] id = FolderId -> Container(FolderId, RootId, Len(ActiveRoots(lib)))
      [] id.kind = "f" -> FolderContainer(lib, id.n, FolderParent(lib, id.n))
      [] id.kind = "v" -> Item(lib, id.n, id, VideoId)
      [] id.kind = "a" -> Item(lib, id.n, id, AudioId)
      [] id.kind = "m" -> Item(lib, id.n, id, FolderOfMedia(lib, id.n))

-----------------------------------------------------------------------------
(* The actions of the service.                                             *)

\* The children of an item are asked for with its form checked, not its index.
Browse(lib, id, metadata, start, count) ==
    IF id.kind \in ItemKind /\ ~metadata THEN Nothing
    ELSE IF ~Exists(lib, id) THEN NoSuchObject
    ELSE IF metadata THEN One(Metadata(lib, id))
    ELSE Answer(Children(lib, id), start, count)

\* The folders reachable from n: the stack of folder_subtree_media.
WithSubfolders(lib, seen) == seen \cup UNION {ToSet(lib.nodes[p].subs) : p \in seen}

SubtreeOf(lib, n) ==
    LET seen[k \in 0 .. Len(lib.nodes)] ==
            IF k = 0 THEN {n} ELSE WithSubfolders(lib, seen[k - 1])
    IN  seen[Len(lib.nodes)]

ShallowMedia(lib, n) == Sorted(ToSet(lib.nodes[n].media), <)  \* mutant

FolderSubtreeMedia(lib, n) ==
    Sorted(UNION {ToSet(lib.nodes[p].media) : p \in SubtreeOf(lib, n)}, <)

SearchCandidates(lib, id) ==
    CASE id = RootId -> [i \in DOMAIN lib.files |-> i]
      [] id = VideoId -> lib.video
      [] id = AudioId -> lib.audio
      [] id = FolderId ->
            Sorted(UNION {ToSet(FolderSubtreeMedia(lib, r)) : r \in DOMAIN lib.roots}, <)
      [] id.kind = "f" -> FolderSubtreeMedia(lib, id.n)
      [] OTHER -> <<>>

\* A criterion asks for classes of media and for parts of the title.
MatchesSearch(name, criterion) ==
    /\ criterion.video => MimeOf(name) = "video"
    /\ criterion.audio => MimeOf(name) = "audio"
    /\ \A part \in criterion.title : part \div 2 \in ToSet(Lower(name))

\* An item found keeps the searched container as its parent.
Search(lib, id, criterion, start, count) ==
    LET matched == Selected(SearchCandidates(lib, id),
                       LAMBDA i : MatchesSearch(FileName(lib.files[i]), criterion))
    IN  IF id.kind \in ItemKind \/ Exists(lib, id)
        THEN Answer(ItemsOf(lib, matched, id), start, count)
        ELSE NoSuchObject
=============================================================================
