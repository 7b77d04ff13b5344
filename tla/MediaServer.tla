---------------------------- MODULE MediaServer ----------------------------
(***************************************************************************)
(* How a media URL, a cover or a range of a file is served: api/src/lib.rs *)
(* and core/src/open.rs.                                                   *)
(*                                                                         *)
(* The library is indexed once; the files stay where they are and whoever  *)
(* owns them renames, links and truncates them while requests are being    *)
(* answered.  A request opens one component of its path after the other,   *)
(* each action below one call on a path or a handle, and then streams from *)
(* the handle it got.  The file system is a set of directory entries:      *)
(* entry[<<d, name>>] is the inode that directory d holds under a name.    *)
(***************************************************************************)
EXTENDS ContentDirectory

CONSTANTS
    KindOf,      \* what an inode is: an EntryKind
    LinkTo,      \* the inode that a link leads to
    Top,         \* the inode of the directory that holds the sources
    TreePaths,   \* the paths of this instance, from Top
    Layouts,     \* the file systems it may be started on
    Sources,     \* the source directories it may be given
    Spare,       \* the inodes the owner may put in the place of another
    Lengths,     \* the lengths of a file
    Chunk,       \* STREAM_CHUNK
    RangeHeader, \* the Range headers a player may send
    MaxSwaps,    \* bound of the model: changes of the file system
    MaxRequests  \* bound of the model: files and covers asked for

VARIABLES
    entry,    \* the directory entries
    length,   \* length[f]: of the files
    lib,      \* the library, as indexed
    req,      \* the request being answered
    swaps,    \* history: changes made to entries or lengths
    requests  \* history: requests made

fsVars == <<entry, length>>
serverVars == <<entry, length, lib, req, swaps, requests>>

Inode == DOMAIN KindOf
NoInode == -1

\* Only a directory has entries, and an entry leads to an inode, whatever it
\* is replaced by.
ASSUME InodeAssumption ==
    /\ NoInode \notin Inode
    /\ Spare \subseteq Inode
    /\ \A l \in Layouts : l \in [DOMAIN l -> Inode]
    /\ \A l \in Layouts : \A e \in DOMAIN l : e[1] \in Inode /\ KindOf[e[1]] = "dir"

\* Where something stands, its directory is a path of the instance too.
ASSUME PathAssumption ==
    /\ IsFiniteSet(TreePaths) /\ TreePaths \subseteq FilePath
    /\ \A p \in TreePaths : Len(p) > 1 => Front(p) \in TreePaths
    /\ Sources \subseteq Seq(Seq(Name))

ASSUME LengthAssumption == Lengths \subseteq Nat /\ Chunk \in Nat \ {0}

-----------------------------------------------------------------------------
(* The file system.                                                        *)

At(fs, dir, name) ==
    IF <<dir, name>> \in DOMAIN fs THEN fs[<<dir, name>>] ELSE NoInode

FollowLink(i) == IF i # NoInode /\ KindOf[i] = "link" THEN LinkTo[i] ELSE i

\* Path walks of the system: the last name is looked up as it is, those above
\* it are walked through links or without following them.
Through(i, follow) == IF follow THEN FollowLink(i) ELSE i

Walk(fs, path, follow) ==
    LET at[n \in 0 .. Len(path)] ==
            IF n = 0 THEN Top ELSE Through(At(fs, at[n - 1], path[n]), follow)
    IN  at[Len(path)]

Resolve(fs, path, follow) ==
    IF path = <<>> THEN Top ELSE At(fs, Walk(fs, Front(path), follow), Last(path))

DiskSeen(fs, follow) ==
    LET there == {p \in TreePaths : Resolve(fs, p, follow) # NoInode}
    IN  [p \in there |-> KindOf[Resolve(fs, p, follow)]]

-----------------------------------------------------------------------------
(* Byte ranges.  A header is [form, first, last]: "none", "other" (a unit  *)
(* other than bytes), "several", "bad", "suffix" (the last `first` bytes)  *)
(* or "from"; Open stands for a range without an end.                      *)

Open == -1

Header ==
    [form : {"none", "other", "several", "bad", "suffix", "from"},
     first : Nat, last : Nat \cup {Open}]

ASSUME HeaderAssumption == RangeHeader \subseteq Header

Full == [kind |-> "full", start |-> 0, end |-> 0]
Unsatisfiable == [kind |-> "unsatisfiable", start |-> 0, end |-> 0]
Part(s, e) == [kind |-> "part", start |-> s, end |-> e]

UnclampedRange(h, len) ==   \* mutant of ParseByteRange: the end is not cut
    IF h.form \in {"none", "other", "several"} THEN Full
    ELSE IF len = 0 \/ h.form = "bad" THEN Unsatisfiable
    ELSE IF h.form = "suffix"
         THEN IF h.first = 0 THEN Unsatisfiable
              ELSE Part(len - AtMost(h.first, len), len - 1)
    ELSE IF h.first > len \/ (h.last # Open /\ h.last < h.first)
         THEN Unsatisfiable
    ELSE Part(h.first, IF h.last = Open THEN len - 1 ELSE h.last)

ParseByteRange(h, len) ==
    IF h.form \in {"none", "other", "several"} THEN Full
    ELSE IF len = 0 \/ h.form = "bad" THEN Unsatisfiable
    ELSE IF h.form = "suffix"
         THEN IF h.first = 0 THEN Unsatisfiable
              ELSE Part(len - AtMost(h.first, len), len - 1)
    ELSE IF h.first >= len \/ (h.last # Open /\ h.last < h.first)
         THEN Unsatisfiable
    ELSE Part(h.first, IF h.last = Open THEN len - 1 ELSE AtMost(h.last, len - 1))

-----------------------------------------------------------------------------
NoHeader == [form |-> "none", first |-> 0, last |-> Open]

Idle == [pc |-> "idle", item |-> 0, root |-> 0, path |-> <<>>, handle |-> NoInode,
         head |-> FALSE, header |-> NoHeader, status |-> 0, range |-> Full,
         len |-> 0, declared |-> 0, pos |-> 0, sent |-> 0, since |-> 0]

ServerInit ==
    /\ entry \in Layouts
    /\ \E n \in Lengths : length = [i \in {i \in Inode : KindOf[i] = "file"} |-> n]
    /\ \E dirs \in Sources : lib = Index(DiskSeen(entry, FALSE), dirs)
    /\ req = Idle
    /\ swaps = 0
    /\ requests = 0

\* The changes of entries that matter are those between two steps of opening:
\* one before the request is one before its first step, and no path is read
\* once the file is open.
Opening == req.pc \in {"art", "root", "open"}

\* The owner of the files puts another inode in a place, or takes one away.
Rename ==
    /\ swaps < MaxSwaps
    /\ Opening
    /\ \E at \in DOMAIN entry, new \in Spare :
          /\ entry[at] # new
          /\ entry' = [entry EXCEPT ![at] = new]
    /\ swaps' = swaps + 1
    /\ UNCHANGED <<length, lib, req, requests>>

Unlink ==
    /\ swaps < MaxSwaps
    /\ Opening
    /\ \E at \in DOMAIN entry :
          /\ entry' = [e \in DOMAIN entry \ {at} |-> entry[e]]
    /\ swaps' = swaps + 1
    /\ UNCHANGED <<length, lib, req, requests>>

\* The file being served is truncated or grows.
Resize ==
    /\ swaps < MaxSwaps
    /\ req.handle \in DOMAIN length
    /\ \E n \in Lengths \ {length[req.handle]} :
          length' = [length EXCEPT ![req.handle] = n]
    /\ swaps' = swaps + 1
    /\ UNCHANGED <<entry, lib, req, requests>>

-----------------------------------------------------------------------------
(* A request.                                                              *)

NotFound(r) == [r EXCEPT !.pc = "done", !.status = 404, !.handle = NoInode]

Start(item) == [Idle EXCEPT !.item = item, !.since = swaps]

\* media_request and the lookup of the source: a path to open, or 404.
RequestMedia(item, url) ==
    LET path == DecodePath(url.tail)
        r == Start(item)
    IN  /\ req.pc = "idle"
        /\ requests < MaxRequests
        /\ requests' = requests + 1
        /\ req' = IF path = <<>> \/ url.dir \notin DOMAIN lib.roots
                  THEN NotFound(r)
                  ELSE [r EXCEPT !.pc = "root", !.root = url.dir, !.path = path]
        /\ UNCHANGED <<fsVars, lib, swaps>>

RequestArt(i) ==
    /\ req.pc = "idle"
    /\ requests < MaxRequests
    /\ requests' = requests + 1
    /\ req' = LET r == Start(0)
              IN  IF i \in DOMAIN lib.files
                  THEN [r EXCEPT !.pc = "art", !.path = lib.files[i]]
                  ELSE NotFound(r)
    /\ UNCHANGED <<fsVars, lib, swaps>>

\* album_art_sidecar again: what is there now, not what was indexed.
FindArt ==
    /\ req.pc = "art"
    /\ LET art == AlbumArt(DiskSeen(entry, TRUE), req.path)
           url == IF art = <<>> THEN NoUrl ELSE MediaUrl(art, lib.roots)
       IN  req' = IF url = NoUrl THEN NotFound(req)
                  ELSE [req EXCEPT !.pc = "root", !.root = url.dir,
                                   !.path = DecodePath(url.tail)]
    /\ UNCHANGED <<fsVars, lib, swaps, requests>>

\* open(root, NOFOLLOW | DIRECTORY), once the extension is one to serve.
OpenRoot ==
    /\ req.pc = "root"
    /\ LET root == Resolve(entry, lib.roots[req.root], TRUE)
       IN  req' = IF /\ MimeOf(FileName(req.path)) # "none"
                     /\ root # NoInode
                     /\ KindOf[root] = "dir"
                  THEN [req EXCEPT !.pc = "open", !.handle = root]
                  ELSE NotFound(req)
    /\ UNCHANGED <<fsVars, lib, swaps, requests>>

OpenThroughLinks ==   \* mutant of OpenDirectory: without NOFOLLOW
    /\ req.pc = "open" /\ Len(req.path) > 1
    /\ LET dir == FollowLink(At(entry, req.handle, Head(req.path)))
       IN  req' = IF dir # NoInode /\ KindOf[dir] = "dir"
                  THEN [req EXCEPT !.handle = dir, !.path = Tail(@)]
                  ELSE NotFound(req)
    /\ UNCHANGED <<fsVars, lib, swaps, requests>>

\* openat(dir, name, NOFOLLOW | DIRECTORY), relative to the handle: on Unix.
\* On Windows the whole path is walked at once and links of directories are
\* followed, as the comment there says (open.rs:61-63).
OpenDirectory ==
    /\ req.pc = "open" /\ Len(req.path) > 1
    /\ LET dir == At(entry, req.handle, Head(req.path))
       IN  req' = IF dir # NoInode /\ KindOf[dir] = "dir"
                  THEN [req EXCEPT !.handle = dir, !.path = Tail(@)]
                  ELSE NotFound(req)
    /\ UNCHANGED <<fsVars, lib, swaps, requests>>

\* openat of the last name and fstat: neither a link nor anything but a file.
OpenFile ==
    /\ req.pc = "open" /\ Len(req.path) = 1
    /\ LET file == At(entry, req.handle, Head(req.path))
       IN  req' = IF file # NoInode /\ KindOf[file] = "file"
                  THEN [req EXCEPT !.pc = "opened", !.handle = file, !.path = <<>>]
                  ELSE NotFound(req)
    /\ UNCHANGED <<fsVars, lib, swaps, requests>>

\* serve_opened: the length now, the range, the head of the answer.  Method
\* and Range of the request are read here first.
AnswerHead(h, isHead) ==
    /\ req.pc = "opened"
    /\ LET len == length[req.handle]
           range == ParseByteRange(h, len)
           r == [req EXCEPT !.header = h, !.head = isHead, !.range = range, !.len = len]
       IN  req' =
             CASE range.kind = "unsatisfiable" ->
                    [r EXCEPT !.pc = "done", !.status = 416]
               [] range.kind = "full" ->
                    [r EXCEPT !.pc = IF r.head THEN "done" ELSE "body",
                              !.status = 200, !.declared = len]
               [] range.kind = "part" ->
                    [r EXCEPT !.pc = IF r.head THEN "done" ELSE "body",
                              !.status = 206, !.pos = range.start,
                              !.declared = range.end - range.start + 1]
    /\ UNCHANGED <<fsVars, lib, swaps, requests>>

WholeChunks(left) == Chunk   \* mutant of ReadSize: take(n) is forgotten

\* What one read may return at most: take(n) limits a part.
ReadSize(left) == AtMost(Chunk, left)

\* One read from the handle; a read of nothing ends the body.
StreamChunk ==
    /\ req.pc = "body"
    /\ LET limit == IF req.status = 206 THEN ReadSize(req.declared - req.sent)
                    ELSE Chunk
           there == IF length[req.handle] > req.pos
                    THEN length[req.handle] - req.pos ELSE 0
           n == AtMost(limit, there)
       IN  req' = IF n = 0 THEN [req EXCEPT !.pc = "done"]
                  ELSE [req EXCEPT !.pos = @ + n, !.sent = @ + n]
    /\ UNCHANGED <<fsVars, lib, swaps, requests>>

\* The player has what it asked for.
Finish ==
    /\ req.pc = "done"
    /\ req' = Idle
    /\ UNCHANGED <<fsVars, lib, swaps, requests>>

ServeStep ==
    \/ FindArt \/ OpenRoot \/ OpenDirectory \/ OpenFile
    \/ \E h \in RangeHeader, isHead \in BOOLEAN : AnswerHead(h, isHead)
    \/ StreamChunk

-----------------------------------------------------------------------------
(* What is served.                                                         *)

Asked(h, len) ==
    {p \in 0 .. len - 1 :
        /\ h.form # "bad"
        /\ h.form = "suffix" => p >= len - h.first
        /\ h.form = "from" => p >= h.first /\ (h.last = Open \/ p <= h.last)}

(* The part that is sent is exactly what RFC 9110 says the header asks of  *)
(* a file of this length, also at its ends and for an empty one: 416 is    *)
(* answered when it asks for nothing the file has, or for a range whose    *)
(* end lies before its start, and every 206 names bytes the file has.      *)
RangeIsTheOneAsked ==
    req.status \in {200, 206, 416} =>
        LET asked == Asked(req.header, req.len)
        IN  /\ req.status = 206 => /\ req.range.start .. req.range.end = asked
                                   /\ Cardinality(asked) = req.declared
            /\ req.status = 200 => asked = 0 .. req.len - 1
            /\ req.status = 416 => asked = {}

(* A partial body is never longer than its Content-Length, whatever        *)
(* happens to the file while it is streamed, and it is complete when the   *)
(* file was left alone.                                                    *)
PartialBodyFits ==
    req.pc \in {"body", "done"} =>
        /\ req.status = 206 => req.sent <= req.declared
        /\ (req.pc = "done" /\ ~req.head /\ req.status \in {200, 206}
              /\ swaps = req.since) => req.sent = req.declared

(* Whatever is moved or linked while a path is opened component by         *)
(* component, the handle is never a file that only a link leads to:        *)
(* open_media_file says that a link swapped in cannot retarget it.  This   *)
(* is what openat gives on Unix; on Windows it is true of files only.      *)
Linked == {LinkTo[l] : l \in {i \in Inode : KindOf[i] = "link"}}

NoLinkFollowed == req.handle \notin Linked

(* The URL of an item, listed or in the playlist, leads back to the file   *)
(* that was indexed: percent-encoding, the index of the source and the     *)
(* opening agree, as long as nothing was changed since the scan.           *)
UrlLeadsBack ==
    (req.item # 0 /\ swaps = 0 /\ req.pc \in {"opened", "body", "done"}) =>
        req.handle = Resolve(entry, lib.files[req.item], FALSE)

=============================================================================
