---------------------------- MODULE ControlPoint ----------------------------
(***************************************************************************)
(* A control point against the whole of a library: it pages through a      *)
(* container or a search (content_dir.rs), then fetches what was listed    *)
(* from the server (MediaServer), while the files change underneath.       *)
(* A player of the M3U playlist or of a cover fetches without browsing.    *)
(***************************************************************************)
EXTENDS MediaServer

CONSTANTS
    Counts,      \* the RequestedCounts a control point may send
    Criteria     \* the search criteria it may send

ASSUME CountsAssumption == Counts \subseteq Nat

VARIABLE cp      \* what the control point lists and has received so far

vars == <<serverVars, cp>>

Everything == [video |-> FALSE, audio |-> FALSE, title |-> {}]

Away == [pc |-> "idle", search |-> FALSE, criterion |-> Everything, id |-> RootId,
         count |-> 0, got |-> <<>>, total |-> 0]

Init == ServerInit /\ cp = Away

Containers ==
    {RootId, VideoId, AudioId, FolderId} \cup {Obj("f", n) : n \in DOMAIN lib.nodes}

\* It opens a container, or searches one, with a page size of its choice.
OpenList(id, search, criterion, count) ==
    /\ cp.pc = "idle"
    /\ cp' = [Away EXCEPT !.pc = "paging", !.id = id, !.search = search,
                          !.criterion = criterion, !.count = count]
    /\ UNCHANGED serverVars

Reply ==
    IF cp.search THEN Search(lib, cp.id, cp.criterion, Len(cp.got), cp.count)
    ELSE Browse(lib, cp.id, FALSE, Len(cp.got), cp.count)

\* The next page, from where the last one ended, until TotalMatches is there.
NextPage ==
    /\ cp.pc = "paging"
    /\ LET reply == Reply
           got == cp.got \o reply.entries
       IN  cp' = [cp EXCEPT !.got = got, !.total = reply.total,
                            !.pc = IF reply.entries = <<>> \/ Len(got) >= reply.total
                                   THEN "listed" ELSE "paging"]
    /\ UNCHANGED serverVars

\* It has picked what it wants and leaves the list.
Gone == [Away EXCEPT !.pc = "gone"]

FetchItem ==
    /\ cp.pc = "listed"
    /\ \E k \in DOMAIN cp.got :
          /\ cp.got[k].id.kind \in ItemKind
          /\ RequestMedia(cp.got[k].id.n, cp.got[k].url)
    /\ cp' = Gone

FetchSubtitle ==
    /\ cp.pc = "listed"
    /\ \E k \in DOMAIN cp.got : \E n \in DOMAIN cp.got[k].subs :
          RequestMedia(0, cp.got[k].subs[n])
    /\ cp' = Gone

FetchFromPlaylist ==
    /\ cp.pc = "idle"
    /\ LET list == M3uPlaylist(lib.files, lib.roots)
       IN  \E k \in DOMAIN list : RequestMedia(k, list[k])
    /\ cp' = Gone

\* An URL that was never listed: of another session, or made up.
FetchUnlisted ==
    /\ cp.pc = "idle"
    /\ \E bad \in Refused : \E r \in {1, Len(lib.roots) + 1} :
          RequestMedia(0, [dir |-> r, tail |-> <<bad>>])
    /\ cp' = Gone

FetchArt ==
    /\ cp.pc = "idle"
    /\ \E i \in 1 .. Len(lib.files) + 1 : RequestArt(i)
    /\ cp' = Gone

Owner == Rename \/ Unlink \/ Resize

Next ==
    \/ \E id \in Containers, count \in Counts :
          \/ OpenList(id, FALSE, Everything, count)
          \/ \E c \in Criteria : OpenList(id, TRUE, c, count)
    \/ NextPage
    \/ FetchItem \/ FetchSubtitle \/ FetchFromPlaylist \/ FetchUnlisted \/ FetchArt
    \/ ServeStep /\ UNCHANGED cp
    \/ Finish /\ UNCHANGED cp
    \/ Owner /\ UNCHANGED cp

Spec == Init /\ [][Next]_vars

-----------------------------------------------------------------------------
(* What is listed.                                                         *)

Scanned == swaps = 0 /\ cp.pc = "idle"

(* Scan and tree: whatever the given sources are, duplicates and folders   *)
(* inside each other included, no file is indexed twice, every file is in  *)
(* the one folder node that stands for its directory, and every node below *)
(* the sources hangs under exactly one other: Browse would otherwise list  *)
(* a file twice or never, and a search of a folder could run for ever.     *)
EachFileInOneFolder ==
    Scanned =>
        /\ IsInjective(lib.files)
        /\ \A i \in DOMAIN lib.files :
              \E n \in DOMAIN lib.nodes :
                  /\ lib.nodes[n].path = Front(lib.files[i])
                  /\ \A m \in DOMAIN lib.nodes :
                        Contains(lib.nodes[m].media, i) <=> m = n
        /\ \A n \in Len(lib.roots) + 1 .. Len(lib.nodes) :
              \E m \in 1 .. n - 1 :
                  /\ lib.nodes[m].path = Front(lib.nodes[n].path)
                  /\ \A k \in DOMAIN lib.nodes :
                        Contains(lib.nodes[k].subs, n) <=> k = m

(* A subtitle belongs to the media file with the longest stem it fits, so  *)
(* the subtitle of a second part is not offered for the first.             *)
SubtitleOfLongestStem ==
    Scanned => \A i, j \in DOMAIN lib.files : \A k \in DOMAIN lib.subs[i] :
        LET stem(f) == Lower(Stem(FileName(lib.files[f])))
        IN  /\ Front(lib.files[i]) = Front(lib.files[j])
            /\ IsStrictPrefix(stem(i), stem(j))
            => ~IsPrefix(stem(j), Lower(Stem(lib.subs[i][k])))

(* A control point that pages through a container with any page size gets  *)
(* every child once, as many as TotalMatches and as the childCount of the  *)
(* container say, though 0 asks for all and no answer is longer than the   *)
(* cap.                                                                    *)
PagesMakeTheList ==
    (cp.pc = "listed" /\ ~cp.search) =>
        /\ cp.got = Children(lib, cp.id)
        /\ Len(cp.got) = cp.total
        /\ cp.total = Metadata(lib, cp.id).children

(* What a listing says of an object is what BrowseMetadata says of it: the *)
(* same parent, which lists it, and the same childCount, which is the      *)
(* number of its children.                                                 *)
MetadataAgrees ==
    (cp.pc = "listed" /\ ~cp.search) =>
        \A k \in DOMAIN cp.got :
            LET e == cp.got[k]
            IN  /\ Browse(lib, e.id, TRUE, 0, 0).entries = <<e>>
                /\ e.parent = cp.id
                /\ e.id.kind \notin ItemKind => Len(Children(lib, e.id)) = e.children

(* A search finds the matching files below the container and no other,     *)
(* each once, however deep they lie and whichever pages it is read in.     *)
Below(id, i) ==
    CASE id.kind = "V" -> ~IsAudio(lib.files[i])
      [] id.kind = "A" -> IsAudio(lib.files[i])
      [] id.kind = "f" -> IsPrefix(lib.nodes[id.n].path, lib.files[i])
      [] OTHER -> TRUE

SearchFindsTheSubtree ==
    (cp.pc = "listed" /\ cp.search) =>
        LET found == [k \in DOMAIN cp.got |-> cp.got[k].id.n]
        IN  /\ IsInjective(found)
            /\ Range(found) = {i \in DOMAIN lib.files :
                                  /\ Below(cp.id, i)
                                  /\ MatchesSearch(FileName(lib.files[i]), cp.criterion)}
=============================================================================
