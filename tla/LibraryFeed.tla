---------------------------- MODULE LibraryFeed ----------------------------
(***************************************************************************)
(* Event hub, library and renderers together.  An embedder that swaps the  *)
(* library makes a new DlnaConfig that shares the hub of the old one       *)
(* (dlna/src/lib.rs), serves it, and then calls content_changed            *)
(* (event.rs).  A Browse keeps the configuration it began with to its end  *)
(* and reads the UpdateID last (content_dir.rs).  A NOTIFY is sent once,   *)
(* by a task of its own: it may be lost, and arrive after a later one.  A  *)
(* renderer browses when it likes and again after every NOTIFY.            *)
(***************************************************************************)
EXTENDS EventHub

CONSTANT Renderer   \* the subscribers that browse

ASSUME RendererAssumption == Renderer \subseteq Sid

VARIABLES
    library,    \* the version that new requests are served from
    browsing,   \* the version a Browse of r began with, or Absent
    rows,       \* the version of the rows r shows
    stale,      \* r has to browse again
    heard       \* history: the newest version r was told of

feedVars == <<library, browsing, rows, stale, heard>>
allVars == <<vars, feedVars>>

FeedInit ==
    /\ Init
    /\ library = 0
    /\ browsing = [r \in Renderer |-> Absent]
    /\ rows = [r \in Renderer |-> 0]
    /\ stale = [r \in Renderer |-> FALSE]
    /\ heard = [r \in Renderer |-> 0]

\* The new configuration is in place and its change not yet announced.
Announced == library = changes

\* The embedder puts the next library in the place of the last.
Swap ==
    /\ Announced /\ library < MaxChanges
    /\ \A c \in Caller : chgPc[c] = "idle"
    /\ library' = library + 1
    /\ UNCHANGED <<vars, browsing, rows, stale, heard>>

\* It then calls content_changed, on one thread.
Announce(c) == ~Announced /\ ChangeBump(c) /\ UNCHANGED feedVars

FirstConfig == 0   \* mutant of Config: the service keeps its first library

\* The configuration that the handlers of new requests share.
Config == library

BrowseBegins(r) ==
    /\ browsing[r] = Absent
    /\ browsing' = [browsing EXCEPT ![r] = Config]
    /\ stale' = [stale EXCEPT ![r] = FALSE]
    /\ UNCHANGED <<vars, library, rows, heard>>

\* The rows are of the library it began with, whatever UpdateID goes with them.
BrowseEnds(r) ==
    /\ browsing[r] # Absent
    /\ rows' = [rows EXCEPT ![r] = browsing[r]]
    /\ browsing' = [browsing EXCEPT ![r] = Absent]
    /\ UNCHANGED <<vars, library, stale, heard>>

\* The send ends with the renderer told.
NotifyArrives(r, m) ==
    /\ SendEnds(r, m)
    /\ stale' = [stale EXCEPT ![r] = TRUE]
    /\ heard' = [heard EXCEPT ![r] = IF m.id - 1 > @ THEN m.id - 1 ELSE @]
    /\ UNCHANGED <<library, browsing, rows>>

\* Or with nothing: refused, lost or timed out, and not tried again.
NotifyLost(s, m) == SendEnds(s, m) /\ UNCHANGED feedVars

HubStep ==
    \/ Tick
    \/ \E s \in Sid :
          \/ \E svc \in Service, ttl \in Ttl : Admit(s, svc, ttl)
          \/ Refuse(s)
          \/ SubscribeStep(s)
          \/ \E ttl \in Ttl : Renew(s, ttl)
          \/ UnsubscribeLease(s)
          \/ UnsubscribeContent(s)
    \/ \E c \in Caller : ChangeStep(c)

FeedNext ==
    \/ HubStep /\ UNCHANGED feedVars
    \/ Swap
    \/ \E c \in Caller : Announce(c)
    \/ \E r \in Renderer :
          \/ BrowseBegins(r)
          \/ BrowseEnds(r)
          \/ \E m \in wire[r] : NotifyArrives(r, m)
    \/ \E s \in Sid : \E m \in wire[s] : NotifyLost(s, m)

(***************************************************************************)
(* A started handler or call runs to its end and a send ends (its connect  *)
(* and its write are each under NOTIFY_TIMEOUT), with the NOTIFY delivered *)
(* or not.  The call after a swap is made, a Browse that began ends, and a *)
(* renderer that was told browses again.  Requests, swaps and time are the *)
(* environment's and get no fairness.                                      *)
(***************************************************************************)
FeedFairness ==
    /\ \A s \in Sid :
          /\ WF_allVars(SubscribeStep(s) /\ UNCHANGED feedVars)
          /\ WF_allVars(UnsubscribeContent(s) /\ UNCHANGED feedVars)
          /\ WF_allVars(\E m \in wire[s] :
                 \/ s \in Renderer /\ NotifyArrives(s, m)
                 \/ NotifyLost(s, m))
    /\ \A c \in Caller :
          /\ WF_allVars(ChangeStep(c) /\ UNCHANGED feedVars)
          /\ WF_allVars(Announce(c))
    /\ \A r \in Renderer :
          /\ WF_allVars(stale[r] /\ BrowseBegins(r))
          /\ WF_allVars(BrowseEnds(r))

FeedSpec == FeedInit /\ [][FeedNext]_allVars /\ FeedFairness

-----------------------------------------------------------------------------
(* A renderer that browses after each NOTIFY mirrors the library: what it  *)
(* shows never goes back to an older version, is never one that was not    *)
(* published, and reaches every version it was told of, though NOTIFYs are *)
(* lost or overtake each other and a Browse may straddle the change.       *)
Mirror == INSTANCE LibraryMirror WITH published <- library, mirror <- rows

MirrorsTheLibrary == Mirror!Spec
=============================================================================
