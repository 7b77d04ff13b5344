--------------------------- MODULE LibraryMirror ---------------------------
(***************************************************************************)
(* What library changes promise to a renderer that caches what it browsed, *)
(* said without subscriptions, events or requests: versions of the library *)
(* are published, a renderer hears of some of them, and what it shows only *)
(* ever moves forward and catches up with what it has heard of.            *)
(***************************************************************************)
EXTENDS Naturals

CONSTANT Renderer

VARIABLES
    published,   \* the newest version of the library
    heard,       \* heard[r]: the newest version r was told of
    mirror       \* mirror[r]: the version r shows

vars == <<published, heard, mirror>>

Init ==
    /\ published = 0
    /\ heard = [r \in Renderer |-> 0]
    /\ mirror = [r \in Renderer |-> 0]

Publish ==
    /\ published' = published + 1
    /\ UNCHANGED <<heard, mirror>>

Hear(r) ==
    /\ \E v \in heard[r] + 1 .. published : heard' = [heard EXCEPT ![r] = v]
    /\ UNCHANGED <<published, mirror>>

Show(r, v) ==
    /\ v > mirror[r]
    /\ mirror' = [mirror EXCEPT ![r] = v]
    /\ UNCHANGED <<published, heard>>

CatchUp(r) == \E v \in heard[r] .. published : Show(r, v)

Next ==
    \/ Publish
    \/ \E r \in Renderer : Hear(r) \/ \E v \in 1 .. published : Show(r, v)

\* A renderer that is behind what it has heard of catches up.
Spec ==
    /\ Init /\ [][Next]_vars
    /\ \A r \in Renderer : WF_vars(mirror[r] < heard[r] /\ CatchUp(r))
=============================================================================
