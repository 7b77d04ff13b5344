------------------------------- MODULE MCSsdp -------------------------------
(* Two targets, a peer on each socket, three searches for one slot.        *)
EXTENDS Ssdp, TLC

OneSocket == <<"v4">>
TwoSockets == <<"v4", "v6">>
TwoTargets == <<"root", "content">>
PeerSocket == ("tv" :> "v4") @@ ("tv6" :> "v6")
OnePeerSocket == ("tv" :> "v4")
SearchSource == ("all" :> "tv") @@ ("one" :> "tv") @@ ("other" :> "tv")
SearchWants == ("all" :> {"root", "content"}) @@ ("one" :> {"content"}) @@ ("other" :> {})

=============================================================================
