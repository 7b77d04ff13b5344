---------------------------- MODULE PlayerBrowse ----------------------------
(***************************************************************************)
(* The browser for player advertisements (api/src/bonjour.rs) and the      *)
(* records it keeps in the client tracker.  On macOS mDNSResponder calls   *)
(* back on one serial queue: a player that appears is resolved, then its   *)
(* host's address is looked up, then it is announced.  Elsewhere one       *)
(* thread takes resolved players from an mdns_sd channel.  Both keep the   *)
(* table `Announced` and call the tracker, whose mutex they share with the *)
(* server's requests: those calls (`calls`) are steps of their own, made   *)
(* before the next callback or event.                                      *)
(***************************************************************************)
EXTENDS ClientRecords, Sequences

CONSTANTS
    Instance,   \* names of player advertisements
    Interface   \* network interfaces a browse reports

VARIABLES
    platform,    \* what the server was built for
    interfaces,  \* players: the interfaces an instance was reported on
    lookup,      \* its lookup: NoLookup, Resolving or Addressing(product)
    announced,   \* Announced: the instance's address, or NoIp
    product,     \* history: is the product last announced a Spritz one?
    calls,       \* calls into the tracker the current callback has yet to make
    client       \* the tracker's map

vars == <<platform, interfaces, lookup, announced, product, calls, client>>

NoIp == {}  \* of Option<IpAddr>; Some(ip) is {ip}
NoLookup == "none"
Resolving == "resolving"
Addressing(spritz) == IF spritz THEN "addressing a player" ELSE "addressing"

Call == {"withdraw", "announce"} \X Ip

Holds(ip) == \E i \in Instance : announced[i] = {ip}

-----------------------------------------------------------------------------
(* Announced.                                                              *)

WithdrawIfMoved(i, ip) ==  \* mutant of MovedFrom: shared addresses forgotten
    {old \in Ip : announced[i] = {old} /\ old # ip}

\* insert: the address to withdraw, that no other instance still uses.
MovedFrom(i, ip) ==
    {old \in Ip : /\ announced[i] = {old} /\ old # ip
                  /\ \A j \in Instance \ {i} : announced[j] # {old}}

NeverGone(i) == {}  \* mutant of GoneFrom: nothing is withdrawn

\* remove: likewise.
GoneFrom(i) ==
    {ip \in Ip : /\ announced[i] = {ip}
                 /\ \A j \in Instance \ {i} : announced[j] # {ip}}

WithdrawCalls(ips) == IF ips = {} THEN <<>>
                      ELSE << <<"withdraw", CHOOSE ip \in ips : TRUE>> >>

AddressAdded(i, ip, spritz) ==  \* mutant of AnnounceAt: the old one stays
    /\ announced' = [announced EXCEPT ![i] = @ \cup {ip}]
    /\ product' = [product EXCEPT ![i] = spritz]
    /\ calls' = IF spritz THEN << <<"announce", ip>> >> ELSE <<>>

\* announced.insert, then withdraw and announce; the tracker ignores a
\* product that is not Spritz's.
AnnounceAt(i, ip, spritz) ==
    /\ announced' = [announced EXCEPT ![i] = {ip}]
    /\ product' = [product EXCEPT ![i] = spritz]
    /\ calls' = WithdrawCalls(MovedFrom(i, ip))
                  \o (IF spritz THEN << <<"announce", ip>> >> ELSE <<>>)

\* announced.remove, then withdraw.
Forget(i) ==
    /\ announced' = [announced EXCEPT ![i] = NoIp]
    /\ calls' = WithdrawCalls(GoneFrom(i))

-----------------------------------------------------------------------------
Init ==
    /\ platform \in {"macos", "other"}
    /\ interfaces = [i \in Instance |-> {}]
    /\ lookup = [i \in Instance |-> NoLookup]
    /\ announced = [i \in Instance |-> NoIp]
    /\ product = [i \in Instance |-> FALSE]
    /\ calls = <<>>
    /\ client = [ip \in {} |-> Blank(0)]

MacCallback == platform = "macos" /\ calls = <<>> /\ UNCHANGED <<platform, client>>

(* A DNSService call that returns an error, or a ref that cannot be        *)
(* scheduled, leaves no lookup: as one that fails at once (LookupFails).   *)

\* on_browse, Add: a resolve is started at the first interface only.
BrowseAdd(i, if) ==
    /\ MacCallback
    /\ interfaces' = [interfaces EXCEPT ![i] = @ \cup {if}]
    /\ IF interfaces[i] = {}
       THEN lookup' = [lookup EXCEPT ![i] = Resolving]
       ELSE UNCHANGED lookup
    /\ UNCHANGED <<announced, product, calls>>

\* on_browse, Remove: of an interface that is not the last one.
BrowseRemove(i, if) ==
    /\ MacCallback
    /\ interfaces[i] \ {if} # {}
    /\ interfaces' = [interfaces EXCEPT ![i] = @ \ {if}]
    /\ UNCHANGED <<lookup, announced, product, calls>>

LookupLeft(i) ==  \* mutant of BrowseGone: its lookup goes on
    /\ MacCallback
    /\ interfaces[i] # {}
    /\ interfaces' = [interfaces EXCEPT ![i] = {}]
    /\ Forget(i)
    /\ UNCHANGED <<lookup, product>>

\* on_browse, Remove of the last one: the lookup is cancelled, the player
\* withdrawn.
BrowseGone(i) ==
    /\ MacCallback
    /\ Cardinality(interfaces[i]) = 1
    /\ interfaces' = [interfaces EXCEPT ![i] = {}]
    /\ lookup' = [lookup EXCEPT ![i] = NoLookup]
    /\ Forget(i)
    /\ UNCHANGED product

\* on_resolve: on success the address lookup starts.
Resolved(i, spritz) ==
    /\ MacCallback
    /\ lookup[i] = Resolving
    /\ lookup' = [lookup EXCEPT ![i] = Addressing(spritz)]
    /\ UNCHANGED <<interfaces, announced, product, calls>>

\* on_resolve or on_address with an error: the lookup is dropped.
LookupFails(i) ==
    /\ MacCallback
    /\ lookup[i] # NoLookup
    /\ lookup' = [lookup EXCEPT ![i] = NoLookup]
    /\ UNCHANGED <<interfaces, announced, product, calls>>

\* on_address with an IPv4 address (any other answer is waited past).
Addressed(i, ip) ==
    /\ MacCallback
    /\ \E spritz \in BOOLEAN :
          lookup[i] = Addressing(spritz) /\ AnnounceAt(i, ip, spritz)
    /\ lookup' = [lookup EXCEPT ![i] = NoLookup]
    /\ UNCHANGED interfaces

-----------------------------------------------------------------------------
(* The thread that reads mdns_sd events.                                   *)

MdnsEvent ==
    /\ platform = "other" /\ calls = <<>>
    /\ UNCHANGED <<platform, interfaces, lookup, client>>

\* ServiceResolved, again whenever the daemon learns more of the player.
ServiceResolved(i, ip, spritz) == MdnsEvent /\ AnnounceAt(i, ip, spritz)

ServiceRemoved(i) == MdnsEvent /\ Forget(i) /\ UNCHANGED product

-----------------------------------------------------------------------------
(* The tracker.                                                            *)

CallTracker ==
    /\ calls # <<>>
    /\ LET call == Head(calls)
           txt == CHOOSE a \in TxtAgent : a.model # ""
       IN  IF call[1] = "withdraw"
           THEN client' = Withdrawn(client, call[2])
           ELSE client' \in AnnouncedMaps(client, 0, call[2], txt, "")
    /\ calls' = Tail(calls)
    /\ UNCHANGED <<platform, interfaces, lookup, announced, product>>

\* A request of a client, at any moment.
Request(ip) ==
    /\ client' \in Recorded(client, 0, ip, "Found", NoAgent, "")
    /\ UNCHANGED <<platform, interfaces, lookup, announced, product, calls>>

Next ==
    \/ \E i \in Instance :
          \/ \E if \in Interface : BrowseAdd(i, if) \/ BrowseRemove(i, if)
          \/ BrowseGone(i)
          \/ LookupFails(i)
          \/ ServiceRemoved(i)
          \/ \E spritz \in BOOLEAN : Resolved(i, spritz)
          \/ \E ip \in Ip :
                \/ Addressed(i, ip)
                \/ \E spritz \in BOOLEAN : ServiceResolved(i, ip, spritz)
    \/ CallTracker
    \/ \E ip \in Ip : Request(ip)

Spec == Init /\ [][Next]_vars

-----------------------------------------------------------------------------
TypeOK ==
    /\ platform \in {"macos", "other"}
    /\ interfaces \in [Instance -> SUBSET Interface]
    /\ lookup \in [Instance -> {NoLookup, Resolving, Addressing(TRUE),
                               Addressing(FALSE)}]
    /\ announced \in [Instance -> {NoIp} \cup {{ip} : ip \in Ip}]
    /\ product \in [Instance -> BOOLEAN]
    /\ calls \in Seq(Call) /\ Len(calls) <= 2
    /\ DOMAIN client \subseteq Ip
    /\ \A ip \in DOMAIN client : client[ip] \in Record

(* A record says "on the network" only while some advertisement stands at  *)
(* that address: every removal and every move withdraws it, whichever      *)
(* instances shared the address before.                                    *)
OnNetworkIsAdvertised ==
    calls = <<>> =>
        \A ip \in DOMAIN client :
            client[ip].announced # None => Holds(ip)

(* And an announced Spritz player is shown on the network, until it is     *)
(* gone itself: no other instance's removal or move withdraws it (while    *)
(* the tracker is not full: an eviction forgets the advertisement).        *)
AdvertisedIsOnNetwork ==
    calls = <<>> =>
        \A i \in Instance : \A ip \in Ip :
            announced[i] = {ip} /\ product[i] =>
                ip \in DOMAIN client /\ client[ip].announced # None

(* On macOS a player is announced, or being looked up, only while a browse *)
(* reports it, and never both: "only callbacks on this queue remove        *)
(* players", and a removal cancels the lookup under way.                   *)
LookupsBelongToPlayers ==
    platform = "macos" =>
        \A i \in Instance :
            /\ lookup[i] # NoLookup => interfaces[i] # {} /\ announced[i] = NoIp
            /\ announced[i] # NoIp => interfaces[i] # {}

(* "On an error the lookup is dropped (a later appearance retries)"        *)
(* (bonjour.rs:827-829): a player that is neither announced nor being      *)
(* looked up is looked up again when it appears on an interface.           *)
LaterAppearanceRetries ==
    [][\A i \in Instance :
        (\E if \in Interface \ interfaces[i] :
            interfaces'[i] = interfaces[i] \cup {if}
              /\ lookup[i] = NoLookup /\ announced[i] = NoIp)
        => lookup'[i] = Resolving]_vars

=============================================================================
