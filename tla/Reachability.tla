---------------------------- MODULE Reachability ----------------------------
(***************************************************************************)
(* Who may talk to the server and which address it is told: the filter of  *)
(* api/src/peers.rs and the address choices of dlna/src/ssdp.rs and        *)
(* api/src/lib.rs.  Everything here is a function of the interfaces the    *)
(* system reports at that moment.                                          *)
(*                                                                         *)
(* An address is [fam, range, net, host]: its family ("mapped" is an IPv4  *)
(* address inside IPv6), the range it belongs to and the network it is of. *)
(* An interface is [name, link, up, ip, mask]; the mask covers nothing     *)
(* ("any"), the network ("net") or the whole address ("host").             *)
(***************************************************************************)
EXTENDS Lists

NoIp == [fam |-> "none", range |-> "none", net |-> "none", host |-> 0]
Loopback == [fam |-> "v4", range |-> "loopback", net |-> "lo", host |-> 1]

LocalRanges == {"loopback", "private", "linklocal", "cgnat", "unique"}

\* The first position of some.
First(K) == CHOOSE k \in K : \A j \in K : k <= j

FirstOr(seq, test(_), pick(_), default) ==
    LET found == {k \in DOMAIN seq : test(seq[k])}
    IN  IF found = {} THEN default ELSE pick(seq[First(found)])

IsLoopback(i) == i.ip.range = "loopback"

Masked(a, b, mask) ==
    CASE mask = "any" -> TRUE
      [] mask = "net" -> a.net = b.net
      [] mask = "host" -> a.net = b.net /\ a.host = b.host

-----------------------------------------------------------------------------
(* peers.rs.                                                               *)

AsSeen(addr) == addr   \* mutant of Normalize: a mapped address stays IPv6

Normalize(addr) == IF addr.fam = "mapped" THEN [addr EXCEPT !.fam = "v4"] ELSE addr

\* A mapped address is in no IPv6 range.
IsLocalRange(addr) ==
    LET n == Normalize(addr) IN n.fam # "mapped" /\ n.range \in LocalRanges

AttachedSubnets(ifs) ==
    {[net |-> ifs[k].ip, mask |-> ifs[k].mask] : k \in {j \in DOMAIN ifs : ifs[j].up}}

OnAttachedSubnet(addr, nets) ==
    \E n \in nets : /\ Normalize(addr).fam = Normalize(n.net).fam
                    /\ Masked(Normalize(addr), Normalize(n.net), n.mask)

PublicAddresses(ifs) ==
    {addr \in {n.net : n \in AttachedSubnets(ifs)} :
        addr.range # "unspecified" /\ ~IsLocalRange(addr)}

IsLocalPeer(addr, ifs) ==
    IsLocalRange(addr) \/ OnAttachedSubnet(addr, AttachedSubnets(ifs))

\* local_only: the peer of a connection, if its address is known.
LocalOnly(addr, ifs) == addr # NoIp /\ IsLocalPeer(addr, ifs)

-----------------------------------------------------------------------------
(* What the HTTP listener is bound to.  `bind` is an address, or one of    *)
(* range "unspecified".                                                    *)

Unspecified(bind) == bind.range = "unspecified"

\* bind_http: the families it accepts.
HttpFamilies(bind, dualStack) ==
    IF Unspecified(bind) /\ dualStack THEN {"v4", "v6"} ELSE {bind.fam}

AdvertisedIp(bind, discovered) ==
    IF ~Unspecified(bind) THEN bind
    ELSE IF discovered = NoIp THEN Loopback ELSE discovered

\* bound_addresses; a bind to every address has none of its own.
BoundAddresses(bind) ==
    IF Normalize(bind).fam = "v4" THEN <<Normalize(bind)>> ELSE <<>>

-----------------------------------------------------------------------------
(* ssdp.rs, for a config [ip, http]: the advertised address, fixed at      *)
(* start, and the families HTTP accepts.                                   *)

Usable(i) == /\ i.ip.range # "loopback"
             /\ i.ip.fam = "v6" => i.ip.range # "linklocal"

IsSsdpLanIp(addr) == addr.range \in LocalRanges

FirstIpv4(ifs) ==
    FirstOr(ifs, LAMBDA i : i.ip.fam = "v4" /\ ~IsLoopback(i), LAMBDA i : i.ip, NoIp)

AdvertisedIpv6(ifs) ==
    FirstOr(ifs, LAMBDA i : i.ip.fam = "v6" /\ Usable(i), LAMBDA i : i.ip, NoIp)

\* The first address on the subnet of the peer; a mask of nothing is none.
LocalIpForPeer(peer, ifs) ==
    FirstOr(ifs,
            LAMBDA i : /\ i.ip.fam = peer.fam /\ Usable(i) /\ i.mask # "any"
                       /\ Masked(i.ip, peer, i.mask),
            LAMBDA i : i.ip, NoIp)

SsdpSourceAllowed(src, ifs) == IsSsdpLanIp(src) \/ LocalIpForPeer(src, ifs) # NoIp

FamilyServed(addr, cfg) == addr.fam \in cfg.http

LocationIpForFamily(wantV6, cfg, ifs) ==
    LET v6 == IF "v6" \in cfg.http THEN AdvertisedIpv6(ifs) ELSE NoIp
        v4 == IF "v4" \notin cfg.http THEN NoIp
              ELSE IF cfg.ip.fam = "v4" THEN cfg.ip ELSE FirstIpv4(ifs)
        order == (IF wantV6 THEN <<v6>> ELSE <<>>) \o <<v4, v6>>
    IN  FirstOr(order, LAMBDA addr : addr # NoIp, LAMBDA addr : addr, cfg.ip)

LocationForPeer(peer, cfg, ifs) ==
    LET own == LocalIpForPeer(peer, ifs)
    IN  IF own # NoIp /\ FamilyServed(own, cfg) THEN own
        ELSE LocationIpForFamily(peer.fam = "v6", cfg, ifs)

\* The interfaces the multicast groups are joined on.
JoinAllInterfaces(ifs) ==
    {ifs[k].name : k \in {j \in DOMAIN ifs : ~IsLoopback(ifs[j])}}
=============================================================================
