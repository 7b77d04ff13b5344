----------------------------- MODULE NetChecks ------------------------------
(***************************************************************************)
(* The network self-checks of api/src/netcheck.rs: why players might not   *)
(* see this server.  A check is [id, about]: what its message says is the  *)
(* set of tuples `about`, and two checks are equal when both are.          *)
(***************************************************************************)
EXTENDS Reachability

IsTunnel(i) == i.link = "tunnel"
IsVirtual(i) == i.link = "virtual"

IsLan(i) ==
    /\ i.ip.range \notin {"loopback", "linklocal", "unspecified"}
    /\ ~IsTunnel(i) /\ ~IsVirtual(i)

\* interfaces(): those that are up, with their IPv4 addresses.
Interfaces(ifs) == Selected(ifs, LAMBDA i : i.up /\ i.ip.fam = "v4")

Lans(interfaces) == Selected(interfaces, IsLan)

Network(i) ==
    <<i.mask, IF i.mask = "any" THEN "" ELSE i.ip.net,
      IF i.mask = "host" THEN i.ip.host ELSE 0>>

\* The advertised address first, without duplicates.
LanAddresses(interfaces, advertised) ==
    LET lans == Lans(interfaces)
        own == IF \E k \in DOMAIN lans : lans[k].ip = advertised
               THEN <<advertised>> ELSE <<>>
        all == own \o [k \in DOMAIN lans |-> lans[k].ip]
    IN  Sublist(all, {k \in DOMAIN all : \A j \in 1 .. k - 1 : all[j] # all[k]})

-----------------------------------------------------------------------------
(* Probing the gateway.  An interface also says how the gateway of its     *)
(* subnet answers a UDP send and a TCP connect: `udp` and `tcp`.           *)

\* probe_target; 0 is no host.
ProbeTarget(i) ==
    IF i.mask = "host" THEN 0 ELSE IF i.ip.host = 1 THEN 2 ELSE 1

Classify(udp, tcp) ==
    IF udp = "unreachable" /\ tcp \in {"unreachable", "refused by the system"}
    THEN "denied" ELSE "ok"

\* The interface whose gateway is probed, if there is one: the advertised
\* address's, or the first of the LAN.
Chosen(interfaces, advertised) ==
    Selected(Lans(interfaces), LAMBDA i : i.ip = advertised) \o Lans(interfaces)

\* <<>> when nothing is probed.
ProbedFrom(interfaces, advertised, mac) ==
    LET chosen == Chosen(interfaces, advertised)
    IN  IF ~mac \/ chosen = <<>> THEN <<>>
        ELSE IF ProbeTarget(chosen[1]) = 0 THEN <<>> ELSE <<chosen[1]>>

\* probe_host, from that interface as it was read, with the interfaces `ifs`:
\* its socket is bound to the address, and cannot be if no interface has it.
UdpAnswers(from, ifs) ==
    LET own == {i \in ToSet(ifs) : i.ip = from.ip}
    IN  IF own = {} THEN {"not bound"} ELSE {i.udp : i \in own}

\* The connect is bound to no address: a host on none of the subnets is
\* somebody else's to answer for.
TcpAnswers(from, ifs) ==
    LET near == {i \in ToSet(ifs) : i.ip.fam = from.ip.fam /\ i.ip.net = from.ip.net}
    IN  IF near = {} THEN {"none", "unreachable"} ELSE {i.tcp : i \in near}

\* lan_probe, all of it on one network.
LanProbe(from) ==
    IF from = <<>> THEN "skipped" ELSE Classify(from[1].udp, from[1].tcp)

-----------------------------------------------------------------------------
(* evaluate, on [interfaces, advertised, ssdp, bonjour, lan, exposed].     *)

Check(id, about) == [id |-> id, about |-> about]
When(condition, check) == IF condition THEN {check} ELSE {}

Tunnels(interfaces) ==
    Selected(interfaces, LAMBDA i : IsTunnel(i) /\ i.ip.range # "linklocal")

\* Whose address is advertised, a tunnel's or one of the LAN.
VpnAbout(interfaces, advertised) ==
    LET tunnels == Tunnels(interfaces)
        on(i) == i.ip = advertised
        own == Selected(tunnels, on)
        lan == Selected(Lans(interfaces), on)
    IN  IF own # <<>> THEN {<<"on", own[1].name>>}
        ELSE {<<tunnels[1].name, IF lan = <<>> THEN "" ELSE lan[1].name>>}

VpnCheck(interfaces, advertised) ==
    When(Tunnels(interfaces) # <<>>,
         Check("vpn-active", VpnAbout(interfaces, advertised)))

MultipleSubnets(interfaces) ==
    LET lan == ToSet(Lans(interfaces))
        subnets == {Network(i) : i \in lan}
    IN  When(Cardinality(subnets) > 1,
             Check("multiple-subnets", {Append(Network(i), i.name) : i \in lan}))

Evaluate(input) ==
    When(Lans(input.interfaces) = <<>>, Check("no-lan-address", {}))
    \cup When(input.lan = "denied", Check("local-network-denied", {}))
    \cup When(~input.ssdp, Check("ssdp-unavailable", {}))
    \cup When(~input.bonjour, Check("bonjour-failed", {}))
    \cup VpnCheck(input.interfaces, input.advertised)
    \cup When(input.exposed # {},
              Check("public-address", {<<addr.fam, addr.net, addr.host>> : addr \in input.exposed}))
    \cup MultipleSubnets(input.interfaces)

OtherIds(before, after) ==   \* mutant of NewChecks: what it says is not compared
    {c \in after : \A b \in before : b.id # c.id}

NewChecks(before, after) == after \ before
=============================================================================
