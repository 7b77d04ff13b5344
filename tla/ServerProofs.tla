---------------------------- MODULE ServerProofs ----------------------------
(***************************************************************************)
(* Theorems about the server from start to exit, for any computers,        *)
(* networks, files and number of probe threads.                            *)
(***************************************************************************)
EXTENDS Server, ListsProofs

-----------------------------------------------------------------------------
(* The checks, of an input whose parts were read on two networks.          *)

(* Which check a tuple is, by its id.                                      *)
LEMMA CheckIds ==
    ASSUME NEW id, NEW about
    PROVE  Check(id, about).id = id
  BY DEF Check

LEMMA VpnId ==
    ASSUME NEW interfaces, NEW advertised,
           NEW c \in VpnCheck(interfaces, advertised)
    PROVE  c.id = "vpn-active"
  BY DEF VpnCheck, When, Check

LEMMA SubnetsId ==
    ASSUME NEW interfaces, NEW c \in MultipleSubnets(interfaces)
    PROVE  c.id = "multiple-subnets"
  BY DEF MultipleSubnets, When, Check

IsIfs(ifs) == ifs \in Seq(ToSet(ifs))

(* What is probed is the gateway of one of the interfaces.                 *)
LEMMA ProbedIsOne ==
    ASSUME NEW ifs, IsIfs(ifs), NEW a, NEW mac,
           ProbedFrom(Interfaces(ifs), a, mac) # <<>>
    PROVE  ProbedFrom(Interfaces(ifs), a, mac)[1] \in ToSet(ifs)
<1> DEFINE T == ToSet(ifs)
           up == Interfaces(ifs)
           lans == Lans(up)
           own == Selected(lans, LAMBDA i : i.ip = a)
           chosen == Chosen(up, a)
<1>1. up \in Seq(T)
  <2> DEFINE K == {k \in DOMAIN ifs : ifs[k].up /\ ifs[k].ip.fam = "v4"}
  <2>1. up = Sublist(ifs, K)
    BY DEF Interfaces, Selected
  <2>2. K \in SUBSET DOMAIN ifs /\ ifs \in Seq(T)
    BY DEF IsIfs
  <2> HIDE DEF K, up, T
  <2> QED
    BY <2>1, <2>2, SublistIs
<1> HIDE DEF T, up
<1>2. lans \in Seq(T)
  <2> DEFINE K == {k \in DOMAIN up : IsLan(up[k])}
  <2>1. lans = Sublist(up, K) /\ K \in SUBSET DOMAIN up
    BY DEF Lans, Selected
  <2> HIDE DEF K, lans
  <2> QED
    BY <1>1, <2>1, SublistIs
<1> HIDE DEF lans
<1>3. own \in Seq(T)
  <2> DEFINE K == {k \in DOMAIN lans : lans[k].ip = a}
  <2>1. own = Sublist(lans, K) /\ K \in SUBSET DOMAIN lans
    BY DEF Selected
  <2> HIDE DEF K, own
  <2> QED
    BY <1>2, <2>1, SublistIs
<1>4. chosen = own \o lans
  BY DEF Chosen, lans
<1> HIDE DEF own, chosen
<1>5. chosen \in Seq(T)
  BY <1>2, <1>3, <1>4
<1>6. /\ chosen # <<>>
      /\ ProbedFrom(up, a, mac) = <<chosen[1]>>
  BY DEF ProbedFrom, up, chosen
<1>7. chosen[1] \in T
  BY <1>5, <1>6
<1>8. ProbedFrom(up, a, mac)[1] = chosen[1]
  BY <1>6
<1> QED
  BY <1>7, <1>8 DEF T, up

LEMMA ChecksAt ==
    ASSUME NEW h \in DOMAIN Hosts, NEW look \in Looks(h)
    PROVE  Checks[h][look] = Evaluate(Gather(h, look))
  BY DEF Checks

LEMMA EvaluateIs ==
    ASSUME NEW input, NEW c
    PROVE  c \in Evaluate(input) <=>
              \/ Lans(input.interfaces) = <<>> /\ c = Check("no-lan-address", {})
              \/ input.lan = "denied" /\ c = Check("local-network-denied", {})
              \/ ~input.ssdp /\ c = Check("ssdp-unavailable", {})
              \/ ~input.bonjour /\ c = Check("bonjour-failed", {})
              \/ c \in VpnCheck(input.interfaces, input.advertised)
              \/ input.exposed # {} /\ c = Check("public-address",
                      {<<e.fam, e.net, e.host>> : e \in input.exposed})
              \/ c \in MultipleSubnets(input.interfaces)
<1> DEFINE seen == {<<e.fam, e.net, e.host>> : e \in input.exposed}
           A1 == When(Lans(input.interfaces) = <<>>, Check("no-lan-address", {}))
           A2 == When(input.lan = "denied", Check("local-network-denied", {}))
           A3 == When(~input.ssdp, Check("ssdp-unavailable", {}))
           A4 == When(~input.bonjour, Check("bonjour-failed", {}))
           A5 == VpnCheck(input.interfaces, input.advertised)
           A6 == When(input.exposed # {}, Check("public-address", seen))
           A7 == MultipleSubnets(input.interfaces)
<1>1. Evaluate(input) = A1 \cup A2 \cup A3 \cup A4 \cup A5 \cup A6 \cup A7
  BY DEF Evaluate
<1> HIDE DEF seen
<1>2. c \in A1 <=> Lans(input.interfaces) = <<>> /\ c = Check("no-lan-address", {})
  BY DEF When
<1>4. c \in A2 <=> input.lan = "denied" /\ c = Check("local-network-denied", {})
  BY DEF When
<1>5. c \in A3 <=> ~input.ssdp /\ c = Check("ssdp-unavailable", {})
  BY DEF When
<1>6. c \in A4 <=> ~input.bonjour /\ c = Check("bonjour-failed", {})
  BY DEF When
<1>7. c \in A6 <=> input.exposed # {} /\ c = Check("public-address", seen)
  BY DEF When
<1>3. c \in Evaluate(input) <=> \/ c \in A1 \/ c \in A2 \/ c \in A3 \/ c \in A4
                                \/ c \in A5 \/ c \in A6 \/ c \in A7
  <2> HIDE DEF A1, A2, A3, A4, A5, A6, A7
  <2> QED
    BY <1>1
<1> HIDE DEF A1, A2, A3, A4, A6
<1> QED
  BY <1>2, <1>3, <1>4, <1>5, <1>6, <1>7 DEF seen

(* A problem that stands on both networks is found by a look that reads    *)
(* the interfaces of one and the public addresses of the other: each check *)
(* rests on one of the two readings, or tells the same of both; but for    *)
(* the one that rests on what the probe came to.                           *)
LEMMA MixedLook ==
    ASSUME NEW h, NEW r, NEW n, NEW a, NEW s, NEW b, NEW b2, NEW c,
           NEW l1, NEW l2, NEW l,
           c \in Evaluate(Gather(h, [read |-> r, lan |-> l1, last |-> r, ip |-> a,
                                    ssdp |-> s, bonjour |-> b])),
           c \in Evaluate(Gather(h, [read |-> n, lan |-> l2, last |-> n, ip |-> a,
                                    ssdp |-> s, bonjour |-> b2])),
           c.id = "local-network-denied" /\ l2 = "denied" => l = "denied"
    PROVE  c \in Evaluate(Gather(h, [read |-> r, lan |-> l, last |-> n, ip |-> a,
                                    ssdp |-> s, bonjour |-> b]))
<1> DEFINE ifs(x) == Interfaces(Nets[x])
           exposed(x) == IF Hosts[h].remote THEN PublicAddresses(Nets[x]) ELSE {}
           seen(x) == {<<e.fam, e.net, e.host>> : e \in exposed(x)}
           In(x, m, y, k) ==
               \/ Lans(ifs(x)) = <<>> /\ c = Check("no-lan-address", {})
               \/ m = "denied" /\ c = Check("local-network-denied", {})
               \/ ~s /\ c = Check("ssdp-unavailable", {})
               \/ ~k /\ c = Check("bonjour-failed", {})
               \/ c \in VpnCheck(ifs(x), a)
               \/ exposed(y) # {} /\ c = Check("public-address", seen(y))
               \/ c \in MultipleSubnets(ifs(x))
<1>1. ASSUME NEW x, NEW m, NEW y, NEW k
      PROVE  c \in Evaluate(Gather(h, [read |-> x, lan |-> m, last |-> y, ip |-> a,
                                      ssdp |-> s, bonjour |-> k])) <=> In(x, m, y, k)
  <2> DEFINE input == Gather(h, [read |-> x, lan |-> m, last |-> y, ip |-> a,
                                 ssdp |-> s, bonjour |-> k])
  <2>1. /\ input.interfaces = ifs(x) /\ input.advertised = a
        /\ input.ssdp = s /\ input.bonjour = k
        /\ input.lan = m /\ input.exposed = exposed(y)
    BY DEF Gather
  <2> HIDE DEF input, ifs, exposed
  <2>2. c \in Evaluate(input) <=> In(x, m, y, k)
    BY <2>1, EvaluateIs, Zenon
  <2> QED
    BY <2>2 DEF input
<1>3. /\ c = Check("no-lan-address", {}) => c.id = "no-lan-address"
      /\ c = Check("local-network-denied", {}) => c.id = "local-network-denied"
      /\ c = Check("ssdp-unavailable", {}) => c.id = "ssdp-unavailable"
      /\ c = Check("bonjour-failed", {}) => c.id = "bonjour-failed"
      /\ \A x : c = Check("public-address", seen(x)) => c.id = "public-address"
      /\ \A x : c \in VpnCheck(ifs(x), a) => c.id = "vpn-active"
      /\ \A x : c \in MultipleSubnets(ifs(x)) => c.id = "multiple-subnets"
  <2> HIDE DEF seen, ifs
  <2> QED
    BY CheckIds, VpnId, SubnetsId
<1>4. In(r, l1, r, b) /\ In(n, l2, n, b2)
  BY <1>1
<1> HIDE DEF ifs, exposed, seen
<1>5. In(r, l, n, b)
  BY <1>3, <1>4
<1> QED
  BY <1>1, <1>5

-----------------------------------------------------------------------------
(* What is told of a check.                                                *)

Ran == {"sampling", "advertising", "settling", "serving", "stopping", "exited"}
Looked == {"serving", "stopping", "exited"}

(* What the server knows of its computer, and of the look under way.       *)
LifeInv ==
    /\ host \in DOMAIN Hosts /\ net \in Host.nets
    /\ pc \in Alive \cup {"binding", "failed", "killed", "exited"}
    /\ ssdpOk \in BOOLEAN
    /\ pc \in Ran => ip \in AddressesOf(host)
    /\ gathered = [net |-> gathered.net, bonjour |-> gathered.bonjour, udp |-> gathered.udp]
    /\ gathered # Nothing => gathered.net \in Host.nets /\ gathered.bonjour \in BOOLEAN

LEMMA LifeInit == Init => LifeInv
  BY DEF Init, LifeInv, Ran, Alive, Starting, Nothing

(* The address that is found is one of an interface that is up.            *)
LEMMA IndexedIp ==
    ASSUME LifeInv, Indexed
    PROVE  ip' \in AddressesOf(host)
<1> DEFINE seen == Interfaces(Nets[net])
           own == {i.ip : i \in {j \in ToSet(seen) : ~IsLoopback(j)}}
<1>1. PICK found \in (IF own = {} THEN {NoIp} ELSE own) :
          ip' = AdvertisedIp(Host.bind, found)
  BY DEF Indexed, Ifs
<1>2. net \in Hosts[host].nets
  BY DEF LifeInv, Host
<1>3. found = NoIp \/ \E i \in ToSet(seen) : found = i.ip
  BY <1>1
<1>4. ip' \in {Hosts[host].bind, Loopback} \/ (ip' = found /\ found # NoIp)
  BY <1>1 DEF AdvertisedIp, Host
<1> HIDE DEF seen
<1>5. ASSUME NEW i \in ToSet(seen)
      PROVE  i \in UNION {ToSet(Interfaces(Nets[n])) : n \in Hosts[host].nets}
  BY <1>2 DEF seen
<1> QED
  BY <1>3, <1>4, <1>5 DEF AddressesOf

LEMMA LifeStep ==
    ASSUME LifeInv, [Next]_vars
    PROVE  LifeInv'
<1> USE DEF LifeInv, Ran, Alive, Starting, Host
<1>1. CASE UNCHANGED vars
  BY <1>1 DEF vars, Nothing
<1>2. CASE StartFails \/ BindHttp \/ Settle \/ ServeEnds
  BY <1>2 DEF StartFails, BindHttp, Settle, ServeEnds, network, monitor, Nothing
<1>3. CASE Indexed
  <2>1. ip' \in AddressesOf(host)
    BY <1>3, IndexedIp
  <2> QED
    BY <1>3, <2>1 DEF Indexed, network, monitor, Nothing, AddressesOf
<1>4. CASE SsdpOpens \/ SsdpParts
  BY <1>4 DEF SsdpOpens, SsdpParts, network, monitor, Nothing
<1>5. CASE Sample
  BY <1>5 DEF Sample, network, monitor, Nothing
<1>6. CASE Advertise
  BY <1>6 DEF Advertise, network, monitor, Nothing
<1>7. CASE OnRegister
  BY <1>7 DEF OnRegister, network, Nothing
<1>8. CASE MonitorGathers
  <2> DEFINE b == BonjourOk(bonjour)
  <2>2. b \in BOOLEAN
    BY DEF BonjourOk
  <2>3. gathered' = [net |-> net, bonjour |-> b, udp |-> ""]
    BY <1>8 DEF MonitorGathers
  <2> HIDE DEF b
  <2>1. /\ gathered'.net \in Host.nets /\ gathered'.bonjour \in BOOLEAN
        /\ gathered' = [net |-> gathered'.net, bonjour |-> gathered'.bonjour,
                        udp |-> gathered'.udp]
    BY <2>2, <2>3
  <2> QED
    BY <1>8, <2>1 DEF MonitorGathers, network
<1>14. CASE MonitorProbes
  <2>1. PICK answer : gathered' = [gathered EXCEPT !.udp = answer]
    BY <1>14 DEF MonitorProbes
  <2>2. gathered' = [net |-> gathered.net, bonjour |-> gathered.bonjour, udp |-> answer]
    BY <2>1
  <2> QED
    BY <1>14, <2>2 DEF MonitorProbes, network
<1>9. CASE MonitorTells
  BY <1>9 DEF MonitorTells, network, Nothing
<1>10. CASE NetworkChanges
  BY <1>10 DEF NetworkChanges, Nothing
<1>11. ASSUME NEW w \in 1 .. Workers, ProbesFile(w) PROVE LifeInv'
  BY <1>11 DEF ProbesFile, network, monitor, Nothing
<1>12. CASE Signal
  BY <1>12 DEF Signal, network, monitor, Nothing
<1>13. CASE CleanUp
  BY <1>13 DEF CleanUp, network, Nothing
<1> QED
  BY <1>1, <1>2, <1>3, <1>4, <1>5, <1>6, <1>7, <1>8, <1>9, <1>10, <1>11, <1>12,
     <1>13, <1>14 DEF Next

(* The gateway a look probes, once the address is known.                   *)
LEMMA GatewayIs ==
    ASSUME LifeInv, pc \in Ran, NEW n \in Host.nets
    PROVE  /\ Gateway(n) = ProbedFrom(Interfaces(Nets[n]), ip, Host.mac)
           /\ Gateway(n) # <<>> => Gateway(n)[1] \in ToSet(Nets[n])
<1>1. host \in DOMAIN Hosts /\ n \in Hosts[host].nets /\ ip \in AddressesOf(host)
  BY DEF LifeInv, Host
<1>2. Gateway(n) = ProbedFrom(Interfaces(Nets[n]), ip, Host.mac)
  BY <1>1 DEF Gateway, Gateways, Host
<1>3. IsIfs(Nets[n])
  BY <1>1, NetsAssumption DEF IsIfs
<1> QED
  BY <1>2, <1>3, ProbedIsOne

(* While nothing changes, the gateway answers as that of its network does. *)
LEMMA AnswersOfNet ==
    ASSUME LifeInv, pc \in Ran, Gateway(net) # <<>>
    PROVE  /\ UdpAnswers(Gateway(net)[1], Ifs) = {Gateway(net)[1].udp}
           /\ TcpAnswers(Gateway(net)[1], Ifs) = {Gateway(net)[1].tcp}
<1> DEFINE from == Gateway(net)[1]
           T == ToSet(Ifs)
<1>1. from \in T
  BY GatewayIs DEF Ifs, LifeInv
<1>2. \A j \in T : from.ip.fam = j.ip.fam /\ from.ip.net = j.ip.net =>
                        from.udp = j.udp /\ from.tcp = j.tcp
  BY <1>1, NetsAssumption DEF LifeInv, Host, Ifs
<1> HIDE DEF from
<1>3. UdpAnswers(from, Ifs) = {from.udp}
  <2> DEFINE own == {i \in T : i.ip = from.ip}
  <2>1. from \in own /\ \A i \in own : i.udp = from.udp
    BY <1>1, <1>2
  <2>2. UdpAnswers(from, Ifs) = IF own = {} THEN {"not bound"} ELSE {i.udp : i \in own}
    BY DEF UdpAnswers
  <2> HIDE DEF own
  <2> QED
    BY <2>1, <2>2
<1>4. TcpAnswers(from, Ifs) = {from.tcp}
  <2> DEFINE near == {i \in T : i.ip.fam = from.ip.fam /\ i.ip.net = from.ip.net}
  <2>1. from \in near /\ \A i \in near : i.tcp = from.tcp
    BY <1>1, <1>2
  <2>2. TcpAnswers(from, Ifs) = IF near = {} THEN {"none", "unreachable"}
                                ELSE {i.tcp : i \in near}
    BY DEF TcpAnswers
  <2> HIDE DEF near
  <2> QED
    BY <2>1, <2>2
<1> QED
  BY <1>3, <1>4 DEF from

(* What a probe comes to is one of three.                                  *)
LEMMA LanIsOneOf ==
    ASSUME NEW n, NEW udp
    PROVE  /\ LanProbe(Gateway(n)) \in {"skipped", "ok", "denied"}
           /\ LanProbes(n, udp) \subseteq {"skipped", "ok", "denied"}
  BY DEF LanProbe, LanProbes, Classify

(* A check that was told and has stood since was in what the monitor found *)
(* last, and stood when the look under way began; and what that has learnt *)
(* of the gateway, where it matters, is what is true of it still.          *)
UdpOf(from) == IF from = <<>> THEN "skipped" ELSE from[1].udp

ToldInv ==
    /\ told # "twice"
    /\ pc \notin Looked => told = "no"
    /\ told = "now" =>
          /\ watched \in latest
          /\ pc # "exited" => watched \in Standing(net, bonjour)
          /\ gathered # Nothing =>
                /\ watched \in FoundOn(gathered.net, gathered.bonjour)
                /\ watched.id = "local-network-denied" =>
                      /\ gathered.net = net
                      /\ gathered.udp \in {"", UdpOf(Gateway(net))}

LEMMA ToldIs ==
    ASSUME told # "twice", NEW printed, NEW n, NEW status,
           ~(watched \in printed /\ told = "now")
    PROVE  /\ Told(printed, n, status) # "twice"
           /\ Told(printed, n, status) = "now" =>
                 /\ watched \in printed \/ told = "now"
                 /\ watched \in Standing(n, status)
           /\ told = "no" /\ watched \notin printed => Told(printed, n, status) = "no"
  BY DEF Told

(* A look is one of the table's.                                           *)
LEMMA FoundIs ==
    ASSUME LifeInv, pc \in Ran, NEW r \in Host.nets, NEW n \in Host.nets,
           NEW l \in {"skipped", "ok", "denied"}, NEW b \in BOOLEAN
    PROVE  Found(r, l, n, b) =
              Evaluate(Gather(host, [read |-> r, lan |-> l, last |-> n, ip |-> ip,
                                     ssdp |-> ssdpOk, bonjour |-> b]))
<1> DEFINE look == [read |-> r, lan |-> l, last |-> n, ip |-> ip,
                    ssdp |-> ssdpOk, bonjour |-> b]
<1>1. look \in Looks(host)
  BY DEF Looks, LifeInv, Host
<1>2. Found(r, l, n, b) = Checks[host][look]
  BY DEF Found
<1> HIDE DEF look
<1> QED
  BY <1>1, <1>2, ChecksAt DEF LifeInv, look

(* Two looks that find a check, and the look between them.                 *)
LEMMA FoundMix ==
    ASSUME LifeInv, pc \in Ran, NEW r \in Host.nets, NEW b \in BOOLEAN, NEW udp,
           watched \in FoundOn(r, b), watched \in Standing(net, bonjour),
           NEW l \in LanProbes(r, udp),
           watched.id = "local-network-denied" =>
              r = net /\ udp = UdpOf(Gateway(net))
    PROVE  watched \in Found(r, l, net, b)
<1> DEFINE c == BonjourOk(bonjour)
           l1 == LanProbe(Gateway(r))
           l2 == LanProbe(Gateway(net))
           look(x, m, y, k) == [read |-> x, lan |-> m, last |-> y, ip |-> ip,
                                ssdp |-> ssdpOk, bonjour |-> k]
           Saw(x, m, y, k) == Evaluate(Gather(host, look(x, m, y, k)))
<1>1. c \in BOOLEAN /\ net \in Host.nets
  BY DEF BonjourOk, LifeInv
<1>2. {l1, l2, l} \subseteq {"skipped", "ok", "denied"}
  BY LanIsOneOf
<1>3. watched.id = "local-network-denied" /\ l2 = "denied" => l = "denied"
  <2> SUFFICES ASSUME watched.id = "local-network-denied", l2 = "denied"
               PROVE  l = "denied"
    OBVIOUS
  <2>1. Gateway(net) # <<>> /\ Classify(Gateway(net)[1].udp, Gateway(net)[1].tcp) = "denied"
    BY DEF LanProbe
  <2>2. l \in {Classify(udp, tcp) : tcp \in TcpAnswers(Gateway(net)[1], Ifs)}
    BY <2>1 DEF LanProbes
  <2>3. TcpAnswers(Gateway(net)[1], Ifs) = {Gateway(net)[1].tcp}
    BY <2>1, AnswersOfNet
  <2>4. udp = Gateway(net)[1].udp
    BY <2>1 DEF UdpOf
  <2> QED
    BY <2>1, <2>2, <2>3, <2>4
<1> HIDE DEF c, l1, l2
<1>4. watched \in Saw(r, l1, r, b) /\ watched \in Saw(net, l2, net, c)
  <2>1. FoundOn(r, b) = Found(r, l1, r, b) /\ Standing(net, bonjour) = Found(net, l2, net, c)
    BY DEF FoundOn, Standing, l1, l2, c
  <2>2. Found(r, l1, r, b) = Saw(r, l1, r, b)
    BY <1>2, FoundIs
  <2>3. Found(net, l2, net, c) = Saw(net, l2, net, c)
    BY <1>1, <1>2, FoundIs
  <2> QED
    BY <2>1, <2>2, <2>3
<1>5. watched \in Saw(r, l, net, b)
  BY <1>3, <1>4, MixedLook
<1>6. Found(r, l, net, b) = Saw(r, l, net, b)
  BY <1>1, <1>2, FoundIs
<1> QED
  BY <1>5, <1>6

LEMMA ToldStep ==
    ASSUME LifeInv, ToldInv, [Next]_vars
    PROVE  ToldInv'
<1>1. ASSUME UNCHANGED <<host, ip, ssdpOk, net, bonjour, gathered, latest,
                         watched, told>>,
             pc' \notin Looked => pc \notin Looked, pc = "exited" => pc' = "exited"
      PROVE  ToldInv'
  BY <1>1 DEF ToldInv, Standing, FoundOn, Found, Gateway, UdpOf
<1>2. CASE told' = told /\ pc \notin Looked
  BY <1>2 DEF ToldInv
<1>3. CASE UNCHANGED vars
  BY <1>1, <1>3 DEF vars
<1>4. CASE StartFails \/ BindHttp \/ Indexed \/ Sample \/ Advertise \/ Settle
  BY <1>2, <1>4 DEF StartFails, BindHttp, Indexed, Sample, Advertise, Settle,
     monitor, Looked
<1>5. CASE SsdpOpens
  BY <1>1, <1>5 DEF SsdpOpens, monitor, network
<1>6. CASE SsdpParts
  BY <1>1, <1>6 DEF SsdpParts, monitor, network
<1>7. CASE ServeEnds
  BY <1>1, <1>7 DEF ServeEnds, monitor, network, Looked
<1>8. CASE Signal
  <2>1. CASE pc \in Starting \cup {"binding"}
    BY <1>2, <1>8, <2>1 DEF Signal, monitor, Looked, Starting
  <2>2. CASE pc = "serving" /\ pc' = "stopping"
    BY <1>1, <1>8, <2>2 DEF Signal, monitor, network, Looked
  <2> QED
    BY <1>8, <2>1, <2>2 DEF Signal
<1>9. ASSUME NEW w \in 1 .. Workers, ProbesFile(w) PROVE ToldInv'
  BY <1>1, <1>9 DEF ProbesFile, monitor, network
<1>10. CASE OnRegister
  <2>7. told # "twice"
    BY DEF ToldInv
  <2>1. /\ told' = Told({}, net, bonjour') /\ pc \in Alive
        /\ UNCHANGED <<host, pc, ip, ssdpOk, net, gathered, latest, watched>>
    BY <1>10 DEF OnRegister, network
  <2>2. /\ told' # "twice"
        /\ told' = "now" => told = "now" /\ watched \in Standing(net, bonjour')
        /\ told = "no" => told' = "no"
    BY <2>1, <2>7, ToldIs
  <2> QED
    BY <2>1, <2>2 DEF ToldInv, Standing, FoundOn, Found, Gateway, UdpOf
<1>11. CASE NetworkChanges
  <2>7. told # "twice"
    BY DEF ToldInv
  <2>1. /\ told' = IF ProbeUnsettled /\ told = "now" THEN "before"
                   ELSE Told({}, net', bonjour)
        /\ pc \in Alive
        /\ UNCHANGED <<host, pc, ip, ssdpOk, bonjour, gathered, latest, watched>>
    BY <1>11 DEF NetworkChanges
  <2>2. /\ told' # "twice"
        /\ told' = "now" => /\ told = "now" /\ watched \in Standing(net', bonjour)
                            /\ ~ProbeUnsettled
        /\ told = "no" => told' = "no"
    BY <2>1, <2>7, ToldIs
  <2>3. FoundOn(gathered.net, gathered.bonjour)' = FoundOn(gathered.net, gathered.bonjour)
    BY <2>1 DEF FoundOn, Found, Gateway
  <2>4. Standing(net, bonjour)' = Standing(net', bonjour)
    BY <2>1 DEF Standing, FoundOn, Found, Gateway
  <2> QED
    BY <2>1, <2>2, <2>3, <2>4 DEF ToldInv, ProbeUnsettled
<1>12. CASE MonitorGathers
  <2>1. /\ gathered' = [net |-> net, bonjour |-> BonjourOk(bonjour), udp |-> ""]
        /\ pc \in {"serving", "stopping"}
        /\ UNCHANGED <<host, pc, ip, ssdpOk, net, bonjour, latest, watched, told>>
    BY <1>12 DEF MonitorGathers, network
  <2>2. told = "now" => watched \in FoundOn(net, BonjourOk(bonjour))
    BY <2>1 DEF ToldInv, Standing
  <2>3. FoundOn(net, BonjourOk(bonjour))' = FoundOn(net, BonjourOk(bonjour))
    BY <2>1 DEF FoundOn, Found, Gateway, BonjourOk
  <2>4. /\ gathered'.net = net' /\ gathered'.udp = ""
        /\ gathered'.bonjour = BonjourOk(bonjour)'
    BY <2>1 DEF BonjourOk
  <2>5. FoundOn(gathered.net, gathered.bonjour)' = FoundOn(net, BonjourOk(bonjour))
    BY <2>3, <2>4 DEF FoundOn, Found, Gateway
  <2>6. Standing(net, bonjour)' = Standing(net, bonjour)
    BY <2>3 DEF Standing
  <2> QED
    BY <2>1, <2>2, <2>4, <2>5, <2>6 DEF ToldInv
<1>15. CASE MonitorProbes
  <2>1. /\ pc \in {"serving", "stopping"} /\ gathered # Nothing
        /\ UNCHANGED <<host, pc, ip, ssdpOk, net, bonjour, latest, watched, told>>
    BY <1>15 DEF MonitorProbes, network
  <2>2. PICK answer \in (IF Gateway(gathered.net) = <<>> THEN {"skipped"}
                         ELSE UdpAnswers(Gateway(gathered.net)[1], Ifs)) :
            gathered' = [gathered EXCEPT !.udp = answer]
    BY <1>15 DEF MonitorProbes
  <2>3. gathered' = [net |-> gathered.net, bonjour |-> gathered.bonjour, udp |-> answer]
    BY <2>2 DEF LifeInv
  <2>4. gathered.net = net => answer = UdpOf(Gateway(net))
    BY <2>1, <2>2, AnswersOfNet DEF UdpOf, Ran
  <2>5. FoundOn(gathered.net, gathered.bonjour)' = FoundOn(gathered.net, gathered.bonjour)
    BY <2>1, <2>3 DEF FoundOn, Found, Gateway
  <2>6. /\ Standing(net, bonjour)' = Standing(net, bonjour)
        /\ UdpOf(Gateway(net))' = UdpOf(Gateway(net))
    BY <2>1 DEF Standing, FoundOn, Found, Gateway, UdpOf
  <2>7. gathered'.net = gathered.net /\ gathered'.udp = answer
    BY <2>3
  <2> QED
    BY <2>1, <2>4, <2>5, <2>6, <2>7 DEF ToldInv
<1>13. CASE MonitorTells
  <2>1. /\ gathered' = Nothing /\ gathered # Nothing /\ gathered.udp # ""
        /\ told' = Told(NewChecks(latest, latest'), net, bonjour)
        /\ pc \in {"serving", "stopping"}
        /\ UNCHANGED <<host, pc, ip, ssdpOk, net, bonjour, watched>>
    BY <1>13 DEF MonitorTells, network
  <2>5. PICK lan \in LanProbes(gathered.net, gathered.udp) :
            latest' = Found(gathered.net, lan, net, gathered.bonjour)
    BY <1>13 DEF MonitorTells
  <2>2. told = "now" => watched \in latest'
    <3> SUFFICES ASSUME told = "now" PROVE watched \in latest'
      OBVIOUS
    <3>1. /\ watched \in Standing(net, bonjour)
          /\ watched \in FoundOn(gathered.net, gathered.bonjour)
          /\ watched.id = "local-network-denied" =>
                gathered.net = net /\ gathered.udp = UdpOf(Gateway(net))
      BY <2>1 DEF ToldInv
    <3>2. gathered.net \in Host.nets /\ gathered.bonjour \in BOOLEAN /\ pc \in Ran
      BY <2>1 DEF LifeInv, Ran
    <3> QED
      BY <2>5, <3>1, <3>2, FoundMix
  <2>3. /\ told = "now" => watched \notin NewChecks(latest, latest')
        /\ watched \in NewChecks(latest, latest') => watched \in latest'
    BY <2>1 DEF NewChecks, ToldInv
  <2>4. /\ told' # "twice"
        /\ told' = "now" => watched \in latest' /\ watched \in Standing(net, bonjour)
    BY <2>1, <2>2, <2>3, ToldIs DEF ToldInv
  <2>6. Standing(net, bonjour)' = Standing(net, bonjour)
    BY <2>1 DEF Standing, FoundOn, Found, Gateway
  <2> QED
    BY <2>1, <2>4, <2>6 DEF ToldInv, Looked
<1>14. CASE CleanUp
  BY <1>14 DEF CleanUp, network, ToldInv, Looked, Nothing
<1> QED
  BY <1>3, <1>4, <1>5, <1>6, <1>7, <1>8, <1>9, <1>10, <1>11, <1>12, <1>13,
     <1>14, <1>15 DEF Next

(* "Checks in `after` that were not in `before`": a problem that was told  *)
(* is not told again while it stays, whatever else changes and however the *)
(* network moves while the monitor looks; but for the denied gateway when  *)
(* the network moves under the probe, as said at ProbeUnsettled (the       *)
(* safety half of ProblemsToldOnce).                                       *)
THEOREM NeverToldTwice == Spec => [](told # "twice")
<1>1. Init => ToldInv
  BY DEF Init, ToldInv, Looked
<1>2. ToldInv => told # "twice"
  BY DEF ToldInv
<1> QED
  BY <1>1, <1>2, LifeInit, LifeStep, ToldStep, PTL DEF Spec

-----------------------------------------------------------------------------
(* The end.                                                                *)

\* What the way down leaves: SSDP parted, or never started.
ExitInv == pc = "exited" => ssdp \in {"failed", "parted"} /\ bonjour = "none"

(* The server does not exit before SSDP has sent its byebyes and the       *)
(* responder has withdrawn the service, whichever branch of the select     *)
(* ended it and whatever came between (the safety half of CleanExit).      *)
THEOREM PartedBeforeExit ==
    Spec => [](pc = "exited" => ssdp # "announcing" /\ bonjour = "none")
<1>1. Init => ExitInv
  BY DEF Init, ExitInv
<1>2. ASSUME ExitInv, [Next]_vars PROVE ExitInv'
  <2> USE <1>2 DEF ExitInv
  <2>1. CASE UNCHANGED vars
    BY <2>1 DEF vars
  <2>2. CASE pc' # "exited"
    BY <2>2
  <2>3. CASE SsdpOpens \/ SsdpParts \/ OnRegister
    BY <2>3 DEF SsdpOpens, SsdpParts, OnRegister, Alive, Starting
  <2>4. CASE StartFails \/ BindHttp \/ Indexed \/ Sample \/ Advertise \/ Settle
             \/ ServeEnds \/ Signal
    BY <2>4 DEF StartFails, BindHttp, Indexed, Sample, Advertise, Settle, ServeEnds,
       Signal
  <2>5. CASE MonitorGathers \/ MonitorProbes \/ MonitorTells
    BY <2>5 DEF MonitorGathers, MonitorProbes, MonitorTells
  <2>6. CASE NetworkChanges \/ \E w \in 1 .. Workers : ProbesFile(w)
    BY <2>6 DEF NetworkChanges, ProbesFile
  <2>7. CASE CleanUp
    BY <2>7 DEF CleanUp, SsdpAwaited
  <2> QED
    BY <2>1, <2>3, <2>4, <2>5, <2>6, <2>7 DEF Next
<1>3. ExitInv => (pc = "exited" => ssdp # "announcing" /\ bonjour = "none")
  BY DEF ExitInv
<1> QED
  BY <1>1, <1>2, <1>3, PTL DEF Spec

-----------------------------------------------------------------------------
(* The slots of the probe threads.                                         *)

(* The files a chunk is of: the m-th starts after m whole ones.            *)
LEMMA ChunkBounds ==
    ASSUME NEW k \in Nat \ {0}, NEW m \in Nat, NEW C \in Nat \ {0}
    PROVE  (k - 1) \div C = m <=> m * C < k /\ k <= m * C + C
<1> DEFINE q == (k - 1) \div C
           r == (k - 1) % C
<1>1. q \in Nat /\ r \in 0 .. C - 1 /\ k - 1 = C * q + r
  BY SMT
<1> HIDE DEF q, r
<1>2. CASE q = m
  BY <1>1, <1>2
<1>3. CASE q > m
  <2>1. C * (q - m) >= C
    BY <1>1, <1>3
  <2>2. C * q = C * (q - m) + m * C
    BY <1>1
  <2>3. C * q >= m * C + C
    BY <1>1, <2>1, <2>2
  <2> QED
    BY <1>1, <1>3, <2>3
<1>4. CASE q < m
  <2>1. C * (m - q) >= C
    BY <1>1, <1>4
  <2>2. m * C = C * (m - q) + C * q
    BY <1>1
  <2>3. C * q + C <= m * C
    BY <1>1, <2>1, <2>2
  <2> QED
    BY <1>1, <1>4, <2>3
<1> QED
  BY <1>1, <1>2, <1>3, <1>4 DEF q

LEMMA CeilingPositive ==
    ASSUME NEW n \in Nat \ {0}, NEW W \in Nat \ {0}
    PROVE  (n + W - 1) \div W \in Nat \ {0}
<1> DEFINE q == (n + W - 1) \div W
           r == (n + W - 1) % W
<1>1. q \in Nat /\ r \in 0 .. W - 1 /\ n + W - 1 = (W * q) + r
  BY SMT
<1> HIDE DEF q, r
<1>2. q # 0
  BY <1>1
<1> QED
  BY <1>1, <1>2 DEF q

(* The slot a thread fills is that of the file it has come to.             *)
LEMMA SlotOfFile ==
    ASSUME LifeInv, NEW w \in 1 .. Workers, NEW k \in Chunk(w)
    PROVE  StartOf(w) + Cardinality({j \in Chunk(w) : j < k}) + 1 = k
<1> DEFINE n == Len(Files)
           C == ChunkLen
           m == w - 1
           low == m * C
<1>1. n \in Nat /\ DOMAIN Files = 1 .. n
  BY HostsAssumption DEF LifeInv, Files, Host
<1>2. k \in 1 .. n /\ (k - 1) \div C = m
  BY <1>1 DEF Chunk
<1>3. Workers \in Nat \ {0}
  BY <1>1, <1>2, ServerAssumption DEF Workers
<1>4. C \in Nat \ {0}
  <2>1. C = (n + Workers - 1) \div Workers
    BY DEF ChunkLen
  <2>2. n \in Nat \ {0}
    BY <1>1, <1>2
  <2> HIDE DEF n, C
  <2> QED
    BY <1>3, <2>1, <2>2, CeilingPositive
<1>5. w \in Nat \ {0} /\ m \in Nat
  BY <1>3
<1> HIDE DEF n, C, m
<1>6. low \in Nat
  BY <1>4, <1>5
<1>7. low < k /\ k <= low + C
  BY <1>2, <1>4, <1>5, ChunkBounds
<1>8. {j \in Chunk(w) : j < k} = low + 1 .. k - 1
  <2>1. Chunk(w) = {j \in 1 .. n : (j - 1) \div C = m}
    BY <1>1 DEF Chunk, C, m
  <2>2. ASSUME NEW j \in 1 .. n
        PROVE  (j - 1) \div C = m <=> low < j /\ j <= low + C
    BY <1>1, <1>4, <1>5, ChunkBounds
  <2> HIDE DEF low
  <2>3. ASSUME NEW j PROVE j \in Chunk(w) /\ j < k <=> j \in low + 1 .. k - 1
    BY <1>1, <1>2, <1>4, <1>6, <1>7, <2>1, <2>2, SMTT(30)
  <2> QED
    BY <2>3
<1>9. StartOf(w) = low
  BY DEF StartOf, C, m
<1> HIDE DEF low
<1>10. Cardinality(low + 1 .. k - 1) = k - 1 - low
  <2>1. low + 1 \in Int /\ k - 1 \in Int
    BY <1>1, <1>2, <1>6
  <2>2. Cardinality(low + 1 .. k - 1) =
            IF low + 1 > k - 1 THEN 0 ELSE (k - 1) - (low + 1) + 1
    BY <2>1, FS_Interval
  <2> QED
    BY <1>1, <1>2, <1>6, <1>7, <2>2
<1>11. low + (k - 1 - low) + 1 = k
  BY <1>2, <1>6
<1> QED
  BY <1>8, <1>9, <1>10, <1>11

\* A slot holds nothing yet or what probing its own file comes to.
OwnFields ==
    /\ DOMAIN slots = DOMAIN Files
    /\ \A k \in DOMAIN Files :
          slots[k] # NoFields => slots[k] = Probed[host][k].fields

LEMMA ProbesFileIs ==
    ASSUME LifeInv, NEW w \in 1 .. Workers, ProbesFile(w)
    PROVE  /\ host' = host
           /\ \/ slots' = slots
              \/ \E k \in DOMAIN Files :
                    slots' = [slots EXCEPT ![k] = Probed[host][k].fields]
<1>1. PICK k \in Chunk(w) :
          /\ at[w] = Cardinality({j \in Chunk(w) : j < k})
          /\ \/ slots' = slots
             \/ slots' = [slots EXCEPT ![StartOf(w) + at[w] + 1] = Probed[host][k].fields]
  BY DEF ProbesFile
<1>2. StartOf(w) + at[w] + 1 = k
  BY <1>1, SlotOfFile
<1>3. host' = host
  BY DEF ProbesFile
<1>4. k \in DOMAIN Files
  BY DEF Chunk
<1> QED
  BY <1>1, <1>2, <1>3, <1>4

(* Though the threads fill the slots in any order, no file is shown        *)
(* another one's duration, size or profile, with any number of files and   *)
(* threads, and any of them that panic.                                    *)
THEOREM SlotsAreTheirOwn == Spec => []OwnFields
<1>1. Init => OwnFields
  BY DEF Init, OwnFields
<1>2. ASSUME LifeInv, OwnFields, [Next]_vars PROVE OwnFields'
  <2>1. CASE UNCHANGED <<host, slots>>
    BY <1>2, <2>1 DEF OwnFields, Files, Host
  <2>2. ASSUME NEW w \in 1 .. Workers, ProbesFile(w) PROVE OwnFields'
    BY <1>2, <2>1, <2>2, ProbesFileIs DEF OwnFields, Files, Host
  <2>3. CASE UNCHANGED vars
    BY <2>1, <2>3 DEF vars
  <2>4. CASE \/ StartFails \/ BindHttp \/ Indexed \/ Sample \/ Advertise \/ Settle
             \/ SsdpOpens \/ SsdpParts \/ ServeEnds \/ Signal
    BY <2>1, <2>4 DEF StartFails, BindHttp, Indexed, Sample, Advertise, Settle,
       SsdpOpens, SsdpParts, ServeEnds, Signal, probes
  <2>5. CASE OnRegister \/ NetworkChanges \/ CleanUp
    BY <2>1, <2>5 DEF OnRegister, NetworkChanges, CleanUp, probes
  <2>6. CASE MonitorGathers
    BY <2>1, <2>6 DEF MonitorGathers, probes
  <2>7. CASE MonitorProbes
    BY <2>1, <2>7 DEF MonitorProbes, probes
  <2>8. CASE MonitorTells
    BY <2>1, <2>8 DEF MonitorTells, probes
  <2> QED
    BY <1>2, <2>2, <2>3, <2>4, <2>5, <2>6, <2>7, <2>8 DEF Next
<1> QED
  BY <1>1, <1>2, LifeInit, LifeStep, PTL DEF Spec

-----------------------------------------------------------------------------
(* The profiles.                                                           *)

\* What a profile promises was found in the file, or nothing was that denies it.
PromisesWhatIsFound(name, ext, info) ==
    /\ name \in AvcProfiles => info.video = "avc"
    /\ name \in AacProfiles => info.audio \in {"", "aac"}
    /\ name \in Ac3Profiles => info.audio \in {"", "ac3"}
    /\ name \in AacProfiles \cup Ac3Profiles =>
          \/ info.video = "avc" /\ ext # "aac"
          \/ name \in {"AAC_ADTS_320", "AAC_ISO"} /\ ext \in {"aac", "m4a"}

(* A profile that promises H.264 is of a file in which it was found; one   *)
(* that promises AAC or AC3, of a file in which no other audio was.        *)
LEMMA ProfileIsOfWhatIsFound ==
    ASSUME NEW ext, NEW info
    PROVE  /\ PromisesWhatIsFound("", ext, info)
           /\ PromisesWhatIsFound(DlnaOrgPnFor(ext, info), ext, info)
<1> DEFINE pn == CASE info.video = "avc" -> AvcProfile(ext, info.height)
                   [] info.video = "" -> DlnaOrgPn(ext)
                   [] OTHER -> ""
<1>1. DlnaOrgPnFor(ext, info) = IF PnMatchesAudio(pn, info.audio) THEN pn ELSE ""
  BY DEF DlnaOrgPnFor
<1>2. \/ info.video = "avc"
      \/ info.video # "avc" /\ pn = DlnaOrgPn(ext)
      \/ info.video # "avc" /\ pn = ""
  OBVIOUS
<1>3. DlnaOrgPn(ext) \in {"MP3", "FLAC", "LPCM", "AAC_ADTS_320", "AAC_ISO", "JPEG_LRG",
                          "PNG_LRG", ""}
  BY DEF DlnaOrgPn
<1>8. info.video = "avc" => pn = AvcProfile(ext, info.height)
  OBVIOUS
<1>9. ext = "aac" => AvcProfile(ext, info.height) = ""
  BY DEF AvcProfile
<1>4. DlnaOrgPn(ext) \in {"AAC_ADTS_320", "AAC_ISO"} => ext \in {"aac", "m4a"}
  BY DEF DlnaOrgPn
<1> HIDE DEF pn
<1>5. PnMatchesAudio(pn, info.audio) =>
          /\ pn \in AacProfiles => info.audio \in {"", "aac"}
          /\ pn \in Ac3Profiles => info.audio \in {"", "ac3"}
  BY DEF PnMatchesAudio, AacProfiles, Ac3Profiles, AvcMp4Profiles
<1>6. "" \notin AvcProfiles \cup AacProfiles \cup Ac3Profiles
  BY DEF AvcProfiles, AacProfiles, Ac3Profiles, AvcMp4Profiles
<1>7. info.video # "avc" =>
          /\ pn \notin AvcProfiles
          /\ pn \in AacProfiles \cup Ac3Profiles =>
                pn \in {"AAC_ADTS_320", "AAC_ISO"} /\ ext \in {"aac", "m4a"}
  BY <1>2, <1>3, <1>4 DEF AvcProfiles, AacProfiles, Ac3Profiles, AvcMp4Profiles
<1>10. ext = "aac" /\ info.video = "avc" => pn = ""
  BY <1>8, <1>9
<1>11. PromisesWhatIsFound(pn, ext, info) \/ ~PnMatchesAudio(pn, info.audio)
  BY <1>5, <1>6, <1>7, <1>10 DEF PromisesWhatIsFound
<1>12. PromisesWhatIsFound("", ext, info)
  BY <1>6 DEF PromisesWhatIsFound
<1> QED
  BY <1>1, <1>11, <1>12

\* What the parsers say of each file's codecs is so, and where they name no
\* audio, nothing is known of it or it is what the extension promises.
ParsersRight ==
    \A h \in DOMAIN Hosts : \A k \in DOMAIN Hosts[h].files :
        LET file == Hosts[h].files[k]
            info == ProbeMedia(file)
        IN  /\ info.video = "avc" => "avc" \in file.videos
            /\ info.audio # "" => info.audio \in file.audios
            /\ info.audio = "" =>
                  \/ file.audios = {}
                  \/ file.ext = "aac" /\ "aac" \in file.audios
                  \/ file.ext \notin {"aac", "m4a"} /\ info.video # "avc"

(* Browse shows each file its own fields, and no profile that promises a   *)
(* codec the file does not have, where the parsers are right about codecs: *)
(* the choice of the profile and the threads add no error of their own.    *)
THEOREM WhatIsAdvertisedIsTrueHolds ==
    ASSUME ParsersRight
    PROVE  Spec => []WhatIsAdvertisedIsTrue
<1>1. LifeInv /\ OwnFields => WhatIsAdvertisedIsTrue
  <2> SUFFICES ASSUME LifeInv, OwnFields, NEW k \in DOMAIN Files
               PROVE  LET pn == slots[k].pn
                          file == Files[k]
                      IN  /\ slots[k] # NoFields => slots[k] = Probed[host][k].fields
                          /\ pn \in AvcProfiles => "avc" \in file.videos
                          /\ pn \in AacProfiles /\ file.audios # {} => "aac" \in file.audios
                          /\ pn \in Ac3Profiles /\ file.audios # {} => "ac3" \in file.audios
    BY DEF WhatIsAdvertisedIsTrue
  <2> DEFINE file == Files[k]
             info == ProbeMedia(file)
             pn == slots[k].pn
  <2>1. slots[k] # NoFields => slots[k] = ProbeFields(file)
    BY DEF OwnFields, LifeInv, Probed, Files, Host
  <2>2. pn = "" \/ pn = DlnaOrgPnFor(file.ext, info)
    <3>1. ProbeFields(file).pn = DlnaOrgPnFor(file.ext, info)
      BY DEF ProbeFields
    <3>2. NoFields.pn = ""
      BY DEF NoFields
    <3> QED
      BY <2>1, <3>1, <3>2
  <2>3. /\ info.video = "avc" => "avc" \in file.videos
        /\ info.audio # "" => info.audio \in file.audios
        /\ info.audio = "" =>
              \/ file.audios = {}
              \/ file.ext = "aac" /\ "aac" \in file.audios
              \/ file.ext \notin {"aac", "m4a"} /\ info.video # "avc"
    BY DEF ParsersRight, LifeInv, Files, Host
  <2>6. /\ pn \in AvcProfiles => info.video = "avc"
        /\ pn \in AacProfiles => info.audio \in {"", "aac"}
        /\ pn \in Ac3Profiles => info.audio \in {"", "ac3"}
        /\ pn \in AacProfiles \cup Ac3Profiles =>
              \/ info.video = "avc" /\ file.ext # "aac"
              \/ pn \in {"AAC_ADTS_320", "AAC_ISO"} /\ file.ext \in {"aac", "m4a"}
    <3>1. PromisesWhatIsFound(pn, file.ext, info)
      <4>1. /\ PromisesWhatIsFound("", file.ext, info)
            /\ PromisesWhatIsFound(DlnaOrgPnFor(file.ext, info), file.ext, info)
        BY ProfileIsOfWhatIsFound
      <4> HIDE DEF file, info, pn
      <4> QED
        BY <2>2, <4>1
    <3> HIDE DEF file, info, pn
    <3> QED
      BY <3>1 DEF PromisesWhatIsFound
  <2>7. slots[k] # NoFields => slots[k] = Probed[host][k].fields
    BY DEF OwnFields
  <2>8. pn \in Ac3Profiles => pn \notin {"AAC_ADTS_320", "AAC_ISO"}
    BY DEF Ac3Profiles
  <2> HIDE DEF file, info, pn
  <2>9. pn \in AacProfiles /\ file.audios # {} => "aac" \in file.audios
    BY <2>3, <2>6
  <2>10. pn \in Ac3Profiles /\ file.audios # {} => "ac3" \in file.audios
    BY <2>3, <2>6, <2>8
  <2> QED
    BY <2>3, <2>6, <2>7, <2>9, <2>10 DEF file, pn
<1> QED
  BY <1>1, SlotsAreTheirOwn, LifeInit, LifeStep, PTL DEF Spec

-----------------------------------------------------------------------------
(* Where searchers are sent.                                               *)

LEMMA FirstIs ==
    ASSUME NEW K \in SUBSET Nat, K # {}
    PROVE  First(K) \in K /\ \A k \in K : First(K) <= k
  BY Least DEF First

LEMMA Positions ==
    ASSUME NEW ifs, IsIfs(ifs), NEW K \in SUBSET DOMAIN ifs, K # {}
    PROVE  First(K) \in K /\ ifs[First(K)] \in ToSet(ifs)
<1>1. DOMAIN ifs = 1 .. Len(ifs) /\ Len(ifs) \in Nat
  BY DEF IsIfs
<1>2. K \in SUBSET Nat
  BY <1>1
<1>3. First(K) \in K
  BY <1>2, FirstIs
<1> QED
  BY <1>3 DEF ToSet

MatchesPeer(i, peer) ==
    /\ i.ip.fam = peer.fam /\ Usable(i) /\ i.mask # "any"
    /\ Masked(i.ip, peer, i.mask)

(* local_ip_for_peer is an address that matches, if there is one.          *)
LEMMA LocalIpIs ==
    ASSUME NEW ifs, IsIfs(ifs), NEW peer
    PROVE  \/ /\ LocalIpForPeer(peer, ifs) = NoIp
              /\ \A i \in ToSet(ifs) : ~MatchesPeer(i, peer)
           \/ \E i \in ToSet(ifs) :
                 MatchesPeer(i, peer) /\ LocalIpForPeer(peer, ifs) = i.ip
<1> DEFINE K == {k \in DOMAIN ifs : MatchesPeer(ifs[k], peer)}
<1>1. LocalIpForPeer(peer, ifs) = IF K = {} THEN NoIp ELSE ifs[First(K)].ip
  BY DEF LocalIpForPeer, FirstOr, MatchesPeer
<1>2. CASE K = {}
  BY <1>1, <1>2 DEF ToSet
<1>3. CASE K # {}
  <2>1. First(K) \in K /\ ifs[First(K)] \in ToSet(ifs)
    BY <1>3, Positions
  <2> QED
    BY <1>1, <1>3, <2>1
<1> QED
  BY <1>2, <1>3

LEMMA FirstIpv4Is ==
    ASSUME NEW ifs, IsIfs(ifs)
    PROVE  \/ /\ FirstIpv4(ifs) = NoIp
              /\ \A i \in ToSet(ifs) : ~(i.ip.fam = "v4" /\ ~IsLoopback(i))
           \/ FirstIpv4(ifs).fam = "v4"
<1> DEFINE K == {k \in DOMAIN ifs : ifs[k].ip.fam = "v4" /\ ~IsLoopback(ifs[k])}
<1>1. FirstIpv4(ifs) = IF K = {} THEN NoIp ELSE ifs[First(K)].ip
  BY DEF FirstIpv4, FirstOr
<1>2. CASE K = {}
  BY <1>1, <1>2 DEF ToSet
<1>3. CASE K # {}
  <2>1. First(K) \in K
    BY <1>3, Positions
  <2> QED
    BY <1>1, <1>3, <2>1
<1> QED
  BY <1>2, <1>3

LEMMA AdvertisedIpv6Is ==
    ASSUME NEW ifs, IsIfs(ifs)
    PROVE  \/ /\ AdvertisedIpv6(ifs) = NoIp
              /\ \A i \in ToSet(ifs) : ~(i.ip.fam = "v6" /\ Usable(i))
           \/ AdvertisedIpv6(ifs).fam = "v6"
<1> DEFINE K == {k \in DOMAIN ifs : ifs[k].ip.fam = "v6" /\ Usable(ifs[k])}
<1>1. AdvertisedIpv6(ifs) = IF K = {} THEN NoIp ELSE ifs[First(K)].ip
  BY DEF AdvertisedIpv6, FirstOr
<1>2. CASE K = {}
  BY <1>1, <1>2 DEF ToSet
<1>3. CASE K # {}
  <2>1. First(K) \in K
    BY <1>3, Positions
  <2> QED
    BY <1>1, <1>3, <2>1
<1> QED
  BY <1>2, <1>3

(* Whichever family is asked for, it is one HTTP accepts if there is any.  *)
LEMMA LocationIpServed ==
    ASSUME NEW ifs, IsIfs(ifs), NEW cfg, NEW wantV6 \in BOOLEAN,
           NEW i \in ToSet(ifs), i.ip.fam \in {"v4", "v6"},
           i.ip.fam \in cfg.http, Usable(i)
    PROVE  LocationIpForFamily(wantV6, cfg, ifs).fam \in cfg.http
<1> DEFINE v6 == IF "v6" \in cfg.http THEN AdvertisedIpv6(ifs) ELSE NoIp
           v4 == IF "v4" \notin cfg.http THEN NoIp
                 ELSE IF cfg.ip.fam = "v4" THEN cfg.ip ELSE FirstIpv4(ifs)
           order == (IF wantV6 THEN <<v6>> ELSE <<>>) \o <<v4, v6>>
           K == {k \in DOMAIN order : order[k] # NoIp}
<1>1. LocationIpForFamily(wantV6, cfg, ifs) =
         IF K = {} THEN cfg.ip ELSE order[First(K)]
  BY DEF LocationIpForFamily, FirstOr
<1>2. NoIp.fam = "none"
  BY DEF NoIp
<1>3. /\ v6 = NoIp \/ (v6.fam = "v6" /\ "v6" \in cfg.http)
      /\ v4 = NoIp \/ (v4.fam = "v4" /\ "v4" \in cfg.http)
  BY FirstIpv4Is, AdvertisedIpv6Is
<1>4. v4 # NoIp \/ v6 # NoIp
  <2>1. CASE i.ip.fam = "v6"
    BY <1>2, <2>1, AdvertisedIpv6Is
  <2>2. CASE i.ip.fam = "v4"
    BY <1>2, <2>2, FirstIpv4Is DEF Usable, IsLoopback
  <2> QED
    BY <2>1, <2>2
<1> HIDE DEF v4, v6
<1>5. /\ DOMAIN order \in SUBSET Nat
      /\ \A k \in DOMAIN order : order[k] \in {v4, v6}
      /\ \E k \in DOMAIN order : order[k] = v4
      /\ \E k \in DOMAIN order : order[k] = v6
  <2> DEFINE A == {v4, v6}
             head == IF wantV6 THEN <<v6>> ELSE <<>>
             tail == <<v4, v6>>
  <2>1. head \in Seq(A)
    <3>1. <<v6>> \in Seq(A) /\ <<>> \in Seq(A)
      OBVIOUS
    <3> QED
      BY <3>1
  <2>2. tail \in Seq(A) /\ Len(tail) = 2 /\ tail[1] = v4 /\ tail[2] = v6
    OBVIOUS
  <2>3. order = head \o tail
    OBVIOUS
  <2> HIDE DEF order, head, tail, A
  <2>4. order \in Seq(A) /\ DOMAIN order = 1 .. Len(head) + 2 /\ Len(head) \in Nat
    <3>1. order \in Seq(A) /\ Len(order) = Len(head) + Len(tail)
      BY <2>1, <2>2, <2>3, ConcatProperties
    <3> QED
      BY <2>1, <2>2, <3>1
  <2>5. order[Len(head) + 1] = v4 /\ order[Len(head) + 2] = v6
    <3>1. \A j \in 1 .. Len(head) + Len(tail) :
             order[j] = IF j <= Len(head) THEN head[j] ELSE tail[j - Len(head)]
      BY <2>1, <2>2, <2>3, ConcatProperties
    <3>2. Len(head) \in Nat /\ Len(tail) = 2
      BY <2>1, <2>2
    <3> DEFINE l == Len(head)
    <3>3. /\ l + 1 \in 1 .. l + 2 /\ l + 2 \in 1 .. l + 2
          /\ ~(l + 1 <= l) /\ ~(l + 2 <= l) /\ (l + 1) - l = 1 /\ (l + 2) - l = 2
      BY <3>2
    <3>4. order[l + 1] = tail[1] /\ order[l + 2] = tail[2]
      <4> HIDE DEF l
      <4>1. \A j \in 1 .. l + 2 : order[j] = IF j <= l THEN head[j] ELSE tail[j - l]
        BY <3>1, <3>2 DEF l
      <4> QED
        BY <3>3, <4>1
    <3> QED
      BY <2>2, <3>4
  <2>6. Len(head) + 1 \in DOMAIN order /\ Len(head) + 2 \in DOMAIN order
    BY <2>4
  <2> QED
    BY <2>4, <2>5, <2>6 DEF A
<1> HIDE DEF order
<1>6. K \in SUBSET Nat /\ K # {}
  BY <1>4, <1>5
<1>7. First(K) \in K
  BY <1>6, FirstIs
<1> QED
  BY <1>1, <1>3, <1>5, <1>6, <1>7

(* The addresses of a LAN are all named.                                   *)
LEMMA AddressesNamed ==
    ASSUME NEW ifs, IsIfs(ifs), NEW a, NEW i \in ToSet(ifs),
           i.up, i.ip.fam = "v4", IsLan(i)
    PROVE  i.ip \in ToSet(LanAddresses(Interfaces(ifs), a))
<1> DEFINE T == ToSet(ifs)
           up == Interfaces(ifs)
           lans == Lans(up)
           own == IF \E k \in DOMAIN lans : lans[k].ip = a THEN <<a>> ELSE <<>>
           named == [k \in DOMAIN lans |-> lans[k].ip]
           all == own \o named
           fresh == {k \in DOMAIN all : \A j \in 1 .. k - 1 : all[j] # all[k]}
<1>1. up \in Seq(T) /\ i \in ToSet(up)
  <2> DEFINE K == {k \in DOMAIN ifs : ifs[k].up /\ ifs[k].ip.fam = "v4"}
  <2>1. up = Sublist(ifs, K)
    BY DEF Interfaces, Selected
  <2>2. PICK k \in DOMAIN ifs : ifs[k] = i
    BY DEF ToSet
  <2>3. k \in K
    BY <2>2
  <2>4. K \in SUBSET DOMAIN ifs /\ ifs \in Seq(T)
    BY DEF IsIfs
  <2> HIDE DEF K, up, T
  <2> QED
    BY <2>1, <2>2, <2>3, <2>4, SublistIs
<1> HIDE DEF up, T
<1>2. lans \in Seq(T) /\ i \in ToSet(lans)
  <2> DEFINE K == {k \in DOMAIN up : IsLan(up[k])}
  <2>1. lans = Sublist(up, K)
    BY DEF Lans, Selected
  <2>2. PICK k \in DOMAIN up : up[k] = i
    BY <1>1 DEF ToSet
  <2>3. k \in K
    BY <2>2
  <2>4. K \in SUBSET DOMAIN up
    OBVIOUS
  <2> HIDE DEF K, lans
  <2> QED
    BY <1>1, <2>1, <2>2, <2>3, <2>4, SublistIs
<1> DEFINE A == {a} \cup {x.ip : x \in T}
<1> HIDE DEF lans
<1>3. named \in Seq(A) /\ i.ip \in ToSet(named)
  <2>1. DOMAIN lans = 1 .. Len(lans) /\ Len(lans) \in Nat
    BY <1>2
  <2>2. named \in [1 .. Len(lans) -> A]
    BY <1>2, <2>1
  <2>3. i.ip \in ToSet(named)
    BY <1>2 DEF ToSet
  <2> QED
    BY <2>1, <2>2, <2>3, IsASeq
<1>4. own \in Seq(A)
  <2>1. <<a>> \in Seq(A) /\ <<>> \in Seq(A)
    OBVIOUS
  <2> HIDE DEF A
  <2> QED
    BY <2>1
<1> HIDE DEF own, named, A
<1>5. /\ all \in Seq(A)
      /\ \E k \in DOMAIN all : all[k] = i.ip
  <2>1. all \in Seq(A)
    BY <1>3, <1>4
  <2>2. PICK k \in DOMAIN named : named[k] = i.ip
    BY <1>3 DEF ToSet
  <2>3. Len(own) + k \in DOMAIN all /\ all[Len(own) + k] = named[k]
    BY <1>3, <1>4, <2>2
  <2> QED
    BY <2>1, <2>2, <2>3
<1>6. LanAddresses(up, a) = Sublist(all, fresh)
  BY DEF LanAddresses, all, fresh, own, named, lans
<1> HIDE DEF all
<1>7. \E k \in fresh : all[k] = i.ip
  <2> DEFINE K == {k \in DOMAIN all : all[k] = i.ip}
  <2>1. DOMAIN all = 1 .. Len(all) /\ Len(all) \in Nat
    BY <1>5
  <2>2. K \in SUBSET Nat /\ K # {}
    BY <1>5, <2>1
  <2>3. PICK k \in K : \A j \in K : k <= j
    <3> HIDE DEF K
    <3> QED
      BY <2>2, Least
  <2>4. \A j \in 1 .. k - 1 : all[j] # all[k]
    BY <2>1, <2>3
  <2> QED
    BY <2>3, <2>4
<1>8. fresh \in SUBSET DOMAIN all
  OBVIOUS
<1> HIDE DEF fresh
<1>9. ToSet(Sublist(all, fresh)) = {all[k] : k \in fresh}
  BY <1>5, <1>8, SublistIs
<1> QED
  BY <1>6, <1>7, <1>9 DEF up

(* Whoever discovers the server may talk to it, whatever it is bound to;   *)
(* what is announced, and what a searcher is told, is of a family HTTP is  *)
(* served on whenever there is such an address.  Bound to every address,   *)
(* the server tells a searcher its own on the peer's subnet where it has   *)
(* one, which is named where it is of a LAN.  The filters of ssdp.rs and   *)
(* peers.rs agree on every network in which an address is that of one host *)
(* and a subnet has one mask.                                              *)
THEOREM DiscoveredIsReachable == Spec => []SearchersCanConnect
<1>1. LifeInv => SearchersCanConnect
  <2> SUFFICES ASSUME LifeInv
               PROVE  LET own == {i \in ToSet(Ifs) : i.ip.fam \in Http /\ Usable(i)}
                      IN  /\ own # {} => \A wantV6 \in BOOLEAN :
                                LocationIpForFamily(wantV6, Config, Ifs).fam \in Http
                          /\ \A src \in {s \in Senders :
                                       Heard(s) /\ SsdpSourceAllowed(s, Ifs)} :
                                LET location == LocationForPeer(src, Config, Ifs)
                                    near == Near(own, src)
                                IN  /\ Host.remote \/ LocalOnly(Seen(src), Ifs)
                                    /\ own # {} => location.fam \in Http
                                    /\ Unspecified(Host.bind) => NearIsTold(location, near)
    BY Zenon DEF SearchersCanConnect
  <2> DEFINE T == ToSet(Ifs)
             own == {i \in T : i.ip.fam \in Http /\ Usable(i)}
  <2>1. /\ IsIfs(Ifs)
        /\ \A i \in T :
              /\ i.ip.fam \in {"v4", "v6"} /\ i.mask \in {"any", "net", "host"}
              /\ \A j \in T : i.ip.fam = j.ip.fam /\ i.ip.net = j.ip.net => i.mask = j.mask
    BY NetsAssumption DEF LifeInv, Host, Ifs, IsIfs
  <2>2. ASSUME own # {}, NEW wantV6 \in BOOLEAN
        PROVE  LocationIpForFamily(wantV6, Config, Ifs).fam \in Http
    <3>1. PICK i \in T : i.ip.fam \in Http /\ Usable(i)
      BY <2>2
    <3>2. Config.http = Http
      BY DEF Config
    <3> QED
      BY <2>1, <2>2, <3>1, <3>2, LocationIpServed
  <2>3. ASSUME NEW src \in Senders, Heard(src), SsdpSourceAllowed(src, Ifs)
        PROVE  LET location == LocationForPeer(src, Config, Ifs)
                   near == Near(own, src)
               IN  /\ Host.remote \/ LocalOnly(Seen(src), Ifs)
                   /\ own # {} => location.fam \in Http
                   /\ NearIsTold(location, near)
    <3> USE <2>3
    <3> DEFINE found == LocalIpForPeer(src, Ifs)
               location == LocationForPeer(src, Config, Ifs)
               near == Near(own, src)
    <3>1. /\ IsIfs(Ifs)
          /\ \A i \in T :
                /\ i.ip.fam \in {"v4", "v6"} /\ i.mask \in {"any", "net", "host"}
                /\ \A j \in T : i.ip.fam = j.ip.fam /\ i.ip.net = j.ip.net => i.mask = j.mask
                /\ i.ip.fam = src.fam /\ i.ip.net = src.net => i.ip.host # src.host
      BY NetsAssumption DEF LifeInv, Host, Ifs, IsIfs
    <3>2. /\ src.fam \in {"v4", "v6"}
          /\ src = [fam |-> src.fam, range |-> src.range, net |-> src.net, host |-> src.host]
      BY SendersAssumption
    <3>3. found = NoIp \/ found.fam \in {"v4", "v6"}
      BY <3>1, LocalIpIs
    <3>4. NoIp.fam = "none"
      BY DEF NoIp
    <3>5. LocalOnly(Seen(src), Ifs)
      <4>1. PICK i \in T : i.up /\ i.ip.fam = src.fam /\ i.ip.net = src.net
        BY DEF Heard
      <4>2. Normalize(Seen(src)) = src
        <5> DEFINE mapped == [src EXCEPT !.fam = "mapped"]
        <5>1. mapped.fam = "mapped" /\ [mapped EXCEPT !.fam = "v4"] = [src EXCEPT !.fam = "v4"]
          BY <3>2
        <5>2. src.fam = "v4" => [src EXCEPT !.fam = "v4"] = src
          BY <3>2
        <5>3. src.fam # "mapped"
          BY <3>2
        <5> HIDE DEF mapped
        <5> QED
          BY <5>1, <5>2, <5>3 DEF Normalize, Seen, mapped
      <4>3. Seen(src) # NoIp
        <5>1. [src EXCEPT !.fam = "mapped"].fam = "mapped"
          BY <3>2
        <5> QED
          BY <3>2, <3>4, <5>1 DEF Seen
      <4>4. CASE src.range \in LocalRanges
        BY <3>2, <4>2, <4>3, <4>4 DEF LocalOnly, IsLocalPeer, IsLocalRange
      <4>5. CASE src.range \notin LocalRanges
        <5>1. PICK j \in T : MatchesPeer(j, src)
          BY <3>1, <4>5, LocalIpIs DEF SsdpSourceAllowed, IsSsdpLanIp
        <5>2. j.mask = "net" /\ j.ip.net = src.net /\ j.ip.fam = src.fam
          BY <3>1, <5>1 DEF MatchesPeer, Masked
        <5>3. i.mask = "net"
          BY <3>1, <4>1, <5>2
        <5>4. PICK k \in DOMAIN Ifs : Ifs[k] = i
          BY DEF ToSet
        <5>5. [net |-> i.ip, mask |-> i.mask] \in AttachedSubnets(Ifs)
          BY <4>1, <5>4 DEF AttachedSubnets
        <5>6. Normalize(i.ip) = i.ip
          BY <3>1 DEF Normalize
        <5>7. OnAttachedSubnet(Seen(src), AttachedSubnets(Ifs))
          <6> DEFINE n == [net |-> i.ip, mask |-> i.mask]
          <6>1. Normalize(n.net) = i.ip /\ n.mask = "net"
            BY <5>3, <5>6
          <6>2. /\ Normalize(Seen(src)).fam = Normalize(n.net).fam
                /\ Masked(Normalize(Seen(src)), Normalize(n.net), n.mask)
            BY <4>1, <4>2, <6>1 DEF Masked
          <6> HIDE DEF n
          <6> QED
            BY <5>5, <6>2 DEF OnAttachedSubnet, n
        <5> QED
          BY <4>3, <5>7 DEF LocalOnly, IsLocalPeer
      <4> QED
        BY <4>4, <4>5
    <3>6. own # {} => location.fam \in Http
      <4>1. Config.http = Http
        BY DEF Config
      <4>2. (src.fam = "v6") \in BOOLEAN
        OBVIOUS
      <4>3. own # {} => LocationIpForFamily(src.fam = "v6", Config, Ifs).fam \in Http
        BY <2>2, <4>2
      <4> QED
        BY <4>1, <4>3 DEF LocationForPeer, FamilyServed
    <3>7. near # {} => location \in {i.ip : i \in near}
      <4> SUFFICES ASSUME near # {} PROVE location \in {i.ip : i \in near}
        OBVIOUS
      <4>1. PICK i \in T : /\ i.ip.fam \in Http /\ Usable(i)
                           /\ i.ip.fam = src.fam /\ i.ip.net = src.net /\ i.mask = "net"
        BY DEF Near
      <4>2. MatchesPeer(i, src)
        BY <4>1 DEF MatchesPeer, Masked
      <4>3. PICK j \in T : MatchesPeer(j, src) /\ found = j.ip
        BY <3>1, <4>2, LocalIpIs
      <4>4. j.ip.fam = src.fam /\ Usable(j) /\ j.mask = "net" /\ j.ip.net = src.net
        BY <3>1, <4>3 DEF MatchesPeer, Masked
      <4>5. j \in near
        BY <4>1, <4>4 DEF Near
      <4>6. location = found
        BY <3>2, <3>4, <4>1, <4>3, <4>4 DEF LocationForPeer, FamilyServed, Config
      <4> QED
        BY <4>3, <4>5, <4>6
    <3>8. \A i \in near :
             location = i.ip /\ i.up /\ IsLan(i) /\ i.ip.fam = "v4" =>
                location \in ToSet(LanAddresses(Interfaces(Ifs), ip))
      BY <3>1, AddressesNamed DEF Near
    <3>9. NearIsTold(location, near)
      BY <3>7, <3>8 DEF NearIsTold
    <3> HIDE DEF location, own, near
    <3> QED
      BY <3>5, <3>6, <3>9 DEF location, near
  <2> HIDE DEF own
  <2> QED
    BY <2>2, <2>3 DEF own
<1> QED
  BY <1>1, LifeInit, LifeStep, PTL DEF Spec

=============================================================================
