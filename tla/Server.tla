------------------------------- MODULE Server -------------------------------
(***************************************************************************)
(* The command-line server from start to exit: start_server of             *)
(* api/src/lib.rs with the tasks it spawns, as far as they bear on each    *)
(* other.  What the SSDP task does while it runs is module Ssdp; here it   *)
(* opens, announces and parts.  The probe threads, the registration with   *)
(* the Bonjour responder and the check monitor are all here.               *)
(*                                                                         *)
(* Time is not modelled, but for two waits: the sockets of SSDP are open,  *)
(* or known to be taken, within the 300 ms the server gives them, and      *)
(* settle gives up at any moment.                                          *)
(***************************************************************************)
EXTENDS NetChecks, MediaProbe

CONSTANTS
    Nets,     \* networks by name: the interfaces a computer has there
    Hosts,    \* computers and arguments, a sequence of [bind, dual, remote, mac,
              \* files, nets, changes, watch]: the names of the networks it may come
              \* to be on and how often that may change, and the names of the checks
              \* of which one is followed.  A file also says what is in truth in it:
              \* the codecs in `videos` and `audios`, of those that have a name in
              \* meta.rs, and whether it `lasts`
    Senders,  \* addresses of control points
    Threads   \* available_parallelism

ASSUME ServerAssumption == Threads \in Nat \ {0}
ASSUME HostsAssumption ==
    \A h \in DOMAIN Hosts :
        /\ Len(Hosts[h].files) \in Nat
        /\ DOMAIN Hosts[h].files = 1 .. Len(Hosts[h].files)

\* An address names its subnet and its host on it: a subnet has one mask and
\* one gateway, and no other host has an address of this one.
ASSUME NetsAssumption ==
    \A h \in DOMAIN Hosts : \A n \in Hosts[h].nets :
        LET ifs == Nets[n]
        IN  /\ ifs \in Seq(ToSet(ifs))
            /\ \A i \in ToSet(ifs) :
                  /\ i.ip.fam \in {"v4", "v6"} /\ i.mask \in {"any", "net", "host"}
                  /\ \A j \in ToSet(ifs) :
                        i.ip.fam = j.ip.fam /\ i.ip.net = j.ip.net =>
                           i.mask = j.mask /\ i.udp = j.udp /\ i.tcp = j.tcp
                  /\ \A s \in Senders :
                        <<i.ip.fam, i.ip.net, i.ip.host>> # <<s.fam, s.net, s.host>>
ASSUME SendersAssumption ==
    \A s \in Senders :
        /\ s.fam \in {"v4", "v6"}
        /\ s = [fam |-> s.fam, range |-> s.range, net |-> s.net, host |-> s.host]

VARIABLES
    host, pc,
    ip,         \* config.local_ip, fixed at start
    ssdp,       \* the task: "none", "spawned", "announcing", "failed", "parted"
    joined,     \* the interfaces its groups are joined on
    ssdpOk,     \* what was sampled of it
    bonjour,    \* BonjourStatus; "none" when there is no guard
    net, changes,
    gathered,   \* the monitor's input under way
    latest,     \* the checks it found last
    watched,    \* history: one check that may stand, and what was
    told,       \* told of it: see Told
    at, slots   \* files each probe thread is past; ProbeCache

vars == <<host, pc, ip, ssdp, joined, ssdpOk, bonjour, net, changes,
          gathered, latest, watched, told, at, slots>>

network == <<net, changes>>
monitor == <<gathered, latest, watched, told>>
probes == <<at, slots>>

Starting == {"scanning", "sampling", "advertising", "settling"}
Alive == Starting \cup {"serving", "stopping"}
Nothing == [net |-> "", bonjour |-> FALSE, udp |-> ""]
NoCheck == Check("", {})

Host == Hosts[host]
Ifs == Nets[net]
Http == HttpFamilies(Host.bind, Host.dual)
Config == [ip |-> ip, http |-> Http]

-----------------------------------------------------------------------------
(* The probe threads.                                                      *)

Files == Host.files
Workers == IF Len(Files) < Threads THEN Len(Files) ELSE Threads
ChunkLen == (Len(Files) + Workers - 1) \div Workers

\* chunks(ChunkLen): the files of each thread, by their indices.
Chunk(w) == {k \in DOMAIN Files : (k - 1) \div ChunkLen = w - 1}

\* The slot before the first of a thread.
StartOf(w) == (w - 1) * ChunkLen

\* What probing each file comes to; a table, like Checks.
Probed ==
    [h \in DOMAIN Hosts |->
        [k \in DOMAIN Hosts[h].files |->
            [panics |-> ProbeMedia(Hosts[h].files[k]).panics,
             fields |-> ProbeFields(Hosts[h].files[k])]]]

-----------------------------------------------------------------------------
(* The checks.                                                             *)

BonjourOk(status) == status \in {"pending", "registered"}

\* gather: `look` says on which network the interfaces were read, what the
\* probe came to, and on which network the public addresses were read.
Gather(h, look) ==
    [interfaces |-> Interfaces(Nets[look.read]), advertised |-> look.ip,
     ssdp |-> look.ssdp, bonjour |-> look.bonjour, lan |-> look.lan,
     exposed |-> IF Hosts[h].remote THEN PublicAddresses(Nets[look.last]) ELSE {}]

AddressesOf(h) ==
    {Loopback, Hosts[h].bind} \cup
        {i.ip : i \in UNION {ToSet(Interfaces(Nets[n])) : n \in Hosts[h].nets}}

Looks(h) ==
    {[read |-> r, lan |-> l, last |-> n, ip |-> a, ssdp |-> s, bonjour |-> b] :
        r, n \in Hosts[h].nets, l \in {"skipped", "ok", "denied"}, a \in AddressesOf(h),
        s, b \in BOOLEAN}

\* A table: TLC evaluates each case once.
Checks == [h \in DOMAIN Hosts |-> [look \in Looks(h) |-> Evaluate(Gather(h, look))]]

Found(r, lan, n, bonjourIsOk) ==
    Checks[host][[read |-> r, lan |-> lan, last |-> n, ip |-> ip, ssdp |-> ssdpOk,
                  bonjour |-> bonjourIsOk]]

\* The interface whose gateway a look that began on a network probes.
Gateways ==
    [h \in DOMAIN Hosts |-> [n \in Hosts[h].nets |-> [a \in AddressesOf(h) |->
        ProbedFrom(Interfaces(Nets[n]), a, Hosts[h].mac)]]]

Gateway(n) == Gateways[host][n][ip]

\* Found by a look that is over before anything changes.
FoundOn(n, bonjourIsOk) == Found(n, LanProbe(Gateway(n)), n, bonjourIsOk)

\* Those that stand.
Standing(n, status) == FoundOn(n, BonjourOk(status))

\* "no", "now" (told, and true ever since), "before" (told, and false since),
\* or "twice" (told again while it was "now").
Told(printed, n, status) ==
    CASE watched \in printed /\ told = "now" -> "twice"
      [] told = "twice" -> "twice"
      [] watched \in printed \/ told = "now" ->
            IF watched \in Standing(n, status) THEN "now" ELSE "before"
      [] OTHER -> told

\* The network changes under a probe, whose answers may then be of neither
\* network: what it denies may be found gone, and told again.
ProbeUnsettled == gathered # Nothing /\ watched.id = "local-network-denied"

-----------------------------------------------------------------------------
Init ==
    /\ host \in DOMAIN Hosts
    /\ net \in Host.nets
    /\ pc = "binding"
    /\ ip = NoIp
    /\ ssdp = "none" /\ joined = {} /\ ssdpOk = TRUE
    /\ bonjour = "none"
    /\ changes = 0
    /\ gathered = Nothing /\ latest = {} /\ told = "no"
    /\ watched \in {NoCheck} \cup {c \in UNION Range(Checks[host]) : c.id \in Host.watch}
    /\ at = [w \in 1 .. Workers |-> 0]
    /\ slots = [k \in DOMAIN Files |-> NoFields]

\* No readable source directory, or the port is taken.
StartFails ==
    /\ pc = "binding"
    /\ pc' = "failed"
    /\ UNCHANGED <<host, ip, ssdp, joined, ssdpOk, bonjour>>
    /\ UNCHANGED <<network, monitor, probes>>

\* The port is bound before the scan.
BindHttp ==
    /\ pc = "binding"
    /\ pc' = "scanning"
    /\ UNCHANGED <<host, ip, ssdp, joined, ssdpOk, bonjour>>
    /\ UNCHANGED <<network, monitor, probes>>

\* The scan is over: the probes and SSDP are spawned.
Indexed ==
    /\ pc = "scanning"
    /\ pc' = "sampling"
    /\ LET own == {i.ip : i \in {j \in ToSet(Interfaces(Ifs)) : ~IsLoopback(j)}}
       IN  \E found \in (IF own = {} THEN {NoIp} ELSE own) :
              ip' = AdvertisedIp(Host.bind, found)
    /\ ssdp' = "spawned"
    /\ UNCHANGED <<host, joined, ssdpOk, bonjour>>
    /\ UNCHANGED <<network, monitor, probes>>

\* run: both sockets may be taken, and it returns at once.
SsdpOpens ==
    /\ ssdp = "spawned" /\ pc \in Alive
    /\ \/ ssdp' = "announcing" /\ joined' = JoinAllInterfaces(Ifs)
       \/ ssdp' = "failed" /\ UNCHANGED joined
    /\ UNCHANGED <<host, pc, ip, ssdpOk, bonjour>>
    /\ UNCHANGED <<network, monitor, probes>>

Sample ==
    /\ pc = "sampling" /\ ssdp # "spawned"
    /\ pc' = "advertising"
    /\ ssdpOk' = (ssdp # "failed")
    /\ UNCHANGED <<host, ip, ssdp, joined, bonjour>>
    /\ UNCHANGED <<network, monitor, probes>>

\* advertise: refused at once, or handed to the responder, which on other
\* platforms than macOS takes it at its word.
Advertise ==
    /\ pc = "advertising"
    /\ \/ pc' = "serving" /\ UNCHANGED bonjour
       \/ pc' = "settling" /\ bonjour' = IF Host.mac THEN "pending" ELSE "registered"
    /\ UNCHANGED <<host, ip, ssdp, joined, ssdpOk>>
    /\ UNCHANGED <<network, monitor, probes>>

Settle ==
    /\ pc = "settling"
    /\ pc' = "serving"
    /\ UNCHANGED <<host, ip, ssdp, joined, ssdpOk, bonjour>>
    /\ UNCHANGED <<network, monitor, probes>>

StatusFromCallback(added, error, named) ==
    CASE error -> "failed"
      [] ~error /\ ~added -> "pending"
      [] ~error /\ added -> IF named THEN "registered" ELSE "failed"

\* on_register, at any time while the guard lives.
OnRegister ==
    /\ Host.mac /\ bonjour # "none" /\ pc \in Alive
    /\ bonjour' \in {StatusFromCallback(added, error, named) :
                        added, error, named \in BOOLEAN}
    /\ told' = Told({}, net, bonjour')
    /\ UNCHANGED <<host, pc, ip, ssdp, joined, ssdpOk, network>>
    /\ UNCHANGED <<gathered, latest, watched, probes>>

-----------------------------------------------------------------------------
(* The check monitor: the task lives until the server cleans up.           *)

\* The status of the responder and the interfaces are read.
MonitorGathers ==
    /\ pc \in {"serving", "stopping"} /\ gathered = Nothing
    /\ gathered' = [net |-> net, bonjour |-> BonjourOk(bonjour), udp |-> ""]
    /\ UNCHANGED <<host, pc, ip, ssdp, joined, ssdpOk, bonjour, network>>
    /\ UNCHANGED <<latest, watched, told, probes>>

\* The gateway of one of those interfaces is sent a datagram, if any is probed.
MonitorProbes ==
    /\ pc \in {"serving", "stopping"} /\ gathered # Nothing /\ gathered.udp = ""
    /\ LET from == Gateway(gathered.net)
       IN  \E answer \in (IF from = <<>> THEN {"skipped"} ELSE UdpAnswers(from[1], Ifs)) :
              gathered' = [gathered EXCEPT !.udp = answer]
    /\ UNCHANGED <<host, pc, ip, ssdp, joined, ssdpOk, bonjour, network>>
    /\ UNCHANGED <<latest, watched, told, probes>>

\* What lan_probe returns once the gateway was connected to as well.
LanProbes(gatheredNet, udp) ==
    LET from == Gateway(gatheredNet)
    IN  IF from = <<>> THEN {"skipped"}
        ELSE {Classify(udp, tcp) : tcp \in TcpAnswers(from[1], Ifs)}

\* It is, the public addresses are read, and what is new is told.
MonitorTells ==
    /\ pc \in {"serving", "stopping"} /\ gathered # Nothing /\ gathered.udp # ""
    /\ gathered' = Nothing
    /\ \E lan \in LanProbes(gathered.net, gathered.udp) :
          latest' = Found(gathered.net, lan, net, gathered.bonjour)
    /\ told' = Told(NewChecks(latest, latest'), net, bonjour)
    /\ UNCHANGED <<host, pc, ip, ssdp, joined, ssdpOk, bonjour, network>>
    /\ UNCHANGED <<watched, probes>>

\* Interfaces come and go, addresses change, the user allows local access.
NetworkChanges ==
    /\ pc \in Alive /\ changes < Host.changes
    /\ changes' = changes + 1
    /\ net' \in Host.nets \ {net}
    /\ told' = IF ProbeUnsettled /\ told = "now" THEN "before"
               ELSE Told({}, net', bonjour)
    /\ UNCHANGED <<host, pc, ip, ssdp, joined, ssdpOk, bonjour>>
    /\ UNCHANGED <<gathered, latest, watched, probes>>

-----------------------------------------------------------------------------
(* fill_probes: a thread whose file panics ends there; the others go on.   *)

ProbesFile(w) ==
    LET past(k) == Cardinality({j \in Chunk(w) : j < k})
    IN  /\ pc \in Alive \ {"scanning"}
        /\ \E k \in Chunk(w) :
              /\ at[w] = past(k)
              /\ LET probe == Probed[host][k] IN
                 IF probe.panics
                 THEN at' = [at EXCEPT ![w] = Len(Files)] /\ UNCHANGED slots
                 ELSE /\ at' = [at EXCEPT ![w] = @ + 1]
                      /\ slots' = [slots EXCEPT ![StartOf(w) + at[w] + 1] = probe.fields]
        /\ UNCHANGED <<host, pc, ip, ssdp, joined, ssdpOk, bonjour, network, monitor>>

-----------------------------------------------------------------------------
(* The end.                                                                *)

\* SIGINT or SIGTERM: nobody waits for it before the server serves.
Signal ==
    /\ \/ pc \in Starting \cup {"binding"} /\ pc' = "killed"
       \/ pc = "serving" /\ pc' = "stopping"
    /\ UNCHANGED <<host, ip, ssdp, joined, ssdpOk, bonjour>>
    /\ UNCHANGED <<network, monitor, probes>>

ServeEnds ==
    /\ pc = "serving"
    /\ pc' = "stopping"
    /\ UNCHANGED <<host, ip, ssdp, joined, ssdpOk, bonjour>>
    /\ UNCHANGED <<network, monitor, probes>>

\* Told to stop, the task sends its byebyes and returns.
SsdpParts ==
    /\ pc = "stopping" /\ ssdp = "announcing"
    /\ ssdp' = "parted"
    /\ UNCHANGED <<host, pc, ip, joined, ssdpOk, bonjour>>
    /\ UNCHANGED <<network, monitor, probes>>

NotAwaited == TRUE   \* mutant of SsdpAwaited

SsdpAwaited == ssdp \in {"failed", "parted"}

\* The tasks are aborted, the guard is dropped, and the process ends when a
\* gathering still on its blocking thread has.
CleanUp ==
    /\ pc = "stopping" /\ SsdpAwaited
    /\ pc' = "exited"
    /\ bonjour' = "none"
    /\ gathered' = Nothing
    /\ UNCHANGED <<host, ip, ssdp, joined, ssdpOk, network>>
    /\ UNCHANGED <<latest, watched, told, probes>>

Next ==
    \/ StartFails \/ BindHttp \/ Indexed \/ SsdpOpens \/ Sample \/ Advertise \/ Settle
    \/ OnRegister \/ MonitorGathers \/ MonitorProbes \/ MonitorTells
    \/ NetworkChanges
    \/ \E w \in 1 .. Workers : ProbesFile(w)
    \/ Signal \/ ServeEnds \/ SsdpParts \/ CleanUp

(* The interval of the monitor ticks, threads run on, and the select sees  *)
(* a signal it was sent; signals and the network itself get no fairness.   *)
Fairness ==
    /\ WF_vars(MonitorGathers \/ MonitorProbes \/ MonitorTells)
    /\ WF_vars(\E w \in 1 .. Workers : ProbesFile(w))
    /\ WF_vars(SsdpParts \/ CleanUp)

Spec == Init /\ [][Next]_vars /\ Fairness

-----------------------------------------------------------------------------
\* A multicast search of src arrives: on an interface that is up and joined.
Heard(src) ==
    \E i \in ToSet(Ifs) :
        /\ i.up /\ i.name \in joined
        /\ i.ip.fam = src.fam /\ i.ip.net = src.net /\ i.ip # src

Seen(src) ==   \* on a socket of both families IPv4 peers are mapped
    IF Http = {"v4", "v6"} /\ src.fam = "v4" THEN [src EXCEPT !.fam = "mapped"] ELSE src

\* The interfaces of the peer's subnet, of some.
Near(own, src) ==
    {i \in own : i.ip.fam = src.fam /\ i.ip.net = src.net /\ i.mask = "net"}

\* A searcher is told one of them, which is named where it is of a LAN.
NearIsTold(location, near) ==
    /\ near # {} => location \in {i.ip : i \in near}
    /\ \A i \in near :
          location = i.ip /\ i.up /\ IsLan(i) /\ i.ip.fam = "v4" =>
             location \in ToSet(LanAddresses(Interfaces(Ifs), ip))

(* Whoever discovers the server may talk to it: the two filters, written   *)
(* apart (ssdp.rs:482, peers.rs:84) and asked on different sockets, agree  *)
(* on every peer that is heard, whatever the server is bound to.  The      *)
(* LOCATION announced (ssdp.rs:349), and the one a searcher is told, is of *)
(* a family HTTP is served on whenever there is such an address; and bound *)
(* to every address, the server tells a searcher its own on the peer's     *)
(* subnet where it has one, which is among the addresses the identity      *)
(* route names where it is of a LAN.  (Bound to one address, it tells it   *)
(* the same one, where nothing may listen: ssdp.rs:461.)                   *)
SearchersCanConnect ==
    ssdp = "announcing" /\ pc \in Alive =>
        LET own == {i \in ToSet(Ifs) : i.ip.fam \in Http /\ Usable(i)}
        IN  /\ own # {} => \A wantV6 \in BOOLEAN :
                  LocationIpForFamily(wantV6, Config, Ifs).fam \in Http
            /\ \A src \in {s \in Senders : Heard(s) /\ SsdpSourceAllowed(s, Ifs)} :
                  LET location == LocationForPeer(src, Config, Ifs)
                      near == Near(own, src)
                  IN  /\ Host.remote \/ LocalOnly(Seen(src), Ifs)
                      /\ own # {} => location.fam \in Http
                      /\ Unspecified(Host.bind) => NearIsTold(location, near)

(* "Checks in `after` that were not in `before` (same id and message)"     *)
(* (netcheck.rs:369): a problem that stays is told, though another of its  *)
(* kind was there before, the network and the responder change while it is *)
(* looked for, and it may come and go between two looks; and it is not     *)
(* told again while it stays.  One exception is the code's: a probe sends  *)
(* from the address it read earlier (netcheck.rs:304), so that a denied    *)
(* gateway is found gone, and is told again, when the network moved under  *)
(* it (ProbeUnsettled).                                                    *)
ProblemsToldOnce ==
    /\ [](told # "twice")
    /\ <>[](pc = "serving" /\ watched \in Standing(net, bonjour)) => <>(told # "no")

(* Browse never shows a file another one's fields, though threads fill the *)
(* slots in any order; and the profile it shows claims no H.264 in a file  *)
(* without it, and no AAC or AC3 in a file whose audio is known and has    *)
(* none ("a wrong PN makes TVs refuse the file", meta.rs:67).              *)
WhatIsAdvertisedIsTrue ==
    \A k \in DOMAIN Files :
        LET pn == slots[k].pn
            file == Files[k]
        IN  /\ slots[k] # NoFields => slots[k] = Probed[host][k].fields
            /\ pn \in AvcProfiles => "avc" \in file.videos
            /\ pn \in AacProfiles /\ file.audios # {} => "aac" \in file.audios
            /\ pn \in Ac3Profiles /\ file.audios # {} => "ac3" \in file.audios

\* A file no thread comes to: one at or before it in its chunk panics.
OutOfReach(k) ==
    \E j \in 1 .. k : /\ (j - 1) \div ChunkLen = (k - 1) \div ChunkLen
                      /\ Probed[host][j].panics

(* "`spawn_probe` fills those in" (api/src/lib.rs:215): a server that goes *)
(* on serving comes to show what every file holds, wherever in the file    *)
(* its headers are; but for the files after one whose probe panics.        *)
ProbesFilled ==
    <>[](pc = "serving") =>
        <>(\A k \in DOMAIN Files :
              ~OutOfReach(k) =>
                 /\ slots[k] = Probed[host][k].fields
                 /\ Files[k].lasts => slots[k].duration # <<>>)

(* The select of start_server: whichever branch ends it, and whatever had  *)
(* failed before, the server exits, and not before SSDP has parted and the *)
(* responder has withdrawn the service.                                    *)
CleanExit ==
    /\ [](pc = "exited" => ssdp # "announcing" /\ bonjour = "none")
    /\ pc = "stopping" ~> pc = "exited"
=============================================================================
