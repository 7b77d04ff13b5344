------------------------------ MODULE MCServer ------------------------------
(* Computers at home, with a VPN, with a public address and with no network *)
(* at all; and, on a quiet network, lists of files of every container.      *)
EXTENDS Server

Addr(fam, range, n, h) == [fam |-> fam, range |-> range, net |-> n, host |-> h]
If(name, link, up, addr, mask) ==
    [name |-> name, link |-> link, up |-> up, ip |-> addr, mask |-> mask,
     udp |-> "ok", tcp |-> "none"]
Gate(i, udp, tcp) == [i EXCEPT !.udp = udp, !.tcp = tcp]
Denied(i) == Gate(i, "unreachable", "refused by the system")

lo == If("lo", "lan", TRUE, Loopback, "net")
eth == If("eth0", "lan", TRUE, Addr("v4", "private", "home", 5), "net")
eth6 == If("eth0", "lan", TRUE, Addr("v6", "public", "home6", 5), "net")
ethLink == If("eth0", "lan", TRUE, Addr("v6", "linklocal", "link", 5), "net")
wifi == If("wlan0", "lan", TRUE, Addr("v4", "private", "guest", 1), "net")
wifiOff == If("wlan1", "lan", FALSE, Addr("v4", "private", "home", 6), "net")
vpn(name) == If(name, "tunnel", TRUE, Addr("v4", "cgnat", name, 7), "host")
docker == If("docker0", "virtual", TRUE, Addr("v4", "private", "docker", 1), "net")
uplink == If("eth1", "lan", TRUE, Addr("v4", "public", "isp", 8), "net")

Networks ==
    ("alone" :> <<lo>>)
    @@ ("home" :> <<lo, ethLink, eth6, eth>>)
    @@ ("denied" :> <<lo, Denied(eth)>>)
    @@ ("away" :> <<lo, Denied(wifi)>>)
    @@ ("vpn0" :> <<lo, vpn("utun0"), eth>>)
    @@ ("vpn1" :> <<lo, vpn("utun1"), eth>>)
    @@ ("gateway" :> <<lo, uplink, wifiOff, eth>>)
    @@ ("two" :> <<lo, docker, wifi, eth>>)

AllSenders ==
    {Addr("v4", "private", n, 9) : n \in {"home", "guest", "docker", "far"}}
    \cup {Addr("v4", "public", n, 9) : n \in {"isp", "far"}}
    \cup {Addr("v6", "public", n, 9) : n \in {"home6", "far"}}
    \cup {Addr("v6", "linklocal", "link", 9), Addr("v4", "cgnat", "utun0", 9)}

Any4 == Addr("v4", "unspecified", "none", 0)
Any6 == Addr("v6", "unspecified", "none", 0)

-----------------------------------------------------------------------------
(* Files, made from what is in them.                                       *)

File(ext, parts, videos, audios, lasts) ==
    [ext |-> ext, parts |-> parts, videos |-> videos, audios |-> audios, lasts |-> lasts]

Box(kind, form, size, leaves) == [kind |-> kind, form |-> form, size |-> size, leaves |-> leaves]
Free == Box("free", "size", 2, <<>>)
Mdat == Box("mdat", "large", 900, <<>>)
Mvhd(ticks) == [kind |-> "mvhd", ticks |-> ticks, scale |-> 2]
Track(fourcc) == [kind |-> "stsd", entries |-> <<[fourcc |-> fourcc, w |-> 1280, h |-> 720]>>]
Moov(fourccs, ticks, size) ==
    Box("moov", "size", size,
        <<Mvhd(ticks), [kind |-> "tkhd", w |-> 0, h |-> 0]>>
        \o [k \in DOMAIN fourccs |-> Track(fourccs[k])])

Mkv(ids, ticks) ==
    <<[kind |-> "info", ticks |-> ticks, scale |-> 1000],
      [kind |-> "tracks", entries |->
          [k \in DOMAIN ids |-> [type |-> ids[k][1], codec |-> ids[k][2], w |-> 1920, h |-> 1080]]]>>

Avc == <<1, {"AVC", "V_MPEG4"}>>
Hevc == <<1, {"HEVC"}>>
Eac3 == <<2, {"EAC3", "AC3"}>>
Ac3 == <<2, {"AC3"}>>
Mp3 == <<2, {"MPEG/L3"}>>

film == File("mp4", <<Free, Mdat, Moov(<<"avc1", "mp4a">>, 90, 5)>>, {"avc"}, {"aac"}, TRUE)
endless == File("mp4", <<Free, Moov(<<"avc1">>, 4000000, 5)>>, {"avc"}, {}, FALSE)
song == File("flac", <<[kind |-> "other", last |-> FALSE],
                       [kind |-> "streaminfo", last |-> TRUE, size |-> 34, rate |-> 44, total |-> 99]>>,
             {}, {"flac"}, TRUE)
podcast == File("mp3", <<>>, {}, {"mp3"}, FALSE)

Lists == <<
    <<film,
      File("mp4", <<Moov(<<"avc3", "ac-3">>, 90, 5), Mdat>>, {"avc"}, {"ac3"}, TRUE),
      File("mp4", <<Free, Moov(<<"mp4a", "hvc1">>, 90, 5)>>, {"hevc"}, {"aac"}, TRUE),
      File("mp4", <<Mdat, Moov(<<"avc1", "ac-3", "mp4a">>, 90, 5)>>, {"avc"}, {"ac3", "aac"}, TRUE),
      File("mov", <<Box("mdat", "rest", 0, <<>>), Moov(<<"avc1">>, 90, 5)>>, {"avc"}, {}, FALSE)>>,
    <<song, endless, film,
      File("m4v", <<Moov(<<"avc1">>, 90, 50)>>, {"avc"}, {}, FALSE),
      File("m4a", <<Free, Moov(<<"mp4a">>, 90, 5)>>, {}, {"aac"}, TRUE),
      File("m4a", <<Free, Moov(<<"ac-3">>, 90, 5)>>, {}, {"ac3"}, TRUE)>>,
    <<File("mkv", Mkv(<<Avc, Ac3>>, 7000), {"avc"}, {"ac3"}, TRUE),
      File("mkv", Mkv(<<Avc, Eac3, Ac3>>, 7000), {"avc"}, {"eac3", "ac3"}, TRUE),
      File("mkv", Mkv(<<Avc, Mp3>>, 7000), {"avc"}, {"mp3"}, TRUE),
      File("webm", Mkv(<<Hevc>>, 0), {"hevc"}, {}, FALSE),
      File("mkv", <<[kind |-> "endless"]>> \o Mkv(<<Avc>>, 7000), {"avc"}, {}, FALSE)>>,
    <<File("flac", <<[kind |-> "other", last |-> TRUE]>>, {}, {"flac"}, FALSE),
      podcast,
      File("wav", <<[kind |-> "fmt", size |-> 18, rate |-> 88],
                    [kind |-> "data", size |-> 880, rate |-> 0]>>, {}, {"pcm"}, TRUE),
      File("wav", <<[kind |-> "data", size |-> 880, rate |-> 0]>>, {}, {"pcm"}, FALSE)>>,
    <<song>> >>

-----------------------------------------------------------------------------
Computer(bind, dual, remote, mac, files, nets, limit, watch) ==
    [bind |-> bind, dual |-> dual, remote |-> remote, mac |-> mac, files |-> files,
     nets |-> nets, changes |-> limit, watch |-> watch]

Computers ==
    <<Computer(Any4, TRUE, FALSE, TRUE, <<>>, {"alone", "denied", "away"}, 2,
               {"no-lan-address", "local-network-denied", "bonjour-failed"}),
      Computer(Any4, TRUE, FALSE, FALSE, <<>>, {"vpn0", "vpn1"}, 2, {"vpn-active"}),
      Computer(Any4, FALSE, FALSE, FALSE, <<>>, {"two", "gateway"}, 1,
               {"multiple-subnets", "ssdp-unavailable"}),
      Computer(Any6, FALSE, TRUE, FALSE, <<>>, {"home", "gateway"}, 1, {"public-address"}),
      Computer(vpn("utun0").ip, TRUE, FALSE, TRUE, <<>>, {"vpn0", "denied"}, 1,
               {"vpn-active"})>>
    \o [k \in DOMAIN Lists |-> Computer(Any4, TRUE, FALSE, FALSE, Lists[k], {"home"}, 0, {})]
=============================================================================
