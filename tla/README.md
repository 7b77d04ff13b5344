# Spritz in TLA+

Spritz serves folders of media to renderers on the local network. It announces
itself over SSDP and Bonjour, answers UPnP ContentDirectory requests, streams
files over HTTP, sends GENA events when the library changes, and tells its user
which clients found it and where they got stuck.

This directory holds TLA+ modules translated from the Rust sources, TLC
configurations that model-check them, and proofs for TLAPS. `PROJECT.json` maps
every definition to the lines it stands for, and lists the runs, the mutants
that show each property can fail, the findings, the hazards and the theorems.

    tlc -config MCEventHub_tables.cfg MCEventHub
    tlapm EventHubProofs.tla

## The system

| Part | Source | State | Operations | Interacts with |
|---|---|---|---|---|
| Event hub | `dlna/src/event.rs` | leases, ContentDirectory subscribers and their next SEQ, SystemUpdateID | subscribe, renew, unsubscribe, `content_changed`, sending a NOTIFY | renderers; the embedder's threads; Browse reads the id |
| Library swap | `dlna/src/lib.rs` | the configuration new requests are served from | the embedder replaces it and calls `content_changed` | hub, ContentDirectory |
| Client tracker | `dlna/src/clients.rs`, `api/src/track.rs` | at most 64 records by IP | record, announce, withdraw, snapshot, diagnosis | SSDP, the HTTP middleware, the player browser, the reporter, the app |
| Progress report | `api/src/report.rs` | what was printed of each client | `lines`, once a second | the tracker |
| Player browser | `api/src/bonjour.rs` | players, their lookups, `Announced` | browse, resolve and address callbacks; mdns_sd events | mDNSResponder or mdns_sd; the tracker |
| SSDP | `dlna/src/ssdp.rs` | the alive burst, reply slots, shutdown, joined groups | alive, byebye, M-SEARCH replies, choice of LOCATION | renderers; the tracker |
| ContentDirectory | `dlna/src/content_dir.rs` | none of its own | Browse, Search, SystemUpdateID | the library captured in `DlnaConfig`; the hub |
| Scan and library | `core/src/lib.rs`, `api/src/lib.rs` | files, sources, folder tree, fixed at start | roots, scan, tree, URLs and their decoding | HTTP, ContentDirectory |
| Media and covers | `api/src/lib.rs`, `core/src/open.rs` | a request and its handle | lookup, opening without links, ranges, streaming, sidecars | the file system |
| Media metadata | `core/src/meta.rs` | none | duration, size, codecs, DLNA profile; sidecars | the probe threads |
| Lifecycle | `api/src/lib.rs`, `cli/src/main.rs` | listener, tasks, probe results, Bonjour registration | start, probe, settle, serve, stop | all of the above |
| Network checks | `api/src/netcheck.rs` | the last checks | gather, evaluate, report what is new | interfaces, SSDP, Bonjour status |
| Peer filter | `api/src/peers.rs` | a bounded set of refused peers | allow or 403 | HTTP, SSDP |
| Identity, SOAP, descriptions | `api/src/identity.rs`, `dlna/src/soap.rs`, `registrar.rs`, `description.rs` | a file read at start | text | - |

The tasks of the CLI are tokio tasks on several threads: one per HTTP request,
one for SSDP with spawned bursts and replies, one per NOTIFY, the report loop,
the check monitor, a pool of probe threads, and the dispatch queue (or thread)
of Bonjour. They share the event hub, the tracker and the probe cache, each
behind locks of its own. What is hard here: the hub's two mutexes that are never
held together; clocks read before locks; timeouts that define who is "stuck";
callbacks for things that have already gone; files that are renamed, linked and
truncated while they are opened and streamed; filters and address choices that
were written apart and have to agree; networks that change under a running
server; tasks that outlive the shutdown of the task that spawned them; NOTIFYs
and datagrams that are lost or overtake each other.

What makes each part correct:

- Event hub: bounded tables, no missed change, SEQ without gaps, no event after
  UNSUBSCRIBE, no lapsed lease revived.
- Library swap: a renderer that browses after each NOTIFY ends with the library
  it was told of and never goes back.
- Tracker: bounded, no false alarm, no missed alarm, a steady diagnosis, a
  Spritz agent kept, and a full one replaced only by one with a model. Reporter: what is stuck is printed once.
- Browser: "on the network" exactly while advertised; lookups end with their
  player.
- SSDP: the byebye is the last word; slots bounded and given back.
- Scan and ContentDirectory: every file in one folder; pages make the list;
  metadata, search and listing agree; a listed URL leads back to its file.
- Media: the bytes asked for, never more than declared, never through a link.
- Metadata and probes: nothing advertised that the file does not hold, everything
  probed in the end.
- Lifecycle, checks and filters: who finds the server can connect to it, every
  standing problem is told once, and it exits only after it has parted.

## Modules

| Module | Models | Kind |
|---|---|---|
| `EventHub` | the hub, one action per lock section | state machine |
| `LibraryFeed` | hub, library swaps, browsing renderers, NOTIFYs lost and reordered | composition |
| `LibraryMirror` | what `LibraryFeed` promises a renderer | abstract specification |
| `ClientRecords` | the tracker's map and its operations as operators | pure |
| `ClientTracker` | the tracker under searches, requests, advertisements, time | state machine |
| `ClientReporter` | the report loop over the tracker | composition |
| `PlayerBrowse` | the browser, `Announced` and the tracker | composition |
| `Ssdp` | discovery and shutdown | state machine |
| `Lists` | sorting and filtering, with definitions the provers can look into | pure |
| `Library` | scan, roots, folder tree, sidecars, URLs | pure |
| `ContentDirectory` | Browse and Search over a library | pure |
| `MediaServer` | requests for files and covers on a file system that changes | state machine |
| `ControlPoint` | paging and fetching against the server | composition |
| `Reachability` | the peer filter, address choices, joined groups | pure |
| `NetChecks` | the network checks | pure |
| `MediaProbe` | the media parsers and the DLNA profile | pure |
| `Server` | the process from bind to exit, on changing networks | composition |
| `*Proofs` | theorems about the module they are named for | proofs |
| `MC*` | constants and symmetry for TLC | instances |

### EventHub

`inner` and `content` are the two tables (`Absent` for a SID that has no row),
`systemUpdateId` the atomic. A handler's program counter says between which
lock sections it stands: `Admit`/`Refuse`, `TrackSnapshot`, `TrackInsert`,
`Answer` for SUBSCRIBE; `Renew`; `UnsubscribeLease`, `UnsubscribeContent`;
`ChangeBump`, `ChangeReadClock`, `ChangeSnapshot`, `ChangeTake` for
`content_changed`; `SendEnds` for a NOTIFY. `issued` and `wire` record the
events handed to sending tasks and those whose send has not ended.

Requests that are answered 400, 412 or 501 before the tables are touched change
nothing and are not actions. A service other than ContentDirectory has a lease
only. The sends of `content_changed` are started when its future is awaited,
which the embedder does at once; they are issued in the step that takes the
SEQs. The clock may not pass the end of a lease whose SUBSCRIBE is still being
handled: the shortest lease is 30 s and the handler does not wait in between.

### LibraryFeed and LibraryMirror

An embedder replaces the library by serving a new `DlnaConfig` that shares the
hub (`Swap`), then calls `content_changed` (`Announce`, the first of its steps).
A Browse keeps the configuration it began with (`BrowseBegins`, `BrowseEnds`).
A send ends with the renderer told (`NotifyArrives`) or not (`NotifyLost`); the
wire is a set, so NOTIFYs overtake each other.

`LibraryMirror` knows neither subscriptions nor requests: versions are
published, a renderer hears of some, and what it shows only moves forward and
catches up with what it heard of. The mapping is `published <- library`,
`mirror <- rows`; `MirrorsTheLibrary` is the whole abstract specification,
fairness included. One Browse at a time per renderer: two at once could end in
either order, which is the renderer's affair.

### ClientRecords, ClientTracker, ClientReporter

`client` is the map from known IPs to records; an operation is one critical
section. `record` and `announce` read the clock before the lock, so a call
carries a reading up to `Lag` ticks old. `httpAt` and `searchAt` are history:
the latest request and the searches since, which the properties compare with
what the record makes of them. Strings are the few values that make a
difference: an agent without token, AVPlayer's, and Spritz's with or without a
platform and a model (`parse_agent` yields all four: `(; Apple TV)` is a model
alone). `BeforeBoot` says whether an Instant may lie before the boot of the
computer, as on Unix; where it may not, as on Windows, `checked_sub` fails and
the cutoff of the grace is the search's own time (`Cutoff`). `Evict` drops any of
the least recently seen records, as a HashMap may yield equal ones in any order.

`ClientReporter` adds the reporter's `seen` and the history `told`: the lines
printed whose statement every report since has found true.

### PlayerBrowse

`interfaces`, `lookup` and `announced` are the players and the `Announced`
table; `calls` the tracker calls a callback has yet to make, which interleave
with requests of clients. `platform` is chosen at the start: macOS callbacks on
a serial queue, or mdns_sd events on a thread. A cancelled lookup gets no
callback (dns_sd promises this), so an answer is only possible while its lookup
is there. An answer of the wrong family or loopback changes nothing.

### Ssdp

`run` is `pc`; bursts and replies are tasks with a position in a fixed script
of datagrams. `Abort` ends a sleeping burst; one inside a poll sends once more,
which is over before the 100 ms gap between two rounds of byebyes is. `heard`
is what each peer was last told of each target, `lost` the datagrams lost.

### Library, ContentDirectory, MediaServer, ControlPoint

The file system is a set of directory entries, `entry[<<directory, name>>]`,
each leading to an inode that is a directory, a file, a link or something else.
A name is a tuple of two numbers or more, its extension last, whose order and
prefixes are those of the bytes; case is the parity of a number. `Index` is what
`start_server` computes: canonical roots without duplicates and nested ones, the
files below them in scan order, and the folder tree. The tree's arena order and
its ids are those of the code. Loops are recursive functions, one value per round
(`UniqueCanonicalRoots`, `EnsureFolder`, `BuildFolderTree`, `SubtreeOf`, `Walk`),
sorts and filters those of `Lists`: the provers can unfold both.

`ContentDirectory` answers a request from that library: every kind of object id,
the page slice with its cap, parents, child counts and URLs. DIDL is a record
per object.

`MediaServer` takes one action per call on a path or a handle: `RequestMedia`
(decode and lookup), `OpenRoot`, one `OpenDirectory` per component, `OpenFile`,
`AnswerHead` (length, range, status), `StreamChunk` per read; covers go through
`FindArt`. The opening is that of Unix; the one of Windows (`open.rs:56-82`) follows
links of directories, as its comment says, and is not modelled. Between them the files' owner acts: `Rename` puts another inode in a
place, `Unlink` takes one away, `Resize` changes the file's length. Method and
`Range` are chosen in `AnswerHead`, where they are first read. The owner changes
entries only while a request is opening: a change before the request is one
before its first step, and no path is read once the file is open. Errors of
`metadata()` and `seek` on an open handle are left out.

`ControlPoint` pages a container or a search and fetches what it found, or what
the playlist, a stale URL or a cover index names. It forgets the list once it
has picked.

### Reachability, NetChecks, MediaProbe, Server

`Reachability` is the set of functions of the interfaces that `peers.rs`,
`ssdp.rs` and `api/lib.rs` compute for each peer: an address is its family, its
range and its network, a mask covers nothing, the network or the address.
`NetChecks` evaluates the checks; a check is its id and what its message says.
`MediaProbe` walks the boxes, elements, chunks and blocks of a file in order.

`Server` is the process: `BindHttp`, `Indexed` (the advertised address is fixed,
SSDP and the probes are spawned), `SsdpOpens` (or both ports are taken),
`Sample` (what the server takes SSDP for), `Advertise`, `OnRegister` (the
responder's callbacks, at any time), `Settle`, `Signal`, `ServeEnds`,
`SsdpParts`, `CleanUp`. The monitor takes three steps: `MonitorGathers` reads the
status and the interfaces; `MonitorProbes` sends a datagram to the gateway of one
of them, from the address that was read, and cannot if no interface has it any
more; `MonitorTells` connects to the gateway, reads the public addresses and
compares. The network may change in between, each time. `ProbesFile` is one file
of a probe thread. SSDP's sockets are opened, or known to be taken, within the
300 ms the server waits for them; settle ends at any moment. `Checks`, `Gateways`
and `Probed` are tables over all inputs, for TLC's sake.

## Runs

| Run | Shows | Bounds |
|---|---|---|
| `hub_tables` | `TablesBounded`, `TrackedNeverMissChange`, `SeqGapless`, `NoneIssuedAfterUnsubscribe`, `EventsCarryNewerIds` | 2 SIDs for 1 place, 2 threads, 2 changes, leases of 1 and 2 ticks |
| `feed` | types, `SeqZeroOnlyInitial`, `LapsedStaysLapsed`, `TrackedEventuallyTold`, `MirrorsTheLibrary` | 1 renderer, 2 swaps, SEQ wraps at 1 |
| `hub_lost` | violates `EveryLiveSubscriberNotified` | 2 SIDs |
| `tracker` | `OnlySpritzDiagnosed`, `DiagnosedNeverConnected`, `StuckSearchDiagnosed`, `SteadyDiagnosis`, `DetailedAgentKept` | 1 peer, 5 ticks, readings 1 tick late |
| `reporter` | `RecordsBounded`, `SearchToldOnce`, `StuckIsTold` | 2 peers for 1 record, 2 ticks, no Instant before the boot |
| `reporter_twice` | violates `NothingToldTwice` | 1 peer, 4 ticks |
| `browse` | types, `OnNetworkIsAdvertised`, `AdvertisedIsOnNetwork`, `LookupsBelongToPlayers` | 2 players, 2 interfaces, 2 addresses |
| `browse_retry` | violates `LaterAppearanceRetries` | 1 player |
| `ssdp_byebye` | `RepliesBounded`, `ByebyeIsLastWord`, `NoAliveOnceStopped`, `SlotsComeBack` | 2 sockets, 2 targets, 2 bursts, 3 searches, 1 lost datagram |
| `ssdp_late_reply` | violates `ClientsDropIt` | 1 socket, no loss |
| `library` | `EachFileInOneFolder`, `SubtitleOfLongestStem`, `PagesMakeTheList`, `MetadataAgrees`, `SearchFindsTheSubtree`, `RangeIsTheOneAsked`, `PartialBodyFits`, `NoLinkFollowed`, `UrlLeadsBack` | 2 disks of 10 and 12 entries, 3 lists of sources, page cap 2, counts 0, 1 and 3, 12 headers, files of 0 or 3 bytes in chunks of 2, 1 request, 2 changes |
| `server` | `SearchersCanConnect`, `WhatIsAdvertisedIsTrue`, `ProblemsToldOnce`, `ProbesFilled`, `CleanExit` | 5 computers on 8 networks, up to 2 network changes; 5 lists of files, 2 probe threads |

Why the bounds are enough. The hub's rows do not refer to each other except
through the cap, so one more SID than places shows every effect of a full
table; the races are between two handlers, and between a handler and two calls
of `content_changed`. Renderers of the feed share nothing but the library, so
one suffices; the second swap is the one that finds a Browse and a NOTIFY of the
first still under way. A peer's record depends on no other's except through
eviction, for which two peers and one place suffice; five ticks hold a search,
the grace before it, the delay to its diagnosis and the end of its window, each
with room to move. Two players are the fewest that can share an address. A
burst before the last one, and the last one, are the two whose abort matters.

The disks hold folders three deep, names that differ in case only, stems that
are prefixes of each other, a junk folder and a directory that only a link leads
to; the sources are given apart, twice and inside each other. A cap of 2 lies
below the longest list, and pages of 1, 2 and all are asked for. Three bytes in
chunks of two make a read that is limited by the range, by the chunk and by the
end of the file. Two changes put a link in and take it out again. The computers
of `server` are those whose answers differ: no network, a VPN that replaces
another, two subnets, a public address, IPv6 only, a bind to one address, and a
refused LAN permission on macOS, which is refused on two networks of three so
that the address a probe was to be sent from may be gone. Each list of files holds a file that reaches a
branch of its parser no other does, among them one whose probe panics in the
middle of a thread's chunk.

Fairness. A started hub handler has no wait but its mutexes, and a send is
bounded by `NOTIFY_TIMEOUT`: weak fairness on each handler's next step and on
the end of each send, arrived or lost (`FeedFairness`). The embedder makes the
call that follows a swap, a Browse that began ends, and a renderer that was told
browses: weak fairness on each. The report task's interval keeps ticking: weak
fairness on `Report`. Spawned SSDP tasks only sleep and send; the select of
`run` polls the shutdown branch in every round: weak fairness on both. In
`Server` the monitor's interval ticks, probe threads run on, and a stop, once
begun, waits for nothing but the SSDP task and the blocking thread: weak fairness
on the three. Requests, library changes, time, lookups, networks and signals
are the environment's and get none.

Runs turn deadlock checking off where the system may stop: a bounded clock and
bounded requests end with nothing left to do, and the server exits.

Type invariants are run for `EventHub` (in `feed`) and `PlayerBrowse`; that of
`ClientTracker` is a theorem, as are the other two. `ControlPoint` and `Server` have none: their
properties read every part of the state that could go wrong.

## Findings

With a run:

1. `hub_lost`: `content_changed` and `track_content_subscriber` apply SIDs read
   under one lock to a table under another. A SUBSCRIBE in between is dropped
   from the table and never notified, though its lease is live and renewable.
2. `reporter_twice`: the reporter compares a diagnosis with the last one only,
   so two that take turns are printed again, against its comment.
3. `browse_retry`: a failed lookup is not retried by a later appearance on
   another interface, against the comment where it is dropped.
4. `ssdp_late_reply`: replies under way at shutdown are sent after the
   byebyes, so a client may hold on to the server it was told to drop.

Met while modelling, without a run of their own; most are preconditions of a
property above:

- An agent with a model and no platform, which `(; Apple TV)` gives
  (`clients.rs:117-121`), is replaced by the bare form of the next search, as its
  platform is empty (`clients.rs:277`), though the comment there says that the
  form with a model beats the bare one; and it takes the platform of a full agent
  away. `DetailedAgentKept` promises no more than that.
- Where an Instant cannot lie before the boot of the computer, as on Windows, the
  grace before a search in the first two minutes is lost (`clients.rs:289`, `419`):
  a client that connected a moment before it may be diagnosed as never having
  connected. `DiagnosedNeverConnected` measures from the cutoff the code computes
  (`Cutoff`), which there is the search itself.
- With `--bind` to one address of a computer with several, `LOCATION` names the
  one on the searcher's subnet (`ssdp.rs:461`), on which nothing may listen, though
  `api/lib.rs:560` calls the bound address the one advertised in `LOCATION`.
  There `SearchersCanConnect` requires the filters and the family to agree, not the
  address.
- The probe of the gateway sends from an address read earlier (`netcheck.rs:304`,
  `347`). If the network has changed since, the socket cannot be bound, nothing is
  found denied, and the next look tells "local-network-denied" again though it
  stood on both networks. `ProblemsToldOnce` leaves out this one case
  (`ProbeUnsettled`).
- A signal before the select, in the first 2.3 s or so, ends the process
  without byebyes; `Signal` then leads to `killed`, which `CleanExit` leaves out.
- Multicast groups are joined once (`ssdp.rs:209`) and the fallback address is
  fixed at start (`api/lib.rs:125`): a computer that changes networks is heard
  only where it was. `SearchersCanConnect` speaks of joined interfaces, and of
  that fallback requires its family only.
- A source inside a junk folder of another source is dropped as covered by it
  (`core/lib.rs:119-121`), although the scan never enters that folder.
- The files behind one whose probe panics, in the same thread's chunk, are never
  probed, although `api/lib.rs:214-215` says `spawn_probe` fills them.
  `ProbesFilled` leaves them out.
- `mp4a` is read as AAC and an unknown audio codec does not contradict a
  profile, so ALAC in an `.m4a` is advertised as `AAC_ISO` (`meta.rs:120`).
- A 200 is streamed to the end of the file, not to the length it declared: if the
  file grows, only hyper keeps the body within its Content-Length.
  `PartialBodyFits` bounds 206.

## Proofs

Each theorem holds for every value of the constants that the named `ASSUME`s
allow: finite sets of SIDs and peers, positive caps, widths, leases and chunks,
well-formed headers, files and scripts that are sequences; of a disk, that names
have a stem and an extension, that only directories have entries, that entries
lead to inodes, and that the paths looked at are finitely many and each below
another (`InodeAssumption`, `PathAssumption`). Where a theorem needs more, the
hypothesis is part of its statement and named below.

`EventHubProofs`, for all SIDs, threads, caps, widths and bounds:

- `TypeCorrect`: the types, among them that SEQ stays within its width and never
  becomes 0, and the id wraps.
- `TablesAreBounded`: both tables within the cap. `inner` is checked when a SID
  is admitted. `content` is not: each step that inserts into it first retains
  SIDs that were leased, and `SnapshotsBounded` strengthens the invariant with
  the size of what a handler read, its own SID included.
- `NoneIssuedAfterUnsubscribeHolds`, `LapsedStaysLapsedHolds`: action properties,
  from the types and the order of the two removals (`Placed`).
- `TrackedNeverMissChangeHolds`: a tracked subscriber has been issued the current
  id, or the thread that made it is still on its way to issuing it.
- `SeqZeroOnlyInitialHolds`: `IssuedInv` adds that nothing is issued before a
  handler has inserted its row, and that SEQ 0 is issued once, with the answer.
- `SeqGaplessHolds`, if `MaxChanges < SeqMax`, so that SEQ does not wrap. A row's
  next SEQ is one more than the SEQs issued so far (`Gapless`); that it does not
  wrap rests on counting: no row is ahead of the calls that were made, those
  still under way not included (`CallsCounted`).
- `EventsCarryNewerIdsHolds`, for any callers, if `MaxChanges + 1 < IdModulus`: a
  call's id is newer than every event issued before it began, and is the one its
  events carry, once per subscriber. The invariant counts
  (`IdsInOrder`): calls under way have different ids, none above the atomic's, and
  none of them was issued to anybody yet but as the current one of a new
  subscriber. Calls that overlap may take their SEQs in either order.

`EventHubProofs` again, the refinements:

- `FeedImplementsHub`: the composition implements `EventHub` alone, so what is
  proved of the hub holds in it.
- `FeedImplementsMirror`: every step of the composition is a step of
  `LibraryMirror` or a stutter, if `MaxChanges + 1 < IdModulus`. `FeedInv` says
  that an id on its way tells of a library that is served already, and that a
  Browse ends with no older library than its renderer shows. The fairness of the
  mirror is checked by TLC (`MirrorsTheLibrary`).

`ClientRecordsProofs` states what the tracker's operators do to a map and to a
record: `EvictShape` and `EvictBounded` (an insertion followed by `evict` leaves
known records and ends within the cap), `RecordedKeeps` and `AnnouncedKeeps`
(what a record keeps when its peer is heard or advertised), and what a search, a
request and an advertisement do to its times (`SearchTimes`, `RequestTimes`,
`AnnouncedTimes`). On these rest, for all peers, caps, periods and lags,
`ClientTrackerProofs`:

- `TypeCorrect`, `RecordsBoundedHolds`.
- `OnlySpritzDiagnosedHolds`. `announce_diagnosis` reads no agent, so the
  invariant says that a record with an advertisement has a Spritz agent
  (`AnnouncedSpritz`); it is inductive because no agent replaces a Spritz one but
  another Spritz one, and `announce` always leaves one.
- `DetailedAgentKeptHolds`, an action property: a Spritz agent stays one, and one
  with a platform and a model gives way only to one with a model. `StepShape`
  reduces every step to four ways a record may change. An agent with a model alone
  is not kept by the code.
- `DiagnosedNeverConnectedHolds`, `StuckSearchDiagnosedHolds`,
  `SteadyDiagnosisHolds`. Their invariant, `TimesInv`, relates the times of a
  record to the log of what its peer did, up to `Lag`: an HTTP request leaves a
  stage no more than `Lag` older; `searched` is no more than `Lag` older than any
  search; and `unanswered_since` stands from the first search that no request
  answered. It is inductive though calls overtake each other, because a call
  that waited for the mutex carries a reading at most `Lag` old.
  All three hold wherever the clock begins (`BeforeBoot`).
- `ReporterLeavesTheTracker`: the report task only reads, so all of the above
  holds under it.
- `SearchToldOnceHolds`, by `SeenInv`: `seen` still says everything that was
  printed and has been true since, but for an advertisement's diagnosis, whose
  place a stuck search may take (which is the finding of `reporter_twice`).

`PlayerBrowseProofs`:

- `TypeCorrect`.
- `OnNetworkIsAdvertisedHolds`. Between the two tracker calls of a callback the
  property does not hold; `NetworkInv` adds that the withdrawal is still pending,
  and that a pending announcement is of an address that stands.
- `AdvertisedIsOnNetworkHolds`, the other direction, if there are no more peers
  than `MAX_CLIENTS` (`RoomForAll`): an eviction forgets an advertisement that
  stands, as the hazards say. `ShownInv` adds the pending announcements, and that
  no pending withdrawal is of an address some instance holds.
- `LookupsBelongToPlayersHolds`, which is inductive with the types.

`SsdpProofs`, for all sockets, targets, bursts, searches, peers and rounds:

- `RepliesBoundedHolds`: a reply task has a slot until it ends (`Slots`).
- `NoAliveOnceStoppedHolds`, if the byebyes take more than one round: after the
  first gap no burst is inside a poll (`Hushed`).
- `ByebyeIsLastWordHolds`, if fewer datagrams are lost than there are rounds after
  the first: three rounds survive one. The invariant counts (`Told`): a peer that
  still believes in a target has lost every byebye of it sent since the first
  gap, so as many as there were rounds.

`ListsProofs` is about the operators of `Lists` and about recursion:

- `Ranks`, `RankedIs`: a finite set under a strict total order is listed by
  `Sorted` once each and in order. `LexIsStrict`, `ByKeyIsStrict`: the orders of
  sequences, and of keys with a tie-break, are such orders.
- `SublistIs`: a filter yields what stands at the positions it keeps, in their
  order; `Picks` says which position each element comes from.
- `RecursionExists`, `UpTo`, `SetInduction`, `Greatest`: a recursive function over
  0 .. n exists, so that its definition may be unfolded, and induction over its
  rounds by a least counterexample. The library's induction theorems take an
  operator as a parameter and cannot be used here; a set of the rounds at which
  the claim holds can.

`MediaServerProofs`, for all disks, sources, file systems, lengths, chunk sizes,
headers, page caps and counts. First the index:

- `IndexIsSound`. What `start_server` scans satisfies `IndexOK`, and no step changes
  it: no source lies in another (`Apart`); files are below a source, each once, and
  none begins the path of another (`Indexed`); the sources are the first nodes,
  and every other one hangs under exactly one earlier node, that of its directory
  (`Tree`); each file is in the node of its directory alone (`Placed`). The proof
  follows the code, an invariant per loop: `OutermostKeepsApart`,
  `AddFolderKeeps`, `EnsureFolderKeeps`, `AddMediaKeeps`, `PlaceFileKeeps`, and
  `SortReorders` for the sort of the finished tree. That no file has the path of
  a node is part of it: otherwise `ensure_folder` might take one for the other.
- `EachFileInOneFolderHolds`, `SubtitleOfLongestStemHolds`, from `IndexOK`; the
  second by `OwnerStemIsLongest`.

Then what is listed, where `IndexOK` is all that is known of the library:

- `PagesMakeTheListHolds`. `PagingInv`: what was read is a beginning of the
  container's list or of what a search finds, a page goes on where it ends and is
  empty only at the end (`PageGoesOn`), and the list is as long as childCount says
  (`ChildCountIsRight`).
- `MetadataAgreesHolds`, by `ChildrenAgree`: the one node that lists a folder or a
  file is the parent its metadata names (`ParentsAre`).
- `SearchFindsTheSubtreeHolds`. `SubtreeIs`: the nodes reached from a folder are
  those whose path its path begins. Parents have smaller indices than their
  folders, so each is reached within as many rounds as there are nodes. So the
  candidates are the files below the container, each once (`CandidatesAre`).

Then what is sent:

- `ParseByteRangeCorrect`, a lemma: for every header and length the range is
  exactly the bytes the header asks for, and non-empty when it is a part.
- `RangeIsTheOneAskedHolds`: the same of every answer, with its status and
  declared length. `AnswerOK` keeps the length that was read with the answer, so
  later changes of the file do not matter.
- `PartialBodyFitsHolds`. A stream's position is the range's start and what was
  sent (`BodyOK`); and as long as nothing was changed since the request, the
  length read is still the file's, so a read of nothing means that all was sent.
- `NoLinkFollowedHolds`, if what links lead to is outside of what is served
  (`OnlyLinksLeadOut`, without which "only a link leads there" says nothing). The
  invariant is about the entries too (`EntriesOK`): renames put in links, never
  what they lead to, so a name looked up in a handle is never that.
- `UrlLeadsBackHolds`. A URL names a source that begins the file's path, and
  decoding undoes the encoding of the rest (`MediaUrlLeads`); what is listed, and
  the k-th entry of the playlist, has the URL of its own file (`ListedLeads`,
  `PlaylistIs`). The invariant, `UrlInv`, says that the handle is what a walk
  along the first names of the path leads to, and the names left to open are the
  others (`OnItsWay`). The scan follows no link and the opening of the source
  does: they agree because whatever stands above a file has entries and so is a
  directory (`DirectoriesAbove`).

`ServerProofs`, for all computers, networks, files and threads:

- `DiscoveredIsReachable`, which is `SearchersCanConnect`, for any binding: HTTP
  admits every searcher that SSDP answers, and what is announced or told is of a
  family HTTP is served on. That it is the server's own address on the searcher's
  subnet is for a server bound to every address. Two
  assumptions say which computers and senders there are: an address is of IPv4 or
  IPv6, the interfaces on one subnet have one mask and one gateway, and no sender has an address of the
  computer (`NetsAssumption`, `SendersAssumption`). The mask matters:
  `local_ip_for_peer` (`ssdp.rs`) asks every interface, `peers.rs` only those
  that are up, so two masks on one subnet could make the filters disagree. Each
  choice of an address is the first one with a property (`FirstIs`), and
  `LocalIpIs`, `LocationIpServed` and `AddressesNamed` say which.
- `NeverToldTwice`, the safety half of `ProblemsToldOnce`. `ToldInv`: a problem
  that was told and has stood since was in what the monitor found last, and stood
  when the look under way began. A look that mixes two networks still finds what
  both have (`MixedLook`), but for a denied gateway: there a look finds it as long
  as the network stays (`AnswersOfNet`, from the one gateway of a subnet), and the
  property excepts a network that moves under the probe.
- `PartedBeforeExit`, the safety half of `CleanExit`.
- `SlotsAreTheirOwn`: whatever thread fills which slot when, a slot is empty or
  holds what its own file probes to. `SlotOfFile` is the arithmetic: the offset
  of a file in a thread's chunk, added to the chunk's start, is its index again.
- `WhatIsAdvertisedIsTrueHolds`, if the parsers are right about the codecs they
  name and leave none unnamed that a profile depends on (`ParsersRight`). The
  choice of the profile adds no error of its own (`ProfileIsOfWhatIsFound`).

Every safety invariant and action property that a passing run checks is a theorem. What
stays with TLC, and why:

- Liveness: `TrackedEventuallyTold`, `StuckIsTold`, `SlotsComeBack`,
  `ProbesFilled`, the other halves of `MirrorsTheLibrary`, `ProblemsToldOnce` and
  `CleanExit`. They need fairness and `ENABLED`, which TLAPS does not reason about
  here.
- The parsers (`ParsersRight`): folds over boxes and elements of a file, for which
  there is no reference but the formats themselves; TLC runs them on the files of
  `server`.

## Plan

Done: the hub, the tracker and its report, the browser, SSDP, the library and
its requests, the lifecycle with checks, filters and probes, the refinements; the
safety of all of them proved.

Left, the most important first:

1. `AdvertisedIsOnNetwork` without `RoomForAll`, of a player that was heard since.
2. `WhatIsAdvertisedIsTrue` without `ParsersRight`, from what a well-formed file is.
3. Subtitles: that the URL of a listed sidecar leads to the sidecar.

## Not modelled

- `safe_media_path`, which no crate calls, and `dc_date` of `core`.
- The log that names each refused peer once (`PeerFilter::first_refusal`).
- Text: SOAP envelopes, descriptions, DIDL, GENA headers and callback URLs,
  terminal wording, how numbers are spelt in media files, the identity
  document. Where a decision depends on it, the model keeps the decision.
- `open_nofollow` on Windows, which follows links of directories by its own
  comment.
- What the operating system and the responders do: interfaces, sockets, dns_sd
  and mdns_sd are modelled by what the code may see of them.
