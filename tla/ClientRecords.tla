--------------------------- MODULE ClientRecords ---------------------------
(***************************************************************************)
(* The map of the client tracker (dlna/src/clients.rs) and what its        *)
(* operations make of it, as operators on a value `map`: a function from   *)
(* the IPs that are known to their records.  ClientTracker and PlayerBrowse *)
(* build their steps from these.                                           *)
(*                                                                         *)
(* Strings that `sanitize` lets through are a few values; IPs are already  *)
(* normalised; `first_seen`, which nothing here reads, is left out.        *)
(***************************************************************************)
EXTENDS Integers, FiniteSets

CONSTANTS
    Ip,           \* the peers
    Device,       \* the device names they may send, "" among them for none
    MaxClients,   \* MAX_CLIENTS
    StuckAfter,   \* STUCK_AFTER, in clock ticks
    SearchGrace,  \* SEARCH_GRACE
    Window,       \* DIAGNOSIS_WINDOW
    BeforeBoot    \* may an Instant lie before the boot, which is time 0?

ASSUME IpAssumption == IsFiniteSet(Ip)
ASSUME DeviceAssumption == "" \in Device
ASSUME MaxClientsAssumption == MaxClients \in Nat \ {0}
ASSUME PeriodAssumption ==
    StuckAfter \in Nat /\ SearchGrace \in Nat /\ Window \in Nat

(* On Unix an Instant is signed; on Windows it counts from the boot.       *)
ASSUME BeforeBootAssumption == BeforeBoot \in BOOLEAN

None == -1

HttpStage == {"Found", "Browsed", "Streamed"}
Stage == {"Searched"} \cup HttpStage

Agent == [product : {"", "AppleCoreMedia/1.0", "SpritzPlayer/1.2"},
          platform : {"", "tvOS"},
          model : {"", "Apple TV"},
          spritz : BOOLEAN]

AnAgent(product, platform, model, spritz) ==
    [product |-> product, platform |-> platform, model |-> model,
     spritz |-> spritz]

NoAgent == AnAgent("", "", "", FALSE)

\* A Spritz token with or without a platform and a model.
SpritzAgent == {a \in Agent : a.spritz /\ a.product = "SpritzPlayer/1.2"}

(* What parse_agent makes of a request: no agent or one without a token,   *)
(* AVPlayer's, or a Spritz token with what the word before it or the       *)
(* comment after it names: `(; Apple TV)` is a model without a platform.   *)
ParsedAgent ==
    {NoAgent, AnAgent("AppleCoreMedia/1.0", "", "", FALSE)} \cup SpritzAgent

\* What the TXT of a player says: a field it leaves out is empty.
TxtAgent == SpritzAgent

Time == Nat \cup {None}  \* Option<Instant>

Record == [agent : Agent, device_name : Device, last_seen : Nat,
           announced : Time, searched : Time, found : Time, browsed : Time,
           streamed : Time, unanswered_since : Time, http : BOOLEAN]

Blank(t) ==
    [agent |-> NoAgent, device_name |-> "", last_seen |-> t,
     announced |-> None, searched |-> None, found |-> None, browsed |-> None,
     streamed |-> None, unanswered_since |-> None, http |-> FALSE]

\* t.checked_sub(SEARCH_GRACE).unwrap_or(t).
Cutoff(t) == IF BeforeBoot \/ t >= SearchGrace THEN t - SearchGrace ELSE t

\* last_http() >= cutoff; an HTTP stage not reached is None.
HttpSince(r, cutoff) ==
    \/ r.found # None /\ r.found >= cutoff
    \/ r.browsed # None /\ r.browsed >= cutoff
    \/ r.streamed # None /\ r.streamed >= cutoff

-----------------------------------------------------------------------------
(* The map.                                                                *)

\* entry(ip).or_insert_with(blank).
Entry(map, ip, t) == IF ip \in DOMAIN map THEN map[ip] ELSE Blank(t)

Put(map, ip, r) ==
    [i \in DOMAIN map \cup {ip} |-> IF i = ip THEN r ELSE map[i]]

Drop(map, ip) == [i \in DOMAIN map \ {ip} |-> map[i]]

Oldest(map) ==
    {i \in DOMAIN map : \A j \in DOMAIN map : map[i].last_seen <= map[j].last_seen}

KeepAll(map) == {map}  \* mutant of Evict: the map grows

(* evict, after one insertion into a map within the cap: its loop runs at  *)
(* most once, and of equally old records it takes whichever comes first.   *)
Evict(map) ==
    IF Cardinality(DOMAIN map) <= MaxClients
    THEN {map}
    ELSE {Drop(map, i) : i \in Oldest(map)}

-----------------------------------------------------------------------------
(* record_at.                                                              *)

AnyAgentReplaces(old, new) == TRUE   \* mutants of Replaces: the last agent
SpritzReplaces(old, new) ==          \* wins; the last Spritz agent wins
    new.spritz \/ (~old.spritz /\ old.product = "")

Replaces(old, new) ==
    IF new.spritz
    THEN ~old.spritz \/ new.model # "" \/ old.platform = ""
    ELSE ~old.spritz /\ old.product = ""

LatestUnanswered(r, t) ==  \* mutant of Unanswered: keyed on the last search
    IF HttpSince(r, Cutoff(t)) THEN r.unanswered_since ELSE t

\* unanswered_since after a search at t.
Unanswered(r, t) ==
    IF r.unanswered_since = None /\ ~HttpSince(r, Cutoff(t))
    THEN t ELSE r.unanswered_since

StageKept(r, t, stage) ==  \* mutant of AtStage: HTTP does not clear it
    CASE stage = "Searched" ->
            [r EXCEPT !.searched = t, !.unanswered_since = Unanswered(r, t)]
      [] stage = "Found"    -> [r EXCEPT !.found = t, !.http = TRUE]
      [] stage = "Browsed"  -> [r EXCEPT !.browsed = t, !.http = TRUE]
      [] stage = "Streamed" -> [r EXCEPT !.streamed = t, !.http = TRUE]

\* The stage's time, and what it does to unanswered_since and http.
AtStage(r, t, stage) ==
    CASE stage = "Searched" ->
            [r EXCEPT !.searched = t, !.unanswered_since = Unanswered(r, t)]
      [] stage = "Found" ->
            [r EXCEPT !.found = t, !.unanswered_since = None, !.http = TRUE]
      [] stage = "Browsed" ->
            [r EXCEPT !.browsed = t, !.unanswered_since = None, !.http = TRUE]
      [] stage = "Streamed" ->
            [r EXCEPT !.streamed = t, !.unanswered_since = None, !.http = TRUE]

Named(r, agent, name, t) ==
    [r EXCEPT !.agent = IF Replaces(@, agent) THEN agent ELSE @,
              !.device_name = IF name = "" THEN @ ELSE name,
              !.last_seen = t]

\* A search that is not a Spritz client's, from a peer that is not known.
Ignored(map, ip, stage, agent) ==
    stage = "Searched" /\ ~agent.spritz /\ ip \notin DOMAIN map

\* The maps record_at may leave.
Recorded(map, t, ip, stage, agent, name) ==
    IF Ignored(map, ip, stage, agent)
    THEN {map}
    ELSE Evict(Put(map, ip,
               AtStage(Named(Entry(map, ip, t), agent, name, t), t, stage)))

-----------------------------------------------------------------------------
(* announce_at, of a Spritz product (any other returns at once), withdraw. *)

\* The instance name is taken when there is none and it is not the model.
Titled(r, instance) ==
    [r EXCEPT !.device_name =
        IF @ = "" /\ instance # r.agent.model THEN instance ELSE @]

WithAnnouncement(r, agent, instance, t) ==
    LET known == [r EXCEPT !.agent =
                     IF ~@.spritz \/ @.model = "" THEN agent ELSE @]
    IN  [Titled(known, instance) EXCEPT
            !.announced = IF @ = None THEN t ELSE @,
            !.last_seen = t]

AnnouncedMaps(map, t, ip, agent, instance) ==
    Evict(Put(map, ip, WithAnnouncement(Entry(map, ip, t), agent, instance, t)))

Withdrawn(map, ip) ==
    IF ip \in DOMAIN map THEN [map EXCEPT ![ip].announced = None] ELSE map

-----------------------------------------------------------------------------
(* What the CLI and the app read.                                          *)

Listed(r) == r.agent.spritz \/ r.http

\* Of a Spritz client, which is the only kind a diagnosis names.
Label(r) == <<IF r.device_name # "" THEN r.device_name ELSE r.agent.model,
              r.agent.platform>>

\* now.saturating_duration_since(t).
Elapsed(t, now) == IF t < now THEN now - t ELSE 0

WindowFromFirst(r, now) ==  \* mutant of SearchStuck: from the first search
    /\ r.agent.spritz
    /\ r.unanswered_since # None
    /\ Elapsed(r.unanswered_since, now) >= StuckAfter
    /\ Elapsed(r.unanswered_since, now) <= Window

SearchStuck(r, now) ==
    /\ r.agent.spritz
    /\ r.unanswered_since # None
    /\ r.searched # None
    /\ Elapsed(r.unanswered_since, now) >= StuckAfter
    /\ Elapsed(r.searched, now) <= Window

AnnounceStuck(r, now) ==
    /\ r.announced # None
    /\ ~HttpSince(r, Cutoff(r.announced))
    /\ Elapsed(r.announced, now) >= StuckAfter

\* diagnosis: the sentence, by its kind and its label, or {}.
Diagnosis(r, now) ==
    IF SearchStuck(r, now) THEN {<<"search", Label(r)>>}
    ELSE IF AnnounceStuck(r, now) THEN {<<"announce", Label(r)>>}
    ELSE {}

=============================================================================
