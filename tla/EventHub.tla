------------------------------ MODULE EventHub ------------------------------
(***************************************************************************)
(* GENA eventing of the media server: dlna/src/event.rs, `EventHub`.       *)
(*                                                                         *)
(* The hub keeps two tables under two separate mutexes, `inner` (SID to    *)
(* lease expiry, every service) and `content` (the ContentDirectory        *)
(* subscribers and the SEQ of their next NOTIFY), and an atomic            *)
(* `system_update_id`.  A handler runs on its own task and takes the two   *)
(* locks one after the other, never together, so handlers interleave       *)
(* between their lock sections: each action below is one lock section (or  *)
(* one atomic access) of one handler.                                      *)
(*                                                                         *)
(* SUBSCRIBE handlers are named by the fresh SID they make, calls of       *)
(* `content_changed` by the thread of the embedder that makes them.        *)
(***************************************************************************)
EXTENDS Integers, FiniteSets

CONSTANTS
    Sid,         \* the SIDs that new subscriptions get (uuid v4: never reused)
    Caller,      \* the embedder's threads that call content_changed
    Cap,         \* MAX_SUBSCRIPTIONS
    Ttl,         \* the lease lengths a SUBSCRIBE may ask for, in clock ticks
    SeqMax,      \* the last SEQ before the wrap (u32::MAX)
    IdModulus,   \* SystemUpdateID is an u32: 2^32
    MaxTime,     \* bound of the model: the last clock reading
    MaxChanges   \* bound of the model: the number of content_changed calls

ASSUME SidAssumption == IsFiniteSet(Sid)
ASSUME CapAssumption == Cap \in Nat \ {0}
ASSUME TtlAssumption == Ttl \subseteq Nat \ {0}
ASSUME WidthAssumption == SeqMax \in Nat \ {0} /\ IdModulus \in Nat \ {0}
ASSUME BoundAssumption == MaxTime \in Nat /\ MaxChanges \in Nat

VARIABLES
    now,             \* Instant::now()
    inner,           \* inner[s]: expiry of the lease of s, or Absent
    content,         \* content[s]: next_seq of s, or Absent
    systemUpdateId,  \* the atomic
    subPc,           \* where the SUBSCRIBE handler that made s stands
    service,         \* the service s subscribes to
    subLive,         \* the SIDs that handler read in track_content_subscriber
    unsubPc,         \* where the UNSUBSCRIBE handler of s stands
    chgPc,           \* where the content_changed call of a thread stands
    chgId, chgNow, chgLive,  \* its id, clock reading and live SIDs
    issued,          \* history: the NOTIFYs spawned for s
    wire,            \* those of them whose send has not ended yet
    changes          \* history: content_changed calls made so far

subVars == <<subPc, service, subLive>>
chgVars == <<chgPc, chgId, chgNow, chgLive>>
vars == <<now, inner, content, systemUpdateId, subVars, unsubPc, chgVars,
          issued, wire, changes>>

Absent == -1

Service == {"ContentDirectory", "Other"}

Notify == [seq : Nat, id : Nat]

-----------------------------------------------------------------------------
(* The maps and what the handlers do with them.                            *)

Leased == {s \in Sid : inner[s] # Absent}
Tracked == {s \in Sid : content[s] # Absent}
Unexpired(t) == {s \in Sid : inner[s] > t}

KeepAllRows == inner  \* mutant of RetainUnexpired: no expired row is dropped

\* map.retain(|_, expires| *expires > now), in admit and in renew.
RetainUnexpired == [s \in Sid |-> IF inner[s] > now THEN inner[s] ELSE Absent]

KeepAllSubscribers(live) == content  \* mutant of RetainLive

\* subs.retain(|sid, _| live.contains(sid)).
RetainLive(live) ==
    [s \in Sid |-> IF s \in live THEN content[s] ELSE Absent]

SameSeq(n) == n                   \* mutants of NextSeq: the SEQ does not
WrapToZero(n) == (n + 1) % (SeqMax + 1)   \* advance, wraps to 0,
NoWrap(n) == n + 1                \* or outgrows its width

\* checked_add(1).unwrap_or(1): 0 is reserved for the initial event.
NextSeq(n) == IF n < SeqMax THEN n + 1 ELSE 1

SameId == systemUpdateId  \* mutant of NoticeId

\* What fetch_add(1) leaves in the atomic.
NextId == (systemUpdateId + 1) % IdModulus

\* fetch_add(1).wrapping_add(1): fetch_add returns the old value.
NoticeId == NextId

IdReadAgain(c) == systemUpdateId  \* mutant of EventId: of a later call

\* The id a call's events carry: the one its own fetch_add made.
EventId(c) == chgId[c]

\* A NOTIFY with SEQ 0 carrying the current id is spawned for s.
IssueInitial(s) ==
    LET m == [seq |-> 0, id |-> systemUpdateId]
    IN  /\ issued' = [issued EXCEPT ![s] = @ \cup {m}]
        /\ wire' = [wire EXCEPT ![s] = @ \cup {m}]

SeqsTakenLeavingOthers(live) ==  \* mutant of SeqsTaken: no retain
    [s \in Sid |-> IF s \in Tracked \cap live
                   THEN NextSeq(content[s]) ELSE content[s]]

\* RetainLive(live), and the next_seq of every row that is left advanced.
SeqsTaken(live) ==
    [s \in Sid |-> IF s \in Tracked \cap live
                   THEN NextSeq(content[s]) ELSE Absent]

-----------------------------------------------------------------------------
Init ==
    /\ now = 0
    /\ inner = [s \in Sid |-> Absent]
    /\ content = [s \in Sid |-> Absent]
    /\ systemUpdateId = 1 % IdModulus
    /\ subPc = [s \in Sid |-> "idle"]
    /\ service = [s \in Sid |-> "Other"]
    /\ subLive = [s \in Sid |-> {}]
    /\ unsubPc = [s \in Sid |-> "idle"]
    /\ chgPc = [c \in Caller |-> "idle"]
    /\ chgId = [c \in Caller |-> 0]
    /\ chgNow = [c \in Caller |-> 0]
    /\ chgLive = [c \in Caller |-> {}]
    /\ issued = [s \in Sid |-> {}]
    /\ wire = [s \in Sid |-> {}]
    /\ changes = 0

\* A SUBSCRIBE handler between two of its steps.
InHandler(s) == subPc[s] \in {"admitted", "tracking", "tracked"}

(***************************************************************************)
(* The clock.  A lease is at least 30 s and a SUBSCRIBE handler has no     *)
(* await between its lock sections, so no handler sleeps through the whole *)
(* lease it has just granted.                                              *)
(***************************************************************************)
Tick ==
    /\ now < MaxTime
    /\ \A s \in Sid : InHandler(s) => inner[s] > now + 1
    /\ now' = now + 1
    /\ UNCHANGED <<inner, content, systemUpdateId, subVars, unsubPc, chgVars,
                   issued, wire, changes>>

-----------------------------------------------------------------------------
(* SUBSCRIBE without a SID, from a callback on the peer.                   *)

\* admit_subscription: expired rows go, s is inserted when below the cap.
Admit(s, svc, ttl) ==
    /\ subPc[s] = "idle"
    /\ Cardinality(Unexpired(now)) < Cap
    /\ inner' = [RetainUnexpired EXCEPT ![s] = now + ttl]
    /\ subPc' = [subPc EXCEPT ![s] =
                    IF svc = "ContentDirectory" THEN "admitted" ELSE "tracked"]
    /\ service' = [service EXCEPT ![s] = svc]
    /\ UNCHANGED <<now, content, systemUpdateId, subLive, unsubPc, chgVars,
                   issued, wire, changes>>

\* The table is full: 503, the SID is dropped; expired rows went all the same.
Refuse(s) ==
    /\ subPc[s] = "idle"
    /\ Cardinality(Unexpired(now)) >= Cap
    /\ inner' = RetainUnexpired
    /\ UNCHANGED <<now, content, systemUpdateId, subVars, unsubPc, chgVars,
                   issued, wire, changes>>

\* track_content_subscriber, first lock: the keys of inner, expired or not.
TrackSnapshot(s) ==
    /\ subPc[s] = "admitted"
    /\ subLive' = [subLive EXCEPT ![s] = Leased]
    /\ subPc' = [subPc EXCEPT ![s] = "tracking"]
    /\ UNCHANGED <<now, inner, content, systemUpdateId, service, unsubPc,
                   chgVars, issued, wire, changes>>

\* track_content_subscriber, second lock: retain the live ones, insert s.
TrackInsert(s) ==
    /\ subPc[s] = "tracking"
    /\ content' = [RetainLive(subLive[s]) EXCEPT ![s] = 1]
    /\ subPc' = [subPc EXCEPT ![s] = "tracked"]
    /\ subLive' = [subLive EXCEPT ![s] = {}]
    /\ UNCHANGED <<now, inner, systemUpdateId, service, unsubPc, chgVars,
                   issued, wire, changes>>

\* The body of the initial event is read, its NOTIFY is spawned, 200 is sent.
Answer(s) ==
    /\ subPc[s] = "tracked"
    /\ subPc' = [subPc EXCEPT ![s] = "answered"]
    /\ IF service[s] = "ContentDirectory"
       THEN IssueInitial(s)
       ELSE UNCHANGED <<issued, wire>>
    /\ UNCHANGED <<now, inner, content, systemUpdateId, service, subLive,
                   unsubPc, chgVars, changes>>

-----------------------------------------------------------------------------
(* SUBSCRIBE with a SID, UNSUBSCRIBE: a client knows s once s is answered. *)

\* renew_subscription: 200 with a longer lease, or 412; no event either way.
Renew(s, ttl) ==
    /\ subPc[s] = "answered"
    /\ inner' = [RetainUnexpired EXCEPT
                    ![s] = IF @ = Absent THEN Absent ELSE now + ttl]
    /\ UNCHANGED <<now, content, systemUpdateId, subVars, unsubPc, chgVars,
                   issued, wire, changes>>

UnsubscribeLease(s) ==
    /\ subPc[s] = "answered"
    /\ unsubPc[s] = "idle"
    /\ inner' = [inner EXCEPT ![s] = Absent]
    /\ unsubPc' = [unsubPc EXCEPT ![s] = "unleased"]
    /\ UNCHANGED <<now, content, systemUpdateId, subVars, chgVars, issued,
                   wire, changes>>

\* Mutant of UnsubscribeContent: only the lease is given up.
ForgetContent(s) ==
    /\ unsubPc[s] = "unleased"
    /\ unsubPc' = [unsubPc EXCEPT ![s] = "answered"]
    /\ UNCHANGED <<now, inner, content, systemUpdateId, subVars, chgVars,
                   issued, wire, changes>>

UnsubscribeContent(s) ==
    /\ unsubPc[s] = "unleased"
    /\ content' = [content EXCEPT ![s] = Absent]
    /\ unsubPc' = [unsubPc EXCEPT ![s] = "answered"]
    /\ UNCHANGED <<now, inner, systemUpdateId, subVars, chgVars, issued,
                   wire, changes>>

-----------------------------------------------------------------------------
(* content_changed, called by thread c.                                    *)

\* fetch_add.
ChangeBump(c) ==
    /\ chgPc[c] = "idle"
    /\ changes < MaxChanges
    /\ changes' = changes + 1
    /\ systemUpdateId' = NextId
    /\ chgId' = [chgId EXCEPT ![c] = NoticeId]
    /\ chgPc' = [chgPc EXCEPT ![c] = "bumped"]
    /\ UNCHANGED <<now, inner, content, subVars, unsubPc, chgNow, chgLive,
                   issued, wire>>

\* Instant::now(), before the first lock.
ChangeReadClock(c) ==
    /\ chgPc[c] = "bumped"
    /\ chgNow' = [chgNow EXCEPT ![c] = now]
    /\ chgPc' = [chgPc EXCEPT ![c] = "timed"]
    /\ UNCHANGED <<now, inner, content, systemUpdateId, subVars, unsubPc,
                   chgId, chgLive, issued, wire, changes>>

\* First lock: the SIDs whose lease outlives that reading.
ChangeSnapshot(c) ==
    /\ chgPc[c] = "timed"
    /\ chgLive' = [chgLive EXCEPT ![c] = Unexpired(chgNow[c])]
    /\ chgPc' = [chgPc EXCEPT ![c] = "taking"]
    /\ UNCHANGED <<now, inner, content, systemUpdateId, subVars, unsubPc,
                   chgId, chgNow, issued, wire, changes>>

\* Second lock: retain those, take a SEQ for each; the future sends.
ChangeTake(c) ==
    /\ chgPc[c] = "taking"
    /\ LET targets == Tracked \cap chgLive[c]
           sent(s) == IF s \in targets
                      THEN {[seq |-> content[s], id |-> EventId(c)]} ELSE {}
       IN  /\ content' = SeqsTaken(chgLive[c])
           /\ issued' = [s \in Sid |-> issued[s] \cup sent(s)]
           /\ wire' = [s \in Sid |-> wire[s] \cup sent(s)]
    /\ chgPc' = [chgPc EXCEPT ![c] = "idle"]
    /\ chgId' = [chgId EXCEPT ![c] = 0]
    /\ chgNow' = [chgNow EXCEPT ![c] = 0]
    /\ chgLive' = [chgLive EXCEPT ![c] = {}]
    /\ UNCHANGED <<now, inner, systemUpdateId, subVars, unsubPc, changes>>

\* send_notify ends: delivered, refused or timed out; the hub ignores which.
SendEnds(s, m) ==
    /\ m \in wire[s]
    /\ wire' = [wire EXCEPT ![s] = @ \ {m}]
    /\ UNCHANGED <<now, inner, content, systemUpdateId, subVars, unsubPc,
                   chgVars, issued, changes>>

-----------------------------------------------------------------------------
SubscribeStep(s) == TrackSnapshot(s) \/ TrackInsert(s) \/ Answer(s)

ChangeStep(c) == ChangeReadClock(c) \/ ChangeSnapshot(c) \/ ChangeTake(c)

Next ==
    \/ Tick
    \/ \E s \in Sid :
          \/ \E svc \in Service, ttl \in Ttl : Admit(s, svc, ttl)
          \/ Refuse(s)
          \/ SubscribeStep(s)
          \/ \E ttl \in Ttl : Renew(s, ttl)
          \/ UnsubscribeLease(s)
          \/ UnsubscribeContent(s)
          \/ \E m \in wire[s] : SendEnds(s, m)
    \/ \E c \in Caller : ChangeBump(c) \/ ChangeStep(c)

Spec == Init /\ [][Next]_vars

-----------------------------------------------------------------------------
(* Every variable holds a value of the Rust type it stands for.            *)
TypeOK ==
    /\ now \in Nat
    /\ inner \in [Sid -> Nat \cup {Absent}]
    /\ content \in [Sid -> 1 .. SeqMax \cup {Absent}]
    /\ systemUpdateId \in 0 .. IdModulus - 1
    /\ subPc \in [Sid -> {"idle", "admitted", "tracking", "tracked", "answered"}]
    /\ service \in [Sid -> Service]
    /\ subLive \in [Sid -> SUBSET Sid]
    /\ unsubPc \in [Sid -> {"idle", "unleased", "answered"}]
    /\ chgPc \in [Caller -> {"idle", "bumped", "timed", "taking"}]
    /\ chgId \in [Caller -> 0 .. IdModulus - 1]
    /\ chgNow \in [Caller -> Nat]
    /\ chgLive \in [Caller -> SUBSET Sid]
    /\ issued \in [Sid -> SUBSET Notify]
    /\ wire \in [Sid -> SUBSET Notify]
    /\ changes \in Nat

(* Both tables stay within MAX_SUBSCRIPTIONS.  For `inner` that is the     *)
(* check of admit_subscription.  `content` has no check of its own: the    *)
(* comment of track_content_subscriber says that retaining the SIDs read   *)
(* from `inner` keeps it within the cap, though they were read under       *)
(* another lock and `inner` has changed since.                             *)
TablesBounded ==
    /\ Cardinality(Leased) <= Cap
    /\ Cardinality(Tracked) <= Cap

(* No ContentDirectory subscriber the hub tracks misses a change: once it  *)
(* is answered, a NOTIFY with the current SystemUpdateID has been issued   *)
(* to it, or the call that made that id has still to take its targets.     *)
(* This rests on `subscribe` reading the id after it inserted the SID.     *)
TrackedNeverMissChange ==
    \A s \in Tracked :
        subPc[s] = "answered" =>
            \/ \E m \in issued[s] : m.id = systemUpdateId
            \/ \E c \in Caller : chgPc[c] # "idle" /\ chgId[c] = systemUpdateId

(* A control point detects a lost event by a gap in SEQ, so the NOTIFYs    *)
(* of content_changed to a tracked subscriber carry 1, 2, ... without a    *)
(* gap and without a repetition (before the wrap).                         *)
SeqGapless ==
    \A s \in Tracked :
        LET events == {m \in issued[s] : m.seq # 0}
        IN  /\ {m.seq : m \in events} = 1 .. content[s] - 1
            /\ \A m1, m2 \in events : m1.seq = m2.seq => m1 = m2

(* "0 is reserved for the initial event", across the wrap of SEQ: no       *)
(* subscriber is ever sent two different events with SEQ 0.                *)
SeqZeroOnlyInitial ==
    \A s \in Sid : \A m1, m2 \in issued[s] :
        m1.seq = 0 /\ m2.seq = 0 => m1 = m2

(* A call of content_changed gets a newer id than every NOTIFY issued      *)
(* before the call began, and each subscriber gets that id, once, before   *)
(* the call ends: whatever threads call, only the events of calls that     *)
(* overlap can reach a subscriber with their SEQs in one order and their   *)
(* ids in the other (before the wrap of the id).                           *)
EventsCarryNewerIds ==
    [][/\ \A c \in Caller : chgPc[c] = "idle" /\ chgPc'[c] # "idle" =>
             \A s \in Sid : \A n \in issued[s] : n.id < chgId'[c]
       /\ \A s \in Sid : \A m \in issued'[s] \ issued[s] : m.seq # 0 =>
             /\ \E c \in Caller : /\ chgPc[c] # "idle" /\ chgPc'[c] = "idle"
                                  /\ m.id = chgId[c]
             /\ \A n \in issued[s] : n.seq # 0 => n.id # m.id]_vars

(* A lease that has lapsed, was cancelled or was never granted to an       *)
(* answered SID is never live again: renewal checks presence and expiry.   *)
LapsedStaysLapsed ==
    [][\A s \in Sid : subPc[s] = "answered" /\ inner[s] <= now
                         => inner'[s] <= now']_vars

(* Once UNSUBSCRIBE is answered, no content_changed issues a NOTIFY for    *)
(* that SID, whatever it had read before: only sends already handed to     *)
(* their tasks remain.                                                     *)
NoneIssuedAfterUnsubscribe ==
    [][\A s \in Sid : unsubPc[s] = "answered" => issued'[s] = issued[s]]_vars

(* Every tracked subscriber is eventually told of the current id: its      *)
(* NOTIFY has been issued and sent or given up, unless the subscriber is   *)
(* dropped or a newer change supersedes the id.                            *)
ToldOf(s, id) == \E m \in issued[s] \ wire[s] : m.id = id

TrackedEventuallyTold ==
    \A s \in Sid : \A id \in 0 .. IdModulus - 1 :
        (s \in Tracked /\ systemUpdateId = id)
            ~> (ToldOf(s, id) \/ s \notin Tracked \/ systemUpdateId # id)

(* ARCHITECTURE.md: content_changed "sends a NOTIFY (SEQ 1, 2, ...) to     *)
(* every live ContentDirectory subscriber": with no call in progress,      *)
(* every answered subscriber with a lease has been sent the current id.    *)
EveryLiveSubscriberNotified ==
    (\A c \in Caller : chgPc[c] = "idle") =>
        \A s \in Sid :
            /\ subPc[s] = "answered" /\ service[s] = "ContentDirectory"
            /\ inner[s] > now
            => \E m \in issued[s] : m.id = systemUpdateId

=============================================================================
