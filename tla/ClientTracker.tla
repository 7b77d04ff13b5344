--------------------------- MODULE ClientTracker ---------------------------
(***************************************************************************)
(* The client tracker of dlna/src/clients.rs as its callers use it: SSDP   *)
(* searches, HTTP requests of every kind and player advertisements, on     *)
(* tasks and threads of their own.  Each operation is one critical section *)
(* of the tracker's mutex, but `record` and `announce` read the clock      *)
(* before they take it: an operation may carry a reading up to Lag old.    *)
(***************************************************************************)
EXTENDS ClientRecords

CONSTANTS
    Asked,     \* the HTTP stages clients reach
    Lag,       \* how long a call may wait for the mutex
    MaxTime    \* bound of the model: the last clock reading

ASSUME AskedAssumption == Asked \subseteq HttpStage
ASSUME LagAssumption == Lag \in Nat
ASSUME MaxTimeAssumption == MaxTime \in Nat

VARIABLES
    now,       \* Instant::now()
    client,    \* the map: known IPs to their records
    httpAt,    \* history: latest reading of an HTTP request of each known IP
    searchAt   \* history: readings of its searches since

vars == <<now, client, httpAt, searchAt>>

Known == DOMAIN client

\* The clock readings a call that now holds the mutex may have made.
Reading == {t \in 0 .. MaxTime : t <= now /\ now - t <= Lag}

-----------------------------------------------------------------------------
Init ==
    /\ now = 0
    /\ client = [i \in {} |-> Blank(0)]
    /\ httpAt = [i \in Ip |-> None]
    /\ searchAt = [i \in Ip |-> {}]

Tick ==
    /\ now < MaxTime
    /\ now' = now + 1
    /\ UNCHANGED <<client, httpAt, searchAt>>

\* A log as it goes on for ip; nothing is remembered of an IP not known.
Log(log, ip, entry, nothing) ==
    [i \in Ip |-> IF i \notin DOMAIN client' THEN nothing
                  ELSE IF i = ip THEN entry ELSE log[i]]

\* note_search: an M-SEARCH the server answers.
Search(ip, agent) ==
    \E t \in Reading :
        /\ client' \in Recorded(client, t, ip, "Searched", agent, "")
        /\ searchAt' = Log(searchAt, ip, searchAt[ip] \cup {t}, {})
        /\ httpAt' = Log(httpAt, ip, httpAt[ip], None)
        /\ UNCHANGED now

\* track_clients: a request to a path that has a stage.
Request(ip, stage, agent, name) ==
    \E t \in Reading :
        /\ client' \in Recorded(client, t, ip, stage, agent, name)
        /\ httpAt' = Log(httpAt, ip, IF t > httpAt[ip] THEN t ELSE httpAt[ip], None)
        /\ searchAt' = Log(searchAt, ip, {}, {})
        /\ UNCHANGED now

\* announce, called by the Bonjour browser.
Announce(ip, agent, instance) ==
    \E t \in Reading :
        /\ client' \in AnnouncedMaps(client, t, ip, agent, instance)
        /\ httpAt' = Log(httpAt, ip, httpAt[ip], None)
        /\ searchAt' = Log(searchAt, ip, searchAt[ip], {})
        /\ UNCHANGED now

Withdraw(ip) ==
    /\ client' = Withdrawn(client, ip)
    /\ UNCHANGED <<now, httpAt, searchAt>>

Next ==
    \/ Tick
    \/ \E ip \in Ip :
          \/ \E agent \in ParsedAgent : Search(ip, agent)
          \/ \E stage \in Asked, agent \in ParsedAgent, name \in Device :
                Request(ip, stage, agent, name)
          \/ \E agent \in TxtAgent, instance \in Device :
                Announce(ip, agent, instance)
          \/ Withdraw(ip)

Spec == Init /\ [][Next]_vars

-----------------------------------------------------------------------------
(* The map holds records of known peers; the logs hold clock readings.     *)
TypeOK ==
    /\ now \in Nat
    /\ DOMAIN client \subseteq Ip
    /\ \A i \in Known : client[i] \in Record
    /\ httpAt \in [Ip -> Nat \cup {None}]
    /\ searchAt \in [Ip -> SUBSET Nat]

\* A request of client i carried a reading of cutoff or later.
ConnectedSince(i, cutoff) == httpAt[i] # None /\ httpAt[i] >= cutoff

(* "At most 64 records": whatever mix of searches, requests and            *)
(* advertisements inserts peers, the map ends each call within the cap.    *)
RecordsBounded == Cardinality(Known) <= MaxClients

(* "Only Spritz clients are diagnosed": announce_diagnosis does not look   *)
(* at the agent, so this rests on no agent ever replacing a Spritz one     *)
(* while an advertisement stands.                                          *)
OnlySpritzDiagnosed ==
    \A i \in Known : Diagnosis(client[i], now) # {} => client[i].agent.spritz

(* No false alarm: a client that is diagnosed made no HTTP request in the  *)
(* SEARCH_GRACE before the search (or the advertisement) it is diagnosed   *)
(* for, and none after that search, as far as the clock readings of calls  *)
(* that waited for the mutex can tell.  (Where no Instant lies before the  *)
(* boot, a search so early has no grace: Cutoff.)                          *)
DiagnosedNeverConnected ==
    \A i \in Known :
        /\ SearchStuck(client[i], now) =>
              ~ConnectedSince(i, Cutoff(client[i].unanswered_since) + Lag)
        /\ AnnounceStuck(client[i], now) =>
              ~ConnectedSince(i, Cutoff(client[i].announced) + Lag)

(* "A search with no connection after this long is reported": a Spritz     *)
(* client with no HTTP request since SEARCH_GRACE before one of its        *)
(* searches has its diagnosis once STUCK_AFTER has passed since it, until  *)
(* its latest search is older than DIAGNOSIS_WINDOW.                       *)
StuckSearchDiagnosed ==
    \A i \in Known : \A s \in searchAt[i] :
        (/\ client[i].agent.spritz
         /\ now - s >= StuckAfter + Lag
         /\ ~ConnectedSince(i, s - SearchGrace - Lag)
         /\ \E l \in searchAt[i] : l >= s /\ now - l + Lag <= Window)
        => SearchStuck(client[i], now)

(* "A client that keeps searching gets one steady diagnosis": once raised, *)
(* only an HTTP request, an eviction or DIAGNOSIS_WINDOW without a search  *)
(* takes it down, never a further search, agent or advertisement.          *)
SteadyDiagnosis ==
    [][\A i \in Known :
        (/\ SearchStuck(client[i], now)
         /\ i \in Known'
         /\ searchAt[i] \subseteq searchAt'[i]
         /\ Elapsed(client'[i].searched, now') <= Window)
        => SearchStuck(client'[i], now')]_vars

(* "A non-Spritz user agent never overwrites a Spritz one", "the detailed  *)
(* form beats the bare": a known Spritz client stays one, and one with a   *)
(* platform and a model is replaced only by one with a model, through      *)
(* requests, searches and advertisements in any order.  More the code does *)
(* not keep: a model that comes without a platform takes the platform      *)
(* away, and is itself lost to a bare agent (clients.rs:277).              *)
DetailedAgentKept ==
    [][\A i \in Known :
        LET old == client[i].agent  new == client'[i].agent
        IN  i \in Known' /\ old.spritz =>
                /\ new.spritz
                /\ old.model # "" /\ old.platform # "" =>
                      new.model # ""]_vars

=============================================================================
