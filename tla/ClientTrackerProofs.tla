------------------------ MODULE ClientTrackerProofs ------------------------
(***************************************************************************)
(* Theorems about the client tracker, for all peers, caps, periods, lags   *)
(* and names.  A step leaves each record as it was or changes it in one of *)
(* three ways (StepShape); what a record keeps in each of them is a lemma  *)
(* of ClientRecordsProofs, and the theorems combine them.  Last, of the    *)
(* report task: what it has printed, and that it leaves the tracker alone. *)
(***************************************************************************)
EXTENDS ClientReporter, ClientRecordsProofs

\* What a step of peer i may start from: its record, or a blank one.
Before(i) == {Entry(client, i, t) : t \in Nat}

Shape(i) ==
    \/ i \in Known /\ client'[i] = client[i]
    \/ \E r \in Before(i) : \/ RecordedFrom(r, client'[i])
                           \/ AnnouncedFrom(r, client'[i])
    \/ i \in Known /\ WithdrawnFrom(client[i], client'[i])

\* What a step does to the map.
Stepped ==
    /\ Known' \subseteq Known \cup Ip
    /\ \A i \in Known' : Shape(i)
    /\ \/ Known' = Known
       \/ \E ip \in Ip : \E new : client' \in Evict(Put(client, ip, new))

-----------------------------------------------------------------------------
(* Steps.                                                                  *)

LEMMA ReadingType == TypeOK => Reading \subseteq Nat
  BY MaxTimeAssumption DEF Reading

(* What an insertion of record new for ip leaves, whatever evict takes.    *)
LEMMA InsertShape ==
    ASSUME NEW ip \in Ip, NEW new, NEW r \in Before(ip),
           RecordedFrom(r, new) \/ AnnouncedFrom(r, new),
           client' \in Evict(Put(client, ip, new))
    PROVE  Stepped
<1>1. /\ Known' \subseteq Known \cup {ip}
      /\ \A i \in Known' : client'[i] = IF i = ip THEN new ELSE client[i]
  BY EvictShape DEF Known
<1>2. ASSUME NEW i \in Known' PROVE Shape(i)
  <2>1. CASE i = ip
    BY <1>1, <2>1 DEF Shape
  <2>2. CASE i # ip
    BY <1>1, <2>2 DEF Shape
  <2> QED
    BY <2>1, <2>2
<1> QED
  BY <1>1, <1>2 DEF Stepped

LEMMA RecordStep ==
    ASSUME NEW ip \in Ip, NEW t \in Nat, NEW stage \in Stage,
           NEW agent \in ParsedAgent, NEW name \in Device,
           client' \in Recorded(client, t, ip, stage, agent, name)
    PROVE  Stepped
<1> DEFINE r == Entry(client, ip, t)
           new == Heard(r, t, stage, agent, name)
<1>1. CASE Ignored(client, ip, stage, agent)
  <2>1. client' = client
    BY <1>1 DEF Recorded
  <2> QED
    BY <2>1 DEF Stepped, Known, Shape
<1>2. CASE ~Ignored(client, ip, stage, agent)
  <2>1. client' \in Evict(Put(client, ip, new))
    BY <1>2 DEF Recorded, Heard
  <2>2. r \in Before(ip) /\ RecordedFrom(r, new)
    BY DEF Before, RecordedFrom
  <2> HIDE DEF r, new
  <2> QED
    BY <2>1, <2>2, InsertShape
<1> QED
  BY <1>1, <1>2

LEMMA AnnounceStep ==
    ASSUME NEW ip \in Ip, NEW t \in Nat, NEW agent \in TxtAgent,
           NEW instance \in Device,
           client' \in AnnouncedMaps(client, t, ip, agent, instance)
    PROVE  Stepped
<1> DEFINE r == Entry(client, ip, t)
           new == WithAnnouncement(r, agent, instance, t)
<1>1. client' \in Evict(Put(client, ip, new))
  BY DEF AnnouncedMaps
<1>2. r \in Before(ip) /\ AnnouncedFrom(r, new)
  BY DEF Before, AnnouncedFrom
<1> HIDE DEF r, new
<1> QED
  BY <1>1, <1>2, InsertShape

LEMMA StepShape ==
    ASSUME TypeOK, Next
    PROVE  Stepped
<1>1. CASE Tick
  BY <1>1 DEF Tick, Stepped, Known, Shape
<1>2. ASSUME NEW ip \in Ip, NEW agent \in ParsedAgent, Search(ip, agent)
      PROVE  Stepped
  <2>1. PICK t \in Reading :
            client' \in Recorded(client, t, ip, "Searched", agent, "")
    BY <1>2 DEF Search
  <2>2. t \in Nat /\ "Searched" \in Stage /\ "" \in Device
    BY ReadingType, DeviceAssumption DEF Stage
  <2> QED
    BY <2>1, <2>2, RecordStep
<1>3. ASSUME NEW ip \in Ip, NEW stage \in Asked, NEW agent \in ParsedAgent,
             NEW name \in Device, Request(ip, stage, agent, name)
      PROVE  Stepped
  <2>1. PICK t \in Reading :
            client' \in Recorded(client, t, ip, stage, agent, name)
    BY <1>3 DEF Request
  <2>2. t \in Nat /\ stage \in Stage
    BY ReadingType, AskedAssumption DEF Stage
  <2> QED
    BY <2>1, <2>2, RecordStep
<1>4. ASSUME NEW ip \in Ip, NEW agent \in TxtAgent, NEW instance \in Device,
             Announce(ip, agent, instance)
      PROVE  Stepped
  <2>1. PICK t \in Reading :
            client' \in AnnouncedMaps(client, t, ip, agent, instance)
    BY <1>4 DEF Announce
  <2>2. t \in Nat
    BY ReadingType
  <2> QED
    BY <2>1, <2>2, AnnounceStep
<1>5. ASSUME NEW ip \in Ip, Withdraw(ip)
      PROVE  Stepped
  <2>1. client' = Withdrawn(client, ip)
    BY <1>5 DEF Withdraw
  <2>2. CASE ip \in Known
    <3>1. client' = [client EXCEPT ![ip] = [@ EXCEPT !.announced = None]]
      BY <2>1, <2>2 DEF Withdrawn, Known
    <3>2. ASSUME NEW i \in Known' PROVE Shape(i)
      BY <3>1 DEF Known, Shape, WithdrawnFrom
    <3> QED
      BY <3>1, <3>2 DEF Stepped, Known
  <2>3. CASE ip \notin Known
    BY <2>1, <2>3 DEF Withdrawn, Stepped, Known, Shape
  <2> QED
    BY <2>2, <2>3
<1> QED
  BY <1>1, <1>2, <1>3, <1>4, <1>5 DEF Next

-----------------------------------------------------------------------------
(* Theorems.                                                               *)

(* What a step may start from: of a peer not known, a blank record.        *)
LEMMA BeforeType ==
    ASSUME TypeOK, NEW i, NEW r \in Before(i)
    PROVE  /\ r \in Record
           /\ i \in Known => r = client[i]
           /\ i \notin Known => r.announced = None
<1>1. PICK t \in Nat : r = Entry(client, i, t)
  BY DEF Before
<1>2. CASE i \in Known
  BY <1>1, <1>2 DEF Entry, TypeOK, Known
<1>3. CASE i \notin Known
  <2>1. r = Blank(t)
    BY <1>1, <1>3 DEF Entry, Known
  <2>2. Blank(t).announced = None
    BY DEF Blank
  <2> QED
    BY <1>3, <2>1, <2>2, BlankType
<1> QED
  BY <1>2, <1>3

LEMMA LogType ==
    ASSUME NEW S, NEW log \in [Ip -> S], NEW ip, NEW entry \in S,
           NEW nothing \in S
    PROVE  Log(log, ip, entry, nothing) \in [Ip -> S]
<1>1. ASSUME NEW i \in Ip
      PROVE  (IF i \notin DOMAIN client' THEN nothing
              ELSE IF i = ip THEN entry ELSE log[i]) \in S
  OBVIOUS
<1> DEFINE f == [i \in Ip |-> IF i \notin DOMAIN client' THEN nothing
                              ELSE IF i = ip THEN entry ELSE log[i]]
<1>2. f \in [Ip -> S]
  BY <1>1
<1> QED
  BY <1>2 DEF Log

(* A step leaves records of known peers and readings in the logs.          *)
LEMMA TypeStep == ASSUME TypeOK, [Next]_vars PROVE TypeOK'
<1>1. CASE UNCHANGED vars
  BY <1>1 DEF vars, TypeOK, Known
<1>2. CASE Next
  <2>1. DOMAIN client' \subseteq Ip
    BY <1>2, StepShape DEF Stepped, TypeOK, Known
  <2>2. ASSUME NEW i \in Known' PROVE client'[i] \in Record
    <3>1. Shape(i)
      BY <1>2, <2>2, StepShape DEF Stepped
    <3>2. CASE i \in Known /\ client'[i] = client[i]
      BY <3>2 DEF TypeOK
    <3>3. CASE \E r \in Before(i) : \/ RecordedFrom(r, client'[i])
                                   \/ AnnouncedFrom(r, client'[i])
      BY <3>3, BeforeType, RecordedType, AnnouncedType
    <3>4. CASE i \in Known /\ WithdrawnFrom(client[i], client'[i])
      BY <3>4 DEF TypeOK, WithdrawnFrom, Record, Time
    <3> QED
      BY <3>1, <3>2, <3>3, <3>4 DEF Shape
  <2>3. now' \in Nat
    <3>1. now' = now \/ now' = now + 1
      BY <1>2 DEF Next, Tick, Search, Request, Announce, Withdraw
    <3> QED
      BY <3>1 DEF TypeOK
  <2>4. /\ httpAt' \in [Ip -> Nat \cup {None}]
        /\ searchAt' \in [Ip -> SUBSET Nat]
    <3> DEFINE Logged ==
            \E ip \in Ip, h \in Nat \cup {None}, s \in SUBSET Nat :
                /\ httpAt' = Log(httpAt, ip, h, None)
                /\ searchAt' = Log(searchAt, ip, s, {})
    <3>1. CASE Tick \/ \E ip \in Ip : Withdraw(ip)
      BY <3>1 DEF Tick, Withdraw, TypeOK
    <3>2. ASSUME NEW ip \in Ip, NEW agent \in ParsedAgent, Search(ip, agent)
          PROVE  Logged
      <4>1. PICK t \in Reading :
                /\ searchAt' = Log(searchAt, ip, searchAt[ip] \cup {t}, {})
                /\ httpAt' = Log(httpAt, ip, httpAt[ip], None)
        BY <3>2 DEF Search
      <4>2. t \in Nat /\ searchAt[ip] \in SUBSET Nat
                     /\ httpAt[ip] \in Nat \cup {None}
        BY ReadingType DEF TypeOK
      <4>3. searchAt[ip] \cup {t} \in SUBSET Nat
        BY <4>2
      <4> QED
        BY <4>1, <4>2, <4>3
    <3>3. ASSUME NEW ip \in Ip, NEW stage \in Asked, NEW agent \in ParsedAgent,
                 NEW name \in Device, Request(ip, stage, agent, name)
          PROVE  Logged
      <4>1. PICK t \in Reading :
                /\ httpAt' = Log(httpAt, ip,
                                IF t > httpAt[ip] THEN t ELSE httpAt[ip], None)
                /\ searchAt' = Log(searchAt, ip, {}, {})
        BY <3>3 DEF Request
      <4>2. (IF t > httpAt[ip] THEN t ELSE httpAt[ip]) \in Nat \cup {None}
        BY ReadingType DEF TypeOK
      <4> QED
        BY <4>1, <4>2
    <3>4. ASSUME NEW ip \in Ip, NEW agent \in TxtAgent, NEW instance \in Device,
                 Announce(ip, agent, instance)
          PROVE  Logged
      <4>1. /\ httpAt' = Log(httpAt, ip, httpAt[ip], None)
            /\ searchAt' = Log(searchAt, ip, searchAt[ip], {})
        BY <3>4 DEF Announce
      <4>2. httpAt[ip] \in Nat \cup {None} /\ searchAt[ip] \in SUBSET Nat
        BY DEF TypeOK
      <4> QED
        BY <4>1, <4>2
    <3>5. CASE Logged
      <4>1. PICK ip \in Ip, h \in Nat \cup {None}, s \in SUBSET Nat :
                /\ httpAt' = Log(httpAt, ip, h, None)
                /\ searchAt' = Log(searchAt, ip, s, {})
        BY <3>5
      <4>2. Log(httpAt, ip, h, None) \in [Ip -> Nat \cup {None}]
        BY LogType DEF TypeOK
      <4>3. Log(searchAt, ip, s, {}) \in [Ip -> SUBSET Nat]
        BY LogType DEF TypeOK
      <4> QED
        BY <4>1, <4>2, <4>3
    <3> HIDE DEF Logged
    <3> QED
      BY <1>2, <3>1, <3>2, <3>3, <3>4, <3>5 DEF Next
  <2> QED
    BY <2>1, <2>2, <2>3, <2>4 DEF TypeOK
<1> QED
  BY <1>1, <1>2

LEMMA TypeInit == Init => TypeOK
  BY DEF Init, TypeOK, Known, None

(* The map only ever holds well-formed records of peers, for any number of *)
(* peers and any bound on the clock.                                       *)
THEOREM TypeCorrect == Spec => []TypeOK
<1> QED
  BY TypeInit, TypeStep, PTL DEF Spec

(* "At most 64 records": record_at and announce_at insert before they      *)
(* evict, and the map is within the cap again when they return.            *)
THEOREM RecordsBoundedHolds == Spec => []RecordsBounded
<1> DEFINE Inv == TypeOK /\ RecordsBounded
<1>1. Init => Inv
  <2>1. Cardinality({}) = 0
    BY FS_EmptySet
  <2>2. Init => RecordsBounded
    <3>1. Init => Known = {}
      BY DEF Init, Known
    <3> QED
      BY <2>1, <3>1, MaxClientsAssumption DEF RecordsBounded
  <2> QED
    BY <2>2, TypeInit
<1>2. Inv /\ [Next]_vars => Inv'
  <2> SUFFICES ASSUME Inv, [Next]_vars PROVE RecordsBounded'
    BY TypeStep
  <2>1. CASE UNCHANGED vars
    BY <2>1 DEF vars, RecordsBounded, Known
  <2>2. CASE Next
    <3>1. CASE Known' = Known
      BY <3>1 DEF RecordsBounded
    <3>2. ASSUME NEW ip \in Ip, NEW new, client' \in Evict(Put(client, ip, new))
          PROVE  RecordsBounded'
      <4>1. IsFiniteSet(DOMAIN client)
        BY IpAssumption, FS_Subset DEF TypeOK
      <4> QED
        BY <3>2, <4>1, EvictBounded DEF RecordsBounded, Known
    <3> QED
      BY <2>2, <3>1, <3>2, StepShape DEF Stepped
  <2> QED
    BY <2>1, <2>2
<1> QED
  BY <1>1, <1>2, PTL DEF Spec

\* What OnlySpritzDiagnosed rests on.
AnnouncedSpritz == \A i \in Known : AnnouncedIsSpritz(client[i])

(* "Only Spritz clients are diagnosed": announce_diagnosis reads no agent, *)
(* but no agent that is not a Spritz one replaces that of an advertised    *)
(* player, and withdraw alone clears `announced`.                          *)
THEOREM OnlySpritzDiagnosedHolds == Spec => []OnlySpritzDiagnosed
<1> DEFINE Inv == TypeOK /\ AnnouncedSpritz
<1>1. Init => Inv
  BY TypeInit DEF Init, AnnouncedSpritz, Known
<1>2. Inv /\ [Next]_vars => Inv'
  <2> SUFFICES ASSUME Inv, [Next]_vars PROVE AnnouncedSpritz'
    BY TypeStep
  <2>1. CASE UNCHANGED vars
    BY <2>1 DEF vars, AnnouncedSpritz, Known
  <2>2. ASSUME Next, NEW i \in Known' PROVE AnnouncedIsSpritz(client'[i])
    <3>1. Shape(i)
      BY <2>2, StepShape DEF Stepped
    <3>2. CASE i \in Known /\ client'[i] = client[i]
      BY <3>2 DEF AnnouncedSpritz
    <3>3. ASSUME NEW r \in Before(i), RecordedFrom(r, client'[i])
          PROVE  AnnouncedIsSpritz(client'[i])
      <4>1. r \in Record /\ AnnouncedIsSpritz(r)
        BY BeforeType DEF AnnouncedSpritz, AnnouncedIsSpritz
      <4> QED
        BY <3>3, <4>1, RecordedKeeps DEF Keeps, AnnouncedIsSpritz
    <3>4. ASSUME NEW r \in Before(i), AnnouncedFrom(r, client'[i])
          PROVE  AnnouncedIsSpritz(client'[i])
      BY <3>4, BeforeType, AnnouncedKeeps DEF AnnouncedIsSpritz
    <3>5. CASE i \in Known /\ WithdrawnFrom(client[i], client'[i])
      BY <3>5 DEF TypeOK, WithdrawnFrom, Record, AnnouncedIsSpritz
    <3> QED
      BY <3>1, <3>2, <3>3, <3>4, <3>5 DEF Shape
  <2> QED
    BY <2>1, <2>2 DEF AnnouncedSpritz, Known
<1>3. Inv => OnlySpritzDiagnosed
  BY DEF AnnouncedSpritz, AnnouncedIsSpritz, OnlySpritzDiagnosed, Diagnosis,
         SearchStuck, AnnounceStuck
<1> QED
  BY <1>1, <1>2, <1>3, PTL DEF Spec

(* "A non-Spritz user agent never overwrites a Spritz one" and "the        *)
(* detailed form beats the bare", over any order of operations: only an    *)
(* eviction makes the tracker forget who a player is.                      *)
THEOREM DetailedAgentKeptHolds == Spec => DetailedAgentKept
<1> DEFINE Kept == \A i \in Known :
        LET old == client[i].agent  new == client'[i].agent
        IN  i \in Known' /\ old.spritz =>
                /\ new.spritz
                /\ old.model # "" /\ old.platform # "" =>
                      new.model # ""
<1>1. TypeOK /\ [Next]_vars => [Kept]_vars
  <2> SUFFICES ASSUME TypeOK, Next, NEW i \in Known, i \in Known'
               PROVE  Keeps(client[i].agent, client'[i].agent)
    BY DEF Keeps
  <2>1. Shape(i)
    BY StepShape DEF Stepped
  <2>2. CASE client'[i] = client[i]
    BY <2>2 DEF Keeps
  <2>3. ASSUME NEW r \in Before(i), RecordedFrom(r, client'[i])
        PROVE  Keeps(client[i].agent, client'[i].agent)
    BY <2>3, BeforeType, RecordedKeeps
  <2>4. ASSUME NEW r \in Before(i), AnnouncedFrom(r, client'[i])
        PROVE  Keeps(client[i].agent, client'[i].agent)
    BY <2>4, BeforeType, AnnouncedKeeps
  <2>5. CASE WithdrawnFrom(client[i], client'[i])
    BY <2>5 DEF TypeOK, WithdrawnFrom, Record, Keeps
  <2> QED
    BY <2>1, <2>2, <2>3, <2>4, <2>5 DEF Shape
<1> QED
  BY <1>1, TypeCorrect, PTL DEF Spec, DetailedAgentKept

-----------------------------------------------------------------------------
(***************************************************************************)
(* Times.  How the stages of a record, which is all a diagnosis reads, are *)
(* tied to the readings that calls about its peer carried: h the latest of *)
(* its HTTP requests, S those of its searches since, n the clock.  A call  *)
(* that waited for the mutex may overwrite a stage with an older reading,  *)
(* but never with one more than Lag old.                                   *)
(***************************************************************************)
HttpTimed(r, h, n) ==
    /\ h <= n
    /\ r.found <= h /\ r.browsed <= h /\ r.streamed <= h
    /\ h # None => HttpSince(r, h - Lag)

SearchTimed(r, S, n) ==
    /\ r.searched <= n
    /\ \A l \in S : l <= n /\ r.searched # None /\ r.searched >= l - Lag

UnansweredTimed(r, h, S, n) ==
    LET u == r.unanswered_since
    IN  /\ u # None => /\ u <= n /\ S # {} /\ r.searched # None
                       /\ ~(h # None /\ h >= Cutoff(u) + Lag)
        /\ \A s \in S : ~(h # None /\ h >= s - SearchGrace - Lag)
                            => u # None /\ u <= s + Lag

Timed(r, h, S, n) ==
    HttpTimed(r, h, n) /\ SearchTimed(r, S, n) /\ UnansweredTimed(r, h, S, n)

LEMMA TimedAtSearch ==
    ASSUME NEW r \in Record, NEW new \in Record, NEW h \in Nat \cup {None},
           NEW S \in SUBSET Nat, NEW n \in Nat, NEW t \in Nat,
           t <= n, n - t <= Lag, Timed(r, h, S, n), SearchedAt(r, new, t)
    PROVE  Timed(new, h, S \cup {t}, n)
<1> DEFINE u == r.unanswered_since
           v == new.unanswered_since
<1>1. /\ u \in Nat \cup {None} /\ r.found \in Nat \cup {None}
      /\ r.browsed \in Nat \cup {None} /\ r.streamed \in Nat \cup {None}
      /\ r.searched \in Nat \cup {None} /\ None = -1
  BY DEF Record, Time, None
<1>2. SameHttp(r, new) /\ new.searched = t /\ v = Unanswered(r, t)
  BY DEF SearchedAt
<1>3. HttpTimed(new, h, n)
  BY <1>2 DEF Timed, HttpTimed, SameHttp, HttpSince
<1>4. SearchTimed(new, S \cup {t}, n)
  BY <1>1, <1>2, LagAssumption DEF Timed, SearchTimed
<1>5. /\ u # None => u <= n /\ ~(h # None /\ h >= Cutoff(u) + Lag)
      /\ \A s \in S : ~(h # None /\ h >= s - SearchGrace - Lag) => u # None /\ u <= s + Lag
  BY DEF Timed, UnansweredTimed
<1>6. HttpSince(r, Cutoff(t)) => h # None /\ h >= t - SearchGrace
  BY <1>1, PeriodAssumption DEF Timed, HttpTimed, HttpSince, Cutoff
<1>7. h # None /\ h >= Cutoff(t) + Lag => HttpSince(r, Cutoff(t))
  BY <1>1, PeriodAssumption, LagAssumption DEF Timed, HttpTimed, HttpSince, Cutoff
<1>8. v = IF u = None /\ ~HttpSince(r, Cutoff(t)) THEN t ELSE u
  BY <1>2 DEF Unanswered
<1> HIDE DEF u, v
<1>9. v # None => v <= n /\ ~(h # None /\ h >= Cutoff(v) + Lag)
  BY <1>1, <1>5, <1>7, <1>8, PeriodAssumption, LagAssumption
<1>10. ASSUME NEW s \in S \cup {t}, ~(h # None /\ h >= s - SearchGrace - Lag)
       PROVE  v # None /\ v <= s + Lag
  <2>1. CASE s \in S
    BY <1>5, <1>8, <1>10, <2>1
  <2>2. CASE s = t
    BY <1>1, <1>5, <1>6, <1>8, <1>10, <2>2, PeriodAssumption, LagAssumption
  <2> QED
    BY <2>1, <2>2
<1>11. UnansweredTimed(new, h, S \cup {t}, n)
  BY <1>1, <1>2, <1>9, <1>10 DEF UnansweredTimed, v
<1> QED
  BY <1>3, <1>4, <1>11 DEF Timed

LEMMA TimedAtRequest ==
    ASSUME NEW r \in Record, NEW new \in Record, NEW h \in Nat \cup {None},
           NEW S \in SUBSET Nat, NEW n \in Nat, NEW t \in Nat,
           t <= n, n - t <= Lag, Timed(r, h, S, n), ConnectedAt(r, new, t)
    PROVE  Timed(new, IF t > h THEN t ELSE h, {}, n)
<1> DEFINE g == IF t > h THEN t ELSE h
<1>1. /\ r.found \in Nat \cup {None} /\ r.browsed \in Nat \cup {None}
      /\ r.streamed \in Nat \cup {None} /\ None = -1
  BY DEF Record, Time, None
<1>2. g \in Nat /\ g >= t /\ g >= h /\ g <= n
  BY <1>1 DEF Timed, HttpTimed
<1>3. t >= g - Lag
  BY <1>2, LagAssumption
<1> HIDE DEF g
<1>4. HttpSince(new, g - Lag)
  BY <1>1, <1>3 DEF ConnectedAt, HttpSince
<1>5. new.found <= g /\ new.browsed <= g /\ new.streamed <= g
  BY <1>1, <1>2 DEF ConnectedAt, Timed, HttpTimed
<1>6. HttpTimed(new, g, n)
  BY <1>2, <1>4, <1>5 DEF HttpTimed
<1>7. SearchTimed(new, {}, n) /\ UnansweredTimed(new, g, {}, n)
  BY DEF ConnectedAt, Timed, SearchTimed, UnansweredTimed
<1> QED
  BY <1>6, <1>7 DEF Timed, g

LEMMA TimedOtherwise ==
    ASSUME NEW r \in Record, NEW new \in Record, NEW h \in Nat \cup {None},
           NEW S \in SUBSET Nat, NEW n \in Nat, NEW m \in Nat, n <= m,
           Timed(r, h, S, n), SameTimes(r, new)
    PROVE  Timed(new, h, S, m)
<1>1. /\ r.unanswered_since \in Nat \cup {None} /\ r.searched \in Nat \cup {None}
      /\ None = -1
  BY DEF Record, Time, None
<1>2. HttpTimed(new, h, m)
  BY <1>1 DEF Timed, HttpTimed, SameTimes, SameHttp, HttpSince
<1>3. SearchTimed(new, S, m)
  BY <1>1 DEF Timed, SearchTimed, SameTimes
<1>4. UnansweredTimed(new, h, S, m)
  BY <1>1 DEF Timed, UnansweredTimed, SameTimes
<1> QED
  BY <1>2, <1>3, <1>4 DEF Timed

\* What a step does to the times of peer i and to its logs.
SearchOf(i) ==
    \E r \in Before(i), t \in Reading :
        /\ SearchedAt(r, client'[i], t)
        /\ httpAt'[i] = httpAt[i] /\ searchAt'[i] = searchAt[i] \cup {t}
        /\ now' = now

RequestOf(i) ==
    \E r \in Before(i), t \in Reading :
        /\ ConnectedAt(r, client'[i], t)
        /\ httpAt'[i] = IF t > httpAt[i] THEN t ELSE httpAt[i]
        /\ searchAt'[i] = {}
        /\ now' = now

OtherwiseOf(i) ==
    \E r \in Before(i) :
        /\ SameTimes(r, client'[i])
        /\ httpAt'[i] = httpAt[i] /\ searchAt'[i] = searchAt[i]
        /\ now' \in Nat /\ now <= now'

StepTimes(i) == SearchOf(i) \/ RequestOf(i) \/ OtherwiseOf(i)

(* A peer whose record and logs a step leaves alone.                       *)
LEMMA Untouched ==
    ASSUME NEW i \in Known, client'[i] = client[i], httpAt'[i] = httpAt[i],
           searchAt'[i] = searchAt[i], now \in Nat,
           now' = now \/ now' = now + 1
    PROVE  StepTimes(i)
<1>1. client[i] = Entry(client, i, 0)
  BY DEF Entry, Known
<1>2. client[i] \in Before(i)
  BY <1>1 DEF Before
<1>3. SameTimes(client[i], client'[i])
  BY DEF SameTimes, SameHttp
<1> QED
  BY <1>2, <1>3 DEF OtherwiseOf, StepTimes

LEMMA TimesStep ==
    ASSUME TypeOK, Next, NEW i \in Known'
    PROVE  StepTimes(i)
<1>0. now \in Nat /\ i \in Ip
  BY StepShape DEF Stepped, TypeOK, Known
<1>1. CASE Tick
  <2>1. i \in Known /\ client'[i] = client[i]
    BY <1>1 DEF Tick, Known
  <2>2. /\ httpAt'[i] = httpAt[i] /\ searchAt'[i] = searchAt[i]
        /\ now' = now + 1
    BY <1>1 DEF Tick
  <2> QED
    BY <1>0, <2>1, <2>2, Untouched
<1>2. ASSUME NEW ip \in Ip, NEW agent \in ParsedAgent, Search(ip, agent)
      PROVE  StepTimes(i)
  <2>1. PICK t \in Reading :
            /\ client' \in Recorded(client, t, ip, "Searched", agent, "")
            /\ searchAt' = Log(searchAt, ip, searchAt[ip] \cup {t}, {})
            /\ httpAt' = Log(httpAt, ip, httpAt[ip], None)
            /\ now' = now
    BY <1>2 DEF Search
  <2>2. t \in Nat /\ "" \in Device
    BY ReadingType, DeviceAssumption
  <2>3. /\ httpAt'[i] = httpAt[i]
        /\ searchAt'[i] = IF i = ip THEN searchAt[i] \cup {t} ELSE searchAt[i]
    BY <1>0, <2>1 DEF Log, Known
  <2> DEFINE r == Entry(client, ip, t)
             new == Heard(r, t, "Searched", agent, "")
  <2>4. CASE Ignored(client, ip, "Searched", agent)
    <3>1. client' = client /\ ip \notin Known
      BY <2>1, <2>4 DEF Recorded, Ignored, Known
    <3> QED
      BY <1>0, <2>1, <2>3, <3>1, Untouched DEF Known
  <2>5. CASE ~Ignored(client, ip, "Searched", agent)
    <3>1. client' \in Evict(Put(client, ip, new))
      BY <2>1, <2>5 DEF Recorded, Heard
    <3> HIDE DEF new
    <3>2. /\ i \in Known \cup {ip}
          /\ client'[i] = IF i = ip THEN new ELSE client[i]
      BY <3>1, EvictShape DEF Known
    <3>3. CASE i = ip
      <4>1. r \in Before(ip) /\ r \in Record
        BY <2>2, BeforeType DEF Before
      <4>2. SearchedAt(r, new, t)
        BY <2>2, <4>1, SearchTimes DEF new
      <4> QED
        BY <2>1, <2>3, <3>2, <3>3, <4>1, <4>2 DEF SearchOf, StepTimes
    <3>4. CASE i # ip
      BY <1>0, <2>1, <2>3, <3>2, <3>4, Untouched
    <3> QED
      BY <3>3, <3>4
  <2> QED
    BY <2>4, <2>5
<1>3. ASSUME NEW ip \in Ip, NEW stage \in Asked, NEW agent \in ParsedAgent,
             NEW name \in Device, Request(ip, stage, agent, name)
      PROVE  StepTimes(i)
  <2>1. PICK t \in Reading :
            /\ client' \in Recorded(client, t, ip, stage, agent, name)
            /\ httpAt' = Log(httpAt, ip,
                             IF t > httpAt[ip] THEN t ELSE httpAt[ip], None)
            /\ searchAt' = Log(searchAt, ip, {}, {})
            /\ now' = now
    BY <1>3 DEF Request
  <2>2. t \in Nat /\ stage \in HttpStage
    BY ReadingType, AskedAssumption
  <2>3. /\ httpAt'[i] = IF i = ip THEN (IF t > httpAt[i] THEN t ELSE httpAt[i])
                        ELSE httpAt[i]
        /\ searchAt'[i] = IF i = ip THEN {} ELSE searchAt[i]
    BY <1>0, <2>1 DEF Log, Known
  <2> DEFINE r == Entry(client, ip, t)
             new == Heard(r, t, stage, agent, name)
  <2>4. ~Ignored(client, ip, stage, agent)
    BY <2>2 DEF Ignored, HttpStage
  <2>5. client' \in Evict(Put(client, ip, new))
    BY <2>1, <2>4 DEF Recorded, Heard
  <2> HIDE DEF new
  <2>6. /\ i \in Known \cup {ip}
        /\ client'[i] = IF i = ip THEN new ELSE client[i]
    BY <2>5, EvictShape DEF Known
  <2>7. CASE i = ip
    <3>1. r \in Before(ip) /\ r \in Record
      BY <2>2, BeforeType DEF Before
    <3>2. ConnectedAt(r, new, t)
      BY <2>2, <3>1, RequestTimes DEF new
    <3> QED
      BY <2>1, <2>3, <2>6, <2>7, <3>1, <3>2 DEF RequestOf, StepTimes
  <2>8. CASE i # ip
    BY <1>0, <2>1, <2>3, <2>6, <2>8, Untouched
  <2> QED
    BY <2>7, <2>8
<1>4. ASSUME NEW ip \in Ip, NEW agent \in TxtAgent, NEW instance \in Device,
             Announce(ip, agent, instance)
      PROVE  StepTimes(i)
  <2>1. PICK t \in Reading :
            /\ client' \in AnnouncedMaps(client, t, ip, agent, instance)
            /\ httpAt' = Log(httpAt, ip, httpAt[ip], None)
            /\ searchAt' = Log(searchAt, ip, searchAt[ip], {})
            /\ now' = now
    BY <1>4 DEF Announce
  <2>2. t \in Nat
    BY ReadingType
  <2>3. httpAt'[i] = httpAt[i] /\ searchAt'[i] = searchAt[i]
    BY <1>0, <2>1 DEF Log, Known
  <2> DEFINE r == Entry(client, ip, t)
             new == WithAnnouncement(r, agent, instance, t)
  <2>4. client' \in Evict(Put(client, ip, new))
    BY <2>1 DEF AnnouncedMaps
  <2>5. AnnouncedFrom(r, new)
    BY <2>2 DEF AnnouncedFrom
  <2> HIDE DEF new
  <2>6. /\ i \in Known \cup {ip}
        /\ client'[i] = IF i = ip THEN new ELSE client[i]
    BY <2>4, EvictShape DEF Known
  <2>7. CASE i = ip
    <3>1. r \in Before(ip) /\ r \in Record
      BY <2>2, BeforeType DEF Before
    <3>2. SameTimes(r, new)
      BY <2>5, <3>1, AnnouncedTimes
    <3> QED
      BY <1>0, <2>1, <2>3, <2>6, <2>7, <3>1, <3>2 DEF OtherwiseOf, StepTimes
  <2>8. CASE i # ip
    BY <1>0, <2>1, <2>3, <2>6, <2>8, Untouched
  <2> QED
    BY <2>7, <2>8
<1>5. ASSUME NEW ip \in Ip, Withdraw(ip)
      PROVE  StepTimes(i)
  <2>1. /\ client' = Withdrawn(client, ip)
        /\ now' = now /\ httpAt' = httpAt /\ searchAt' = searchAt
    BY <1>5 DEF Withdraw
  <2>2. CASE ip \in Known
    <3>1. client' = [client EXCEPT ![ip] = [@ EXCEPT !.announced = None]]
      BY <2>1, <2>2 DEF Withdrawn, Known
    <3>2. i \in Known
      BY <3>1 DEF Known
    <3>3. client[i] \in Record
      BY <3>2 DEF TypeOK
    <3>4. SameTimes(client[i], client'[i])
      BY <3>1, <3>2, <3>3 DEF SameTimes, SameHttp, Record, Known
    <3>5. client[i] \in Before(i)
      <4>1. client[i] = Entry(client, i, 0)
        BY <3>2 DEF Entry, Known
      <4>2. \E t \in Nat : client[i] = Entry(client, i, t)
        BY <4>1
      <4> QED
        BY <4>2 DEF Before
    <3> QED
      BY <1>0, <2>1, <3>4, <3>5 DEF OtherwiseOf, StepTimes
  <2>3. CASE ip \notin Known
    <3>1. client' = client
      BY <2>1, <2>3 DEF Withdrawn, Known
    <3> QED
      BY <1>0, <2>1, <3>1, Untouched DEF Known
  <2> QED
    BY <2>2, <2>3
<1> QED
  BY <1>1, <1>2, <1>3, <1>4, <1>5 DEF Next

TimesOf(i) == Timed(client[i], httpAt[i], searchAt[i], now)

\* The inductive invariant: an IP not known has nothing in the logs.
TimesInv ==
    /\ TypeOK
    /\ \A i \in Known : TimesOf(i)
    /\ \A i \in Ip : i \notin Known => httpAt[i] = None /\ searchAt[i] = {}

(* Nothing has been heard of a blank record.                               *)
LEMMA BlankTimed ==
    ASSUME NEW t \in Nat, NEW n \in Nat
    PROVE  Timed(Blank(t), None, {}, n)
<1>1. /\ Blank(t).found = None /\ Blank(t).browsed = None
      /\ Blank(t).streamed = None /\ Blank(t).searched = None
      /\ Blank(t).unanswered_since = None
  BY DEF Blank
<1> QED
  BY <1>1 DEF Timed, HttpTimed, SearchTimed, UnansweredTimed, None

LEMMA BeforeTimed ==
    ASSUME TimesInv, NEW i \in Ip, NEW r \in Before(i)
    PROVE  Timed(r, httpAt[i], searchAt[i], now)
<1>1. PICK t \in Nat : r = Entry(client, i, t)
  BY DEF Before
<1>2. CASE i \in Known
  BY <1>1, <1>2 DEF Entry, Known, TimesInv, TimesOf
<1>3. CASE i \notin Known
  BY <1>1, <1>3, BlankTimed DEF Entry, Known, TimesInv, TypeOK
<1> QED
  BY <1>2, <1>3

LEMMA TimesInvStep == ASSUME TimesInv, [Next]_vars PROVE TimesInv'
<1>0. TypeOK /\ TypeOK'
  BY TypeStep DEF TimesInv
<1>1. CASE UNCHANGED vars
  BY <1>0, <1>1 DEF vars, TimesInv, TimesOf, Known
<1>2. CASE Next
  <2>1. ASSUME NEW i \in Known' PROVE TimesOf(i)'
    <3>1. i \in Ip /\ client'[i] \in Record
      BY <1>0 DEF TypeOK, Known
    <3>2. /\ httpAt[i] \in Nat \cup {None} /\ searchAt[i] \in SUBSET Nat
          /\ now \in Nat
      BY <1>0, <3>1 DEF TypeOK
    <3>3. ASSUME NEW r \in Before(i)
          PROVE  r \in Record /\ Timed(r, httpAt[i], searchAt[i], now)
      BY <1>0, <3>1, BeforeType, BeforeTimed
    <3>4. ASSUME NEW t \in Reading PROVE t \in Nat /\ t <= now /\ now - t <= Lag
      BY <1>0, ReadingType DEF Reading
    <3>5. CASE SearchOf(i)
      <4>1. PICK r \in Before(i), t \in Reading :
                /\ SearchedAt(r, client'[i], t)
                /\ httpAt'[i] = httpAt[i] /\ searchAt'[i] = searchAt[i] \cup {t}
                /\ now' = now
        BY <3>5 DEF SearchOf
      <4>2. Timed(client'[i], httpAt[i], searchAt[i] \cup {t}, now)
        BY <3>1, <3>2, <3>3, <3>4, <4>1, TimedAtSearch
      <4> QED
        BY <4>1, <4>2 DEF TimesOf
    <3>6. CASE RequestOf(i)
      <4>1. PICK r \in Before(i), t \in Reading :
                /\ ConnectedAt(r, client'[i], t)
                /\ httpAt'[i] = IF t > httpAt[i] THEN t ELSE httpAt[i]
                /\ searchAt'[i] = {}
                /\ now' = now
        BY <3>6 DEF RequestOf
      <4>2. Timed(client'[i], IF t > httpAt[i] THEN t ELSE httpAt[i], {}, now)
        BY <3>1, <3>2, <3>3, <3>4, <4>1, TimedAtRequest
      <4> QED
        BY <4>1, <4>2 DEF TimesOf
    <3>7. CASE OtherwiseOf(i)
      <4>1. PICK r \in Before(i) :
                /\ SameTimes(r, client'[i])
                /\ httpAt'[i] = httpAt[i] /\ searchAt'[i] = searchAt[i]
                /\ now' \in Nat /\ now <= now'
        BY <3>7 DEF OtherwiseOf
      <4>2. Timed(client'[i], httpAt[i], searchAt[i], now')
        BY <3>1, <3>2, <3>3, <4>1, TimedOtherwise
      <4> QED
        BY <4>1, <4>2 DEF TimesOf
    <3> QED
      BY <1>0, <1>2, <3>5, <3>6, <3>7, TimesStep DEF StepTimes
  <2>2. ASSUME NEW i \in Ip, i \notin Known'
        PROVE  httpAt'[i] = None /\ searchAt'[i] = {}
    <3>1. CASE Tick
      BY <2>2, <3>1 DEF Tick, Known, TimesInv
    <3>2. ASSUME NEW ip \in Ip, NEW h, NEW S,
                 httpAt' = Log(httpAt, ip, h, None),
                 searchAt' = Log(searchAt, ip, S, {})
          PROVE  httpAt'[i] = None /\ searchAt'[i] = {}
      BY <2>2, <3>2 DEF Log, Known
    <3>3. ASSUME NEW ip \in Ip, Withdraw(ip)
          PROVE  httpAt'[i] = None /\ searchAt'[i] = {}
      BY <2>2, <3>3 DEF Withdraw, Withdrawn, Known, TimesInv
    <3>4. ASSUME NEW ip \in Ip, NEW agent \in ParsedAgent, Search(ip, agent)
          PROVE  httpAt'[i] = None /\ searchAt'[i] = {}
      BY <3>2, <3>4 DEF Search
    <3>5. ASSUME NEW ip \in Ip, NEW stage \in Asked, NEW agent \in ParsedAgent,
                 NEW name \in Device, Request(ip, stage, agent, name)
          PROVE  httpAt'[i] = None /\ searchAt'[i] = {}
      BY <3>2, <3>5 DEF Request
    <3>6. ASSUME NEW ip \in Ip, NEW agent \in TxtAgent, NEW instance \in Device,
                 Announce(ip, agent, instance)
          PROVE  httpAt'[i] = None /\ searchAt'[i] = {}
      BY <3>2, <3>6 DEF Announce
    <3> QED
      BY <1>2, <3>1, <3>3, <3>4, <3>5, <3>6 DEF Next
  <2> QED
    BY <1>0, <2>1, <2>2 DEF TimesInv
<1> QED
  BY <1>1, <1>2

LEMMA TimesCorrect == Spec => []TimesInv
<1>1. Init => TimesInv
  <2>1. Init => Known = {}
    BY DEF Init, Known
  <2>2. Init => \A i \in Ip : httpAt[i] = None /\ searchAt[i] = {}
    BY DEF Init
  <2> QED
    BY <2>1, <2>2, TypeInit DEF TimesInv
<1> QED
  BY <1>1, TimesInvStep, PTL DEF Spec

(* No false alarm: record_at overwrites a stage with the reading its call  *)
(* carried and clears `unanswered_since` at every HTTP request, so neither *)
(* a late answer nor calls out of order leave a diagnosis for a client     *)
(* that did connect, for any wait for the mutex.                           *)
THEOREM DiagnosedNeverConnectedHolds ==
    Spec => []DiagnosedNeverConnected
<1>1. TimesInv => DiagnosedNeverConnected
  <2> SUFFICES ASSUME TimesInv, NEW i \in Known
               PROVE  /\ SearchStuck(client[i], now) =>
                            ~ConnectedSince(i, Cutoff(client[i].unanswered_since) + Lag)
                      /\ AnnounceStuck(client[i], now) =>
                            ~ConnectedSince(i, Cutoff(client[i].announced) + Lag)
    BY DEF DiagnosedNeverConnected
  <2>1. /\ Timed(client[i], httpAt[i], searchAt[i], now) /\ client[i] \in Record
        /\ httpAt[i] \in Nat \cup {None}
    BY DEF TimesInv, TimesOf, TypeOK, Known
  <2>2. SearchStuck(client[i], now) =>
            ~ConnectedSince(i, Cutoff(client[i].unanswered_since) + Lag)
    BY <2>1 DEF SearchStuck, Timed, UnansweredTimed, ConnectedSince
  <2>3. ASSUME client[i].announced # None,
               ConnectedSince(i, Cutoff(client[i].announced) + Lag)
        PROVE  HttpSince(client[i], Cutoff(client[i].announced))
    <3> DEFINE r == client[i]
               h == httpAt[i]
    <3>1. /\ h \in Nat /\ h >= Cutoff(r.announced) + Lag
          /\ r.announced \in Nat /\ r.found \in Nat \cup {None}
          /\ r.browsed \in Nat \cup {None} /\ r.streamed \in Nat \cup {None}
          /\ None = -1 /\ Cutoff(r.announced) \in Int
      BY <2>1, <2>3, PeriodAssumption DEF ConnectedSince, Record, Time, None, Cutoff
    <3>2. HttpSince(r, h - Lag)
      BY <2>1, <3>1 DEF Timed, HttpTimed
    <3> HIDE DEF r, h
    <3>3. Cutoff(r.announced) <= h - Lag
      BY <3>1, PeriodAssumption, LagAssumption
    <3>4. HttpSince(r, Cutoff(r.announced))
      BY <3>1, <3>2, <3>3, PeriodAssumption, LagAssumption DEF HttpSince
    <3> QED
      BY <3>4 DEF r
  <2> QED
    BY <2>2, <2>3 DEF AnnounceStuck, Cutoff
<1> QED
  BY <1>1, TimesCorrect, PTL

(* "A search with no connection after this long is reported": the first    *)
(* search that no request answered sets `unanswered_since`, no later one   *)
(* moves it, and the latest search keeps the window open.                  *)
THEOREM StuckSearchDiagnosedHolds == Spec => []StuckSearchDiagnosed
<1>1. TimesInv => StuckSearchDiagnosed
  <2> SUFFICES ASSUME TimesInv, NEW i \in Known, NEW s \in searchAt[i],
                      client[i].agent.spritz,
                      now - s >= StuckAfter + Lag,
                      ~ConnectedSince(i, s - SearchGrace - Lag),
                      NEW l \in searchAt[i], l >= s, now - l + Lag <= Window
               PROVE  SearchStuck(client[i], now)
    BY DEF StuckSearchDiagnosed
  <2> DEFINE r == client[i]
             u == r.unanswered_since
  <2>1. /\ Timed(r, httpAt[i], searchAt[i], now) /\ r \in Record
        /\ now \in Nat /\ s \in Nat /\ l \in Nat
    BY DEF TimesInv, TimesOf, TypeOK, Known
  <2>2. u # None /\ u <= s + Lag
    BY <2>1 DEF Timed, UnansweredTimed, ConnectedSince
  <2>3. r.searched # None /\ r.searched >= l - Lag
    BY <2>1 DEF Timed, SearchTimed
  <2>4. u \in Nat /\ r.searched \in Nat
    BY <2>1, <2>2, <2>3 DEF Record, Time
  <2>5. Elapsed(u, now) >= StuckAfter /\ Elapsed(r.searched, now) <= Window
    <3> HIDE DEF u, r
    <3> QED
      BY <2>1, <2>2, <2>3, <2>4, PeriodAssumption, LagAssumption DEF Elapsed
  <2> QED
    BY <2>2, <2>3, <2>5 DEF SearchStuck
<1> QED
  BY <1>1, TimesCorrect, PTL

(* "A client that keeps searching gets one steady diagnosis": no further   *)
(* search, agent or advertisement touches `unanswered_since` once it is    *)
(* set, whatever clock reading the call carries.                           *)
THEOREM SteadyDiagnosisHolds == Spec => SteadyDiagnosis
<1> DEFINE Steady == \A i \in Known :
        (/\ SearchStuck(client[i], now)
         /\ i \in Known'
         /\ searchAt[i] \subseteq searchAt'[i]
         /\ Elapsed(client'[i].searched, now') <= Window)
        => SearchStuck(client'[i], now')
<1>1. TimesInv /\ [Next]_vars => [Steady]_vars
  <2> SUFFICES ASSUME TimesInv, Next, NEW i \in Known,
                      SearchStuck(client[i], now), i \in Known',
                      searchAt[i] \subseteq searchAt'[i],
                      Elapsed(client'[i].searched, now') <= Window
               PROVE  SearchStuck(client'[i], now')
    OBVIOUS
  <2> DEFINE r == client[i]
             new == client'[i]
  <2>1. /\ TypeOK /\ i \in Ip /\ r \in Record /\ new \in Record
        /\ now \in Nat /\ now' \in Nat /\ searchAt[i] # {}
    <3>1. TypeOK /\ TypeOK'
      BY TypeStep DEF TimesInv
    <3>2. Timed(r, httpAt[i], searchAt[i], now)
      BY DEF TimesInv, TimesOf
    <3> QED
      BY <3>1, <3>2 DEF TypeOK, Known, Timed, UnansweredTimed, SearchStuck
  <2>2. new.agent.spritz
    <3>1. Shape(i)
      BY <2>1, StepShape DEF Stepped
    <3>2. ASSUME NEW q \in Before(i), RecordedFrom(q, new) \/ AnnouncedFrom(q, new)
          PROVE  new.agent.spritz
      <4>1. q = r
        BY <2>1, BeforeType
      <4> QED
        BY <2>1, <3>2, <4>1, RecordedKeeps, AnnouncedKeeps DEF Keeps, SearchStuck
    <3>3. CASE WithdrawnFrom(r, new)
      BY <2>1, <3>3 DEF WithdrawnFrom, Record, SearchStuck
    <3> QED
      BY <3>1, <3>2, <3>3 DEF Shape, SearchStuck
  <2>3. /\ new.unanswered_since = r.unanswered_since
        /\ new.searched # None
        /\ now <= now'
    <3>1. ASSUME NEW q \in Before(i) PROVE q = r
      BY <2>1, BeforeType
    <3>2. CASE SearchOf(i)
      <4>1. PICK t \in Reading : SearchedAt(r, new, t) /\ now' = now
        BY <3>1, <3>2 DEF SearchOf
      <4>2. t \in Nat
        BY <2>1, ReadingType
      <4> QED
        BY <2>1, <4>1, <4>2 DEF SearchedAt, Unanswered, SearchStuck, None
    <3>3. CASE RequestOf(i)
      BY <2>1, <3>3 DEF RequestOf
    <3>4. CASE OtherwiseOf(i)
      BY <3>1, <3>4 DEF OtherwiseOf, SameTimes, SearchStuck
    <3> QED
      BY <2>1, <3>2, <3>3, <3>4, TimesStep DEF StepTimes
  <2>4. Elapsed(new.unanswered_since, now') >= StuckAfter
    <3>1. /\ r.unanswered_since \in Nat
          /\ Elapsed(r.unanswered_since, now) >= StuckAfter
      BY <2>1 DEF SearchStuck, Record, Time
    <3> DEFINE u == r.unanswered_since
    <3>2. Elapsed(u, now') >= StuckAfter
      <4> HIDE DEF u
      <4> QED
        BY <2>1, <2>3, <3>1, PeriodAssumption DEF Elapsed, u
    <3> QED
      BY <2>3, <3>2
  <2> QED
    BY <2>2, <2>3, <2>4 DEF SearchStuck
<1> QED
  BY <1>1, TimesCorrect, PTL DEF Spec, SteadyDiagnosis

-----------------------------------------------------------------------------
(* The report task.                                                        *)

(* Reports take snapshots only: under the report task the tracker does     *)
(* what it does alone, so every theorem above holds of it.                 *)
THEOREM ReporterLeavesTheTracker == ReporterSpec => Spec
<1>1. ReporterInit => Init
  BY DEF ReporterInit
<1>2. [ReporterNext]_reporterVars => [Next]_vars
  BY DEF ReporterNext, Report, reporterVars
<1> QED
  BY <1>1, <1>2, PTL DEF ReporterSpec, Spec

\* A line about a diagnosis names its kind and its label.
LineOK(line) ==
    line[1] = "diagnosis" => /\ line[2][1] \in {"search", "announce"}
                             /\ line[2] = <<line[2][1], line[2][2]>>

\* Whether seen says that a line was true at the last report.  Of a diagnosis
\* by advertisement it cannot: a stuck search takes its place.
SeenSays(line, s) ==
    \/ line[1] = "stage" /\ line[2] \in s.stages
    \/ line[1] = "network" /\ s.announced
    \/ line[1] = "diagnosis" /\ line[2] \in s.diagnosis
    \/ line[1] = "diagnosis" /\ line[2][1] = "announce"

\* The inductive invariant: seen remembers what was printed and still holds.
SeenInv ==
    \A l \in told : /\ l[1] \in DOMAIN seen
                     /\ LineOK(l[2]) /\ SeenSays(l[2], seen[l[1]])

(* What a report prints of a client is so in the snapshot it keeps.        *)
LEMMA PrintedIsSeen ==
    ASSUME NEW r, NEW old, NEW line \in LinesFor(old, r)
    PROVE  LineOK(line) /\ SeenSays(line, SeenOf(r))
<1> USE DEF LineOK
<1>1. CASE line \in {<<"stage", s>> : s \in NewStage(old, r)}
  BY <1>1 DEF NewStage, SeenSays, SeenOf
<1>2. CASE line = <<"network">> /\ r.announced # None
  BY <1>2 DEF SeenSays, SeenOf
<1>3. CASE line \in {<<"diagnosis", d>> : d \in Diagnosis(r, now) \ old.diagnosis}
  <2>1. PICK d \in Diagnosis(r, now) : line = <<"diagnosis", d>>
    BY <1>3
  <2>2. d = <<d[1], d[2]>> /\ d[1] \in {"search", "announce"}
    BY DEF Diagnosis
  <2> QED
    BY <2>1, <2>2 DEF SeenSays, SeenOf
<1> QED
  BY <1>1, <1>2, <1>3 DEF LinesFor, News

(* What was printed and is still true is so in the snapshot: a search that *)
(* is stuck is the diagnosis, whatever the advertisement says.             *)
LEMMA StandingIsSeen ==
    ASSUME NEW r, NEW s, NEW line, SeenSays(line, s), StillTrue(line, r, now),
           LineOK(line)
    PROVE  SeenSays(line, SeenOf(r))
<1>1. CASE line[1] = "stage"
  BY <1>1 DEF SeenSays, SeenOf, StillTrue
<1>2. CASE line[1] = "network"
  BY <1>2 DEF SeenSays, SeenOf, StillTrue
<1>3. CASE line[1] = "diagnosis" /\ line[2][1] = "search"
  BY <1>3 DEF SeenSays, SeenOf, StillTrue, Diagnosis, LineOK
<1>4. CASE line[1] = "diagnosis" /\ line[2][1] = "announce"
  BY <1>4 DEF SeenSays
<1> QED
  BY <1>1, <1>2, <1>3, <1>4 DEF SeenSays, LineOK

(* No line is printed that `seen` says was so.                             *)
LEMMA NewsIsNew ==
    ASSUME NEW r, NEW old, NEW line \in LinesFor(old, r), SeenSays(line, old)
    PROVE  line[1] = "diagnosis" /\ line[2][1] = "announce"
<1>1. CASE line \in {<<"stage", s>> : s \in NewStage(old, r)}
  BY <1>1 DEF NewStage, SeenSays
<1>2. CASE line = <<"network">> /\ ~old.announced
  BY <1>2 DEF SeenSays
<1>3. CASE line \in {<<"diagnosis", d>> : d \in Diagnosis(r, now) \ old.diagnosis}
  BY <1>3 DEF SeenSays
<1> QED
  BY <1>1, <1>2, <1>3 DEF LinesFor, News

LEMMA SeenStep == SeenInv /\ [ReporterNext]_reporterVars => SeenInv'
<1> SUFFICES ASSUME SeenInv, [ReporterNext]_reporterVars PROVE SeenInv'
  OBVIOUS
<1>1. CASE UNCHANGED <<seen, told>>
  BY <1>1 DEF SeenInv
<1>2. CASE Report
  <2> SUFFICES ASSUME NEW l \in told'
               PROVE  /\ l[1] \in DOMAIN seen'
                      /\ LineOK(l[2]) /\ SeenSays(l[2], seen'[l[1]])
    BY DEF SeenInv
  <2>1. CASE l \in Standing
    <3>1. /\ l[1] \in ListedIps /\ StillTrue(l[2], client[l[1]], now)
          /\ LineOK(l[2]) /\ SeenSays(l[2], seen[l[1]])
      BY <2>1 DEF Standing, SeenInv
    <3>2. SeenSays(l[2], SeenOf(client[l[1]]))
      BY <3>1, StandingIsSeen
    <3> QED
      BY <1>2, <3>1, <3>2 DEF Report
  <2>2. CASE l \in Printed
    <3>1. PICK i \in ListedIps : l \in {i} \X LinesFor(SeenBefore(i), client[i])
      BY <2>2 DEF Printed
    <3>2. l[1] = i /\ l[2] \in LinesFor(SeenBefore(i), client[i])
      BY <3>1
    <3>3. LineOK(l[2]) /\ SeenSays(l[2], SeenOf(client[i]))
      BY <3>2, PrintedIsSeen
    <3> QED
      BY <1>2, <3>2, <3>3 DEF Report
  <2> QED
    BY <1>2, <2>1, <2>2 DEF Report
<1> QED
  BY <1>1, <1>2 DEF ReporterNext, reporterVars

(* "Each stage and each diagnosis is announced once": no stage, no         *)
(* advertisement and no stuck search is printed again while it stays true, *)
(* whatever the clients do between two reports.                            *)
THEOREM SearchToldOnceHolds == ReporterSpec => SearchToldOnce
<1> DEFINE Once == Report => \A l \in Printed \cap Standing :
                       l[2][1] = "diagnosis" /\ l[2][2][1] = "announce"
<1>1. ReporterInit => SeenInv
  BY DEF ReporterInit, SeenInv
<1>2. SeenInv => \A l \in Printed \cap Standing :
                    l[2][1] = "diagnosis" /\ l[2][2][1] = "announce"
  <2> SUFFICES ASSUME SeenInv, NEW l \in Printed, l \in Standing
               PROVE  l[2][1] = "diagnosis" /\ l[2][2][1] = "announce"
    OBVIOUS
  <2>1. PICK i \in ListedIps : l \in {i} \X LinesFor(SeenBefore(i), client[i])
    BY DEF Printed
  <2>2. l[1] = i /\ l[2] \in LinesFor(SeenBefore(i), client[i])
    BY <2>1
  <2>3. SeenSays(l[2], SeenBefore(i))
    BY <2>2 DEF Standing, SeenInv, SeenBefore
  <2> QED
    BY <2>2, <2>3, NewsIsNew
<1>3. SeenInv /\ [ReporterNext]_reporterVars => [Once]_reporterVars
  BY <1>2
<1> QED
  BY <1>1, <1>3, SeenStep, PTL DEF ReporterSpec, SearchToldOnce

=============================================================================
