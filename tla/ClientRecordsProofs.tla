------------------------ MODULE ClientRecordsProofs ------------------------
(***************************************************************************)
(* What the tracker's operations make of a map and of a record, for all    *)
(* peers, caps, periods and names: lemmas for the modules that build their *)
(* steps from these operators.                                             *)
(***************************************************************************)
EXTENDS ClientRecords, FiniteSetTheorems, TLAPS

(* The ways an operation changes the record r of a peer.                   *)
Heard(r, t, stage, agent, name) == AtStage(Named(r, agent, name, t), t, stage)

RecordedFrom(r, new) ==
    \E t \in Nat, stage \in Stage, agent \in ParsedAgent, name \in Device :
        new = Heard(r, t, stage, agent, name)

AnnouncedFrom(r, new) ==
    \E t \in Nat, agent \in TxtAgent, instance \in Device :
        new = WithAnnouncement(r, agent, instance, t)

WithdrawnFrom(r, new) == new = [r EXCEPT !.announced = None]

-----------------------------------------------------------------------------
(* The map.                                                                *)

(* What evict leaves after an insertion: peers known before or inserted,   *)
(* with the records they had.                                              *)
LEMMA EvictShape ==
    ASSUME NEW map, NEW ip, NEW r, NEW m \in Evict(Put(map, ip, r))
    PROVE  /\ DOMAIN m \subseteq DOMAIN map \cup {ip}
           /\ \A i \in DOMAIN m : m[i] = IF i = ip THEN r ELSE map[i]
<1> DEFINE put == Put(map, ip, r)
<1>1. /\ DOMAIN put = DOMAIN map \cup {ip}
      /\ \A i \in DOMAIN put : put[i] = IF i = ip THEN r ELSE map[i]
  BY DEF Put
<1>2. CASE m = put
  BY <1>1, <1>2
<1>3. CASE \E i \in Oldest(put) : m = Drop(put, i)
  <2>1. PICK i \in Oldest(put) : m = Drop(put, i)
    BY <1>3
  <2>2. /\ DOMAIN m = DOMAIN put \ {i}
        /\ \A j \in DOMAIN m : m[j] = put[j]
    BY <2>1 DEF Drop
  <2> QED
    BY <1>1, <2>2
<1> QED
  BY <1>2, <1>3 DEF Evict

(* evict ends within the cap when the map was within it before the         *)
(* insertion: of a map one over the cap some record is the oldest.         *)
LEMMA EvictBounded ==
    ASSUME NEW map, NEW ip, NEW r, IsFiniteSet(DOMAIN map),
           Cardinality(DOMAIN map) <= MaxClients,
           NEW m \in Evict(Put(map, ip, r))
    PROVE  IsFiniteSet(DOMAIN m) /\ Cardinality(DOMAIN m) <= MaxClients
<1> DEFINE put == Put(map, ip, r)
<1>1. DOMAIN put = DOMAIN map \cup {ip}
  BY DEF Put
<1>2. /\ IsFiniteSet(DOMAIN put)
      /\ Cardinality(DOMAIN put) \in Nat
      /\ Cardinality(DOMAIN put) <= Cardinality(DOMAIN map) + 1
  <2>1. CASE ip \in DOMAIN map
    <3>1. DOMAIN put = DOMAIN map
      BY <1>1, <2>1
    <3> QED
      BY <3>1, FS_CardinalityType
  <2>2. CASE ip \notin DOMAIN map
    <3>1. /\ IsFiniteSet(DOMAIN map \cup {ip})
          /\ Cardinality(DOMAIN map \cup {ip}) = Cardinality(DOMAIN map) + 1
      BY <2>2, FS_AddElement
    <3> QED
      BY <1>1, <3>1, FS_CardinalityType
  <2> QED
    BY <2>1, <2>2
<1>3. CASE Cardinality(DOMAIN put) <= MaxClients
  BY <1>2, <1>3 DEF Evict
<1>4. CASE ~(Cardinality(DOMAIN put) <= MaxClients)
  <2>1. PICK i \in Oldest(put) : m = Drop(put, i)
    BY <1>4 DEF Evict
  <2>2. i \in DOMAIN put /\ DOMAIN m = DOMAIN put \ {i}
    BY <2>1 DEF Oldest, Drop
  <2>3. IsFiniteSet(DOMAIN m) /\ Cardinality(DOMAIN m) = Cardinality(DOMAIN put) - 1
    BY <1>2, <2>2, FS_RemoveElement
  <2>4. Cardinality(DOMAIN map) \in Nat
    BY FS_CardinalityType
  <2> QED
    BY <1>2, <2>3, <2>4, MaxClientsAssumption
<1> QED
  BY <1>3, <1>4

-----------------------------------------------------------------------------
(* Records.                                                                *)

LEMMA BlankType == ASSUME NEW t \in Nat PROVE Blank(t) \in Record
  BY DeviceAssumption DEF Blank, Record, NoAgent, AnAgent, Agent, Time, None

LEMMA TxtIsSpritz == ASSUME NEW a \in TxtAgent PROVE a.spritz
  BY DEF TxtAgent, SpritzAgent

LEMMA AgentTypes == ParsedAgent \subseteq Agent /\ TxtAgent \subseteq Agent
<1>1. NoAgent \in Agent /\ AnAgent("AppleCoreMedia/1.0", "", "", FALSE) \in Agent
  BY DEF NoAgent, AnAgent, Agent
<1> QED
  BY <1>1 DEF ParsedAgent, TxtAgent, SpritzAgent

\* The TXT of a player that reads its model and its platform.
LEMMA FullTxt ==
    AnAgent("SpritzPlayer/1.2", "tvOS", "Apple TV", TRUE) \in TxtAgent
  BY DEF TxtAgent, SpritzAgent, AnAgent, Agent

LEMMA RecordedType ==
    ASSUME NEW r \in Record, NEW new, RecordedFrom(r, new)
    PROVE  new \in Record
<1>1. PICK t \in Nat, stage \in Stage, agent \in ParsedAgent, name \in Device :
          new = Heard(r, t, stage, agent, name)
  BY DEF RecordedFrom
<1>2. agent \in Agent
  BY AgentTypes
<1> DEFINE named == Named(r, agent, name, t)
<1>3. named \in Record
  BY <1>2 DEF Named, Record
<1>4. Unanswered(named, t) \in Time
  BY <1>3 DEF Unanswered, Record, Time
<1>5. AtStage(named, t, stage) \in Record
  <2> HIDE DEF named
  <2>1. t \in Time /\ None \in Time
    BY DEF Time
  <2>2. CASE stage = "Searched"
    BY <1>3, <1>4, <2>1, <2>2 DEF AtStage, Record
  <2>3. CASE stage = "Found"
    BY <1>3, <2>1, <2>3 DEF AtStage, Record
  <2>4. CASE stage = "Browsed"
    BY <1>3, <2>1, <2>4 DEF AtStage, Record
  <2>5. CASE stage = "Streamed"
    BY <1>3, <2>1, <2>5 DEF AtStage, Record
  <2> QED
    BY <2>2, <2>3, <2>4, <2>5 DEF Stage, HttpStage
<1> QED
  BY <1>1, <1>5 DEF Heard

LEMMA AnnouncedType ==
    ASSUME NEW r \in Record, NEW new, AnnouncedFrom(r, new)
    PROVE  /\ new \in Record
           /\ \E agent \in TxtAgent :
                 new.agent = IF ~r.agent.spritz \/ r.agent.model = ""
                             THEN agent ELSE r.agent
<1>1. PICK t \in Nat, agent \in TxtAgent, instance \in Device :
          new = WithAnnouncement(r, agent, instance, t)
  BY DEF AnnouncedFrom
<1> DEFINE known == [r EXCEPT !.agent =
                       IF ~@.spritz \/ @.model = "" THEN agent ELSE @]
           titled == Titled(known, instance)
<1>2. agent \in Agent
  BY AgentTypes
<1>3. /\ known \in Record
      /\ known.agent = IF ~r.agent.spritz \/ r.agent.model = ""
                       THEN agent ELSE r.agent
  BY <1>2 DEF Record
<1>4. titled \in Record /\ titled.agent = known.agent
  <2> HIDE DEF known
  <2> QED
    BY <1>3 DEF Titled, Record
<1>5. new = [titled EXCEPT !.announced = IF @ = None THEN t ELSE @,
                           !.last_seen = t]
  BY <1>1 DEF WithAnnouncement
<1>6. new \in Record /\ new.agent = titled.agent
  <2> HIDE DEF titled
  <2>1. t \in Time
    BY DEF Time
  <2> QED
    BY <1>4, <1>5, <2>1 DEF Record
<1> QED
  BY <1>3, <1>4, <1>6

(* A Spritz agent stays one; a detailed one keeps naming a model.          *)
Keeps(old, new) ==
    old.spritz =>
        /\ new.spritz
        /\ old.model # "" /\ old.platform # "" => new.model # ""

(* A record with an advertisement has a Spritz agent.                      *)
AnnouncedIsSpritz(r) == r.announced # None => r.agent.spritz

LEMMA RecordedKeeps ==
    ASSUME NEW r \in Record, NEW new, RecordedFrom(r, new)
    PROVE  Keeps(r.agent, new.agent) /\ new.announced = r.announced
<1>1. PICK t \in Nat, stage \in Stage, agent \in ParsedAgent, name \in Device :
          new = Heard(r, t, stage, agent, name)
  BY DEF RecordedFrom
<1>2. agent \in Agent
  BY AgentTypes
<1> DEFINE named == Named(r, agent, name, t)
<1>3. /\ named \in Record
      /\ named.announced = r.announced
      /\ named.agent = IF Replaces(r.agent, agent) THEN agent ELSE r.agent
  BY <1>2 DEF Named, Record
<1>4. new.agent = named.agent /\ new.announced = named.announced
  <2> HIDE DEF named
  <2> SUFFICES AtStage(named, t, stage).agent = named.agent
               /\ AtStage(named, t, stage).announced = named.announced
    BY <1>1 DEF Heard, named
  <2> QED
    BY <1>3 DEF AtStage, Record, Stage, HttpStage
<1>5. Keeps(r.agent, named.agent)
  <2>1. CASE ~Replaces(r.agent, agent)
    BY <1>3, <2>1 DEF Keeps
  <2>2. CASE Replaces(r.agent, agent) /\ r.agent.spritz
    <3>1. agent.spritz /\ (agent.model # "" \/ r.agent.platform = "")
      BY <2>2 DEF Replaces
    <3> QED
      BY <1>3, <2>2, <3>1 DEF Keeps
  <2> QED
    BY <2>1, <2>2 DEF Keeps
<1> QED
  BY <1>3, <1>4, <1>5

LEMMA AnnouncedKeeps ==
    ASSUME NEW r \in Record, NEW new, AnnouncedFrom(r, new)
    PROVE  Keeps(r.agent, new.agent) /\ new.agent.spritz
<1>1. PICK agent \in TxtAgent :
          new.agent = IF ~r.agent.spritz \/ r.agent.model = "" THEN agent ELSE r.agent
  BY AnnouncedType
<1>2. agent.spritz
  BY TxtIsSpritz
<1> QED
  BY <1>1, <1>2 DEF Keeps

-----------------------------------------------------------------------------
(* The times of a record.                                                  *)

SameHttp(r, new) ==
    new.found = r.found /\ new.browsed = r.browsed /\ new.streamed = r.streamed

\* A search at t, an HTTP request at t, and what leaves all but `announced`.
SearchedAt(r, new, t) ==
    /\ SameHttp(r, new) /\ new.announced = r.announced
    /\ new.searched = t /\ new.unanswered_since = Unanswered(r, t)

ConnectedAt(r, new, t) ==
    /\ new.searched = r.searched /\ new.announced = r.announced
    /\ new.unanswered_since = None
    /\ \/ new.found = t /\ new.browsed = r.browsed /\ new.streamed = r.streamed
       \/ new.found = r.found /\ new.browsed = t /\ new.streamed = r.streamed
       \/ new.found = r.found /\ new.browsed = r.browsed /\ new.streamed = t

SameTimes(r, new) ==
    /\ SameHttp(r, new) /\ new.searched = r.searched
    /\ new.unanswered_since = r.unanswered_since

\* Naming a client touches none of its stages.
LEMMA NamedTimes ==
    ASSUME NEW r \in Record, NEW t \in Nat, NEW agent \in Agent, NEW name \in Device
    PROVE  LET named == Named(r, agent, name, t)
           IN  /\ named \in Record
               /\ SameTimes(r, named) /\ named.announced = r.announced
               /\ Unanswered(named, t) = Unanswered(r, t)
<1> DEFINE named == Named(r, agent, name, t)
<1>1. /\ named \in Record
      /\ SameTimes(r, named) /\ named.announced = r.announced
  BY DEF Named, Record, SameTimes, SameHttp
<1> HIDE DEF named
<1>2. Unanswered(named, t) = Unanswered(r, t)
  BY <1>1 DEF SameTimes, SameHttp, Unanswered, HttpSince
<1> QED
  BY <1>1, <1>2 DEF named

LEMMA SearchTimes ==
    ASSUME NEW r \in Record, NEW t \in Nat, NEW agent \in ParsedAgent, NEW name \in Device
    PROVE  SearchedAt(r, Heard(r, t, "Searched", agent, name), t)
<1> DEFINE named == Named(r, agent, name, t)
<1>1. /\ named \in Record
      /\ SameTimes(r, named) /\ named.announced = r.announced
      /\ Unanswered(named, t) = Unanswered(r, t)
  BY AgentTypes, NamedTimes
<1> HIDE DEF named
<1>2. AtStage(named, t, "Searched") =
          [named EXCEPT !.searched = t, !.unanswered_since = Unanswered(named, t)]
  BY DEF AtStage
<1>3. SearchedAt(r, AtStage(named, t, "Searched"), t)
  BY <1>1, <1>2 DEF SearchedAt, SameTimes, SameHttp, Record
<1> QED
  BY <1>3 DEF Heard, named

LEMMA RequestTimes ==
    ASSUME NEW r \in Record, NEW t \in Nat, NEW stage \in HttpStage,
           NEW agent \in ParsedAgent, NEW name \in Device
    PROVE  ConnectedAt(r, Heard(r, t, stage, agent, name), t)
<1> DEFINE named == Named(r, agent, name, t)
<1>1. named \in Record /\ SameTimes(r, named) /\ named.announced = r.announced
  BY AgentTypes, NamedTimes
<1> HIDE DEF named
<1>2. CASE stage = "Found"
  <2>1. AtStage(named, t, stage) =
            [named EXCEPT !.found = t, !.unanswered_since = None, !.http = TRUE]
    BY <1>2 DEF AtStage
  <2> QED
    BY <1>1, <2>1 DEF ConnectedAt, SameTimes, SameHttp, Record, Heard, named
<1>3. CASE stage = "Browsed"
  <2>1. AtStage(named, t, stage) =
            [named EXCEPT !.browsed = t, !.unanswered_since = None, !.http = TRUE]
    BY <1>3 DEF AtStage
  <2> QED
    BY <1>1, <2>1 DEF ConnectedAt, SameTimes, SameHttp, Record, Heard, named
<1>4. CASE stage = "Streamed"
  <2>1. AtStage(named, t, stage) =
            [named EXCEPT !.streamed = t, !.unanswered_since = None, !.http = TRUE]
    BY <1>4 DEF AtStage
  <2> QED
    BY <1>1, <2>1 DEF ConnectedAt, SameTimes, SameHttp, Record, Heard, named
<1> QED
  BY <1>2, <1>3, <1>4 DEF HttpStage

LEMMA AnnouncedTimes ==
    ASSUME NEW r \in Record, NEW new, AnnouncedFrom(r, new)
    PROVE  SameTimes(r, new)
<1>1. PICK t \in Nat, agent \in TxtAgent, instance \in Device :
          new = WithAnnouncement(r, agent, instance, t)
  BY DEF AnnouncedFrom
<1> DEFINE known == [r EXCEPT !.agent =
                       IF ~@.spritz \/ @.model = "" THEN agent ELSE @]
           titled == Titled(known, instance)
<1>2. known \in Record /\ SameTimes(r, known)
  BY AgentTypes DEF Record, SameTimes, SameHttp
<1>3. titled \in Record /\ SameTimes(known, titled)
  <2> HIDE DEF known
  <2> QED
    BY <1>2 DEF Titled, Record, SameTimes, SameHttp
<1>4. new = [titled EXCEPT !.announced = IF @ = None THEN t ELSE @,
                           !.last_seen = t]
  BY <1>1 DEF WithAnnouncement
<1>5. SameTimes(titled, new)
  <2> HIDE DEF titled
  <2> QED
    BY <1>3, <1>4 DEF Record, SameTimes, SameHttp
<1> HIDE DEF titled, known
<1> QED
  BY <1>2, <1>3, <1>5 DEF SameTimes, SameHttp

=============================================================================
