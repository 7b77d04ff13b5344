--------------------------- MODULE EventHubProofs ---------------------------
(* Theorems about EventHub, for every set of SIDs and threads, every cap,  *)
(* lease length, width of SEQ and of SystemUpdateID, and every bound.      *)
EXTENDS LibraryFeed, FiniteSetTheorems, TLAPS

USE SidAssumption, CapAssumption, TtlAssumption, WidthAssumption,
    BoundAssumption

(* The SEQ after a SEQ is again a positive SEQ of the counter's width: the *)
(* wrap of content_changed skips 0.                                        *)
LEMMA NextSeqType ==
    ASSUME NEW n \in 1 .. SeqMax
    PROVE  NextSeq(n) \in 1 .. SeqMax
BY DEF NextSeq

(* SystemUpdateID stays within its width when it is bumped.                *)
LEMMA NextIdType ==
    ASSUME systemUpdateId \in 0 .. IdModulus - 1
    PROVE  NextId \in 0 .. IdModulus - 1 /\ NoticeId = NextId
BY DEF NextId, NoticeId

(* Every variable keeps its type in every step of every handler.           *)
LEMMA TypeInit == Init => TypeOK
BY DEF Init, TypeOK, Absent, Service

LEMMA TypeStep == TypeOK /\ [Next]_vars => TypeOK'
<1> SUFFICES ASSUME TypeOK, [Next]_vars PROVE TypeOK'
    OBVIOUS
<1> USE DEF TypeOK, Absent
<1>1. CASE Tick
    BY <1>1 DEF Tick, subVars, chgVars
<1>2. ASSUME NEW s \in Sid, NEW svc \in Service, NEW ttl \in Ttl,
             Admit(s, svc, ttl)
      PROVE  TypeOK'
    BY <1>2 DEF Admit, RetainUnexpired, Service, chgVars
<1>3. ASSUME NEW s \in Sid, Refuse(s) PROVE TypeOK'
    BY <1>3 DEF Refuse, RetainUnexpired, subVars, chgVars
<1>4. ASSUME NEW s \in Sid, TrackSnapshot(s) PROVE TypeOK'
    BY <1>4 DEF TrackSnapshot, Leased, chgVars
<1>5. ASSUME NEW s \in Sid, TrackInsert(s) PROVE TypeOK'
    BY <1>5 DEF TrackInsert, RetainLive, chgVars
<1>6. ASSUME NEW s \in Sid, Answer(s) PROVE TypeOK'
    <2>1. [seq |-> 0, id |-> systemUpdateId] \in Notify
        BY DEF Notify
    <2> QED
        BY <1>6, <2>1, SMTT(30) DEF Answer, IssueInitial, chgVars
<1>7. ASSUME NEW s \in Sid, NEW ttl \in Ttl, Renew(s, ttl) PROVE TypeOK'
    BY <1>7 DEF Renew, RetainUnexpired, subVars, chgVars
<1>8. ASSUME NEW s \in Sid, UnsubscribeLease(s) PROVE TypeOK'
    BY <1>8 DEF UnsubscribeLease, subVars, chgVars
<1>9. ASSUME NEW s \in Sid, UnsubscribeContent(s) PROVE TypeOK'
    BY <1>9 DEF UnsubscribeContent, subVars, chgVars
<1>10. ASSUME NEW s \in Sid, NEW m \in wire[s], SendEnds(s, m) PROVE TypeOK'
    BY <1>10 DEF SendEnds, subVars, chgVars
<1>11. ASSUME NEW c \in Caller, ChangeBump(c) PROVE TypeOK'
    BY <1>11, NextIdType DEF ChangeBump, subVars
<1>12. ASSUME NEW c \in Caller, ChangeReadClock(c) PROVE TypeOK'
    BY <1>12 DEF ChangeReadClock, subVars
<1>13. ASSUME NEW c \in Caller, ChangeSnapshot(c) PROVE TypeOK'
    BY <1>13 DEF ChangeSnapshot, Unexpired, subVars
<1>14. ASSUME NEW c \in Caller, ChangeTake(c) PROVE TypeOK'
    <2> DEFINE targets == Tracked \cap chgLive[c]
               sent(s) == IF s \in targets
                          THEN {[seq |-> content[s], id |-> chgId[c]]} ELSE {}
    <2>1. \A s \in Sid : sent(s) \in SUBSET Notify
        BY DEF Notify, Tracked
    <2>2. /\ content' = [s \in Sid |-> IF s \in targets
                                       THEN NextSeq(content[s]) ELSE Absent]
          /\ issued' = [s \in Sid |-> issued[s] \cup sent(s)]
          /\ wire' = [s \in Sid |-> wire[s] \cup sent(s)]
        BY <1>14 DEF ChangeTake, SeqsTaken, EventId
    <2>3. content' \in [Sid -> 1 .. SeqMax \cup {Absent}]
        BY <2>2, NextSeqType DEF Tracked
    <2> HIDE DEF sent
    <2>4. issued' \in [Sid -> SUBSET Notify] /\ wire' \in [Sid -> SUBSET Notify]
        BY <2>1, <2>2
    <2>5. QED
        BY <1>14, <2>3, <2>4 DEF ChangeTake, SeqsTaken, subVars
<1>15. CASE UNCHANGED vars
    BY <1>15 DEF vars, subVars, chgVars
<1> QED
    BY <1>1, <1>2, <1>3, <1>4, <1>5, <1>6, <1>7, <1>8, <1>9, <1>10, <1>11,
       <1>12, <1>13, <1>14, <1>15
    DEF Next, SubscribeStep, ChangeStep

(* Type correctness of the hub.                                            *)
THEOREM TypeCorrect == Spec => []TypeOK
BY TypeInit, TypeStep, PTL DEF Spec

-----------------------------------------------------------------------------
(***************************************************************************)
(* The tables stay within the cap.  The bound on `inner` is checked where  *)
(* a row is inserted; the bound on `content` needs to know more about the  *)
(* handler that inserts: the SIDs it read under the other lock were at     *)
(* most Cap, and its own was among them, because its lease is still        *)
(* running.                                                                *)
(***************************************************************************)
HandlersHoldLeases == \A s \in Sid : InHandler(s) => inner[s] > now

SnapshotsBounded ==
    \A s \in Sid : subPc[s] = "tracking" =>
        s \in subLive[s] /\ Cardinality(subLive[s]) <= Cap

TablesInv == TypeOK /\ HandlersHoldLeases /\ SnapshotsBounded /\ TablesBounded

LEMMA SubsetCardinality ==
    ASSUME NEW S \in SUBSET Sid, NEW T \in SUBSET S
    PROVE  /\ Cardinality(S) \in Nat
           /\ Cardinality(T) \in Nat
           /\ Cardinality(T) <= Cardinality(S)
<1>1. IsFiniteSet(S)
    BY FS_Subset
<1>2. IsFiniteSet(T) /\ Cardinality(T) <= Cardinality(S)
    BY <1>1, FS_Subset
<1> QED
    BY <1>1, <1>2, FS_CardinalityType

(* A table that only loses rows stays within the cap.                      *)
LEMMA FewerRowsBounded ==
    ASSUME TypeOK, TablesBounded, Leased' \subseteq Leased, Tracked' \subseteq Tracked
    PROVE  TablesBounded'
<1>1. Leased \in SUBSET Sid /\ Tracked \in SUBSET Sid
    BY DEF Leased, Tracked
<1> DEFINE LC == Cardinality(Leased)
           LP == Cardinality(Leased')
           TC == Cardinality(Tracked)
           TP == Cardinality(Tracked')
<1>2. LC \in Nat /\ LP \in Nat /\ LP <= LC
    BY <1>1, SubsetCardinality
<1>3. TC \in Nat /\ TP \in Nat /\ TP <= TC
    BY <1>1, SubsetCardinality
<1>4. LC <= Cap /\ TC <= Cap
    BY DEF TablesBounded
<1>5. LP <= Cap /\ TP <= Cap
    <2> HIDE DEF LC, LP, TC, TP
    <2> QED BY <1>2, <1>3, <1>4
<1> QED
    BY <1>5 DEF TablesBounded

LEMMA TablesInit == Init => TablesInv
<1> SUFFICES ASSUME Init PROVE TablesInv
    OBVIOUS
<1>1. Leased = {} /\ Tracked = {}
    BY DEF Init, Leased, Tracked
<1>2. TablesBounded
    BY <1>1, FS_EmptySet DEF TablesBounded
<1>3. HandlersHoldLeases /\ SnapshotsBounded
    BY DEF Init, HandlersHoldLeases, InHandler, SnapshotsBounded
<1> QED
    BY <1>2, <1>3, TypeInit DEF TablesInv

LEMMA TablesStep == TablesInv /\ [Next]_vars => TablesInv'
<1> SUFFICES ASSUME TablesInv, [Next]_vars PROVE TablesInv'
    OBVIOUS
<1>1. TypeOK /\ TypeOK'
    BY TypeStep DEF TablesInv
<1>2. HandlersHoldLeases /\ SnapshotsBounded /\ TablesBounded
    BY DEF TablesInv
<1> SUFFICES HandlersHoldLeases' /\ SnapshotsBounded' /\ TablesBounded'
    BY <1>1 DEF TablesInv
<1>3. CASE Tick
    <2>1. HandlersHoldLeases' /\ SnapshotsBounded'
        BY <1>1, <1>2, <1>3 DEF Tick, HandlersHoldLeases, SnapshotsBounded,
           InHandler, subVars, TypeOK, Absent
    <2>2. Leased' \subseteq Leased /\ Tracked' \subseteq Tracked
        BY <1>3 DEF Tick, Leased, Tracked
    <2> QED
        BY <1>1, <1>2, <2>1, <2>2, FewerRowsBounded
<1>4. ASSUME NEW s \in Sid, NEW svc \in Service, NEW ttl \in Ttl,
             Admit(s, svc, ttl)
      PROVE  HandlersHoldLeases' /\ SnapshotsBounded' /\ TablesBounded'
    <2>1. HandlersHoldLeases'
        BY <1>1, <1>2, <1>4 DEF Admit, RetainUnexpired, HandlersHoldLeases,
           InHandler, TypeOK, Absent
    <2>2. SnapshotsBounded'
        BY <1>1, <1>2, <1>4 DEF Admit, SnapshotsBounded, TypeOK
    <2>3. Leased' \subseteq Unexpired(now) \cup {s} /\ Tracked' = Tracked
        BY <1>1, <1>4 DEF Admit, RetainUnexpired, Leased, Tracked, Unexpired,
           TypeOK, Absent
    <2>4. IsFiniteSet(Unexpired(now))
        BY FS_Subset DEF Unexpired
    <2>5. /\ Cardinality(Unexpired(now)) \in Nat
          /\ Cardinality(Unexpired(now) \cup {s})
                <= Cardinality(Unexpired(now)) + 1
        BY <2>4, FS_AddElement, FS_CardinalityType, SMTT(30)
    <2>6. Unexpired(now) \cup {s} \in SUBSET Sid
        BY DEF Unexpired
    <2>7. /\ Cardinality(Leased') \in Nat
          /\ Cardinality(Unexpired(now) \cup {s}) \in Nat
          /\ Cardinality(Leased') <= Cardinality(Unexpired(now) \cup {s})
        BY <2>3, <2>6, SubsetCardinality
    <2>8. Cardinality(Unexpired(now)) < Cap
        BY <1>4 DEF Admit
    <2>9. Cardinality(Leased') <= Cap
        BY <2>5, <2>7, <2>8
    <2> QED
        BY <1>2, <2>1, <2>2, <2>3, <2>9 DEF TablesBounded
<1>5. ASSUME NEW s \in Sid, Refuse(s) \/ \E ttl \in Ttl : Renew(s, ttl)
      PROVE  HandlersHoldLeases' /\ SnapshotsBounded' /\ TablesBounded'
    <2>1. /\ UNCHANGED <<now, subPc, subLive>>
          /\ \A x \in Sid : InHandler(x) /\ inner[x] > now => inner'[x] = inner[x]
        BY <1>1, <1>5 DEF Refuse, Renew, RetainUnexpired, subVars, InHandler,
           TypeOK, Absent
    <2>2. HandlersHoldLeases' /\ SnapshotsBounded'
        BY <1>2, <2>1 DEF HandlersHoldLeases, SnapshotsBounded, InHandler
    <2>3. Leased' \subseteq Leased /\ Tracked' \subseteq Tracked
        BY <1>1, <1>5 DEF Refuse, Renew, RetainUnexpired, Leased, Tracked,
           TypeOK, Absent
    <2> QED
        BY <1>1, <1>2, <2>2, <2>3, FewerRowsBounded
<1>6. ASSUME NEW s \in Sid, TrackSnapshot(s)
      PROVE  HandlersHoldLeases' /\ SnapshotsBounded' /\ TablesBounded'
    <2>1. s \in Leased /\ Cardinality(Leased) <= Cap
        BY <1>1, <1>2, <1>6 DEF TrackSnapshot, HandlersHoldLeases, InHandler,
           Leased, TablesBounded, TypeOK, Absent
    <2>2. SnapshotsBounded'
        BY <1>1, <1>2, <1>6, <2>1 DEF TrackSnapshot, SnapshotsBounded, TypeOK
    <2>3. HandlersHoldLeases'
        BY <1>1, <1>2, <1>6 DEF TrackSnapshot, HandlersHoldLeases, InHandler,
           TypeOK
    <2>4. Leased' \subseteq Leased /\ Tracked' \subseteq Tracked
        BY <1>6 DEF TrackSnapshot, Leased, Tracked
    <2> QED
        BY <1>1, <1>2, <2>2, <2>3, <2>4, FewerRowsBounded
<1>7. ASSUME NEW s \in Sid, TrackInsert(s)
      PROVE  HandlersHoldLeases' /\ SnapshotsBounded' /\ TablesBounded'
    <2>1. HandlersHoldLeases' /\ SnapshotsBounded'
        BY <1>1, <1>2, <1>7 DEF TrackInsert, RetainLive, HandlersHoldLeases,
           SnapshotsBounded, InHandler, TypeOK
    <2>2. /\ s \in subLive[s]
          /\ Cardinality(subLive[s]) <= Cap
          /\ subLive[s] \in SUBSET Sid
        BY <1>1, <1>2, <1>7 DEF TrackInsert, RetainLive, SnapshotsBounded, TypeOK
    <2>3. Tracked' \in SUBSET subLive[s] /\ Leased' = Leased
        BY <1>7, <2>2 DEF TrackInsert, RetainLive, Tracked, Leased
    <2>4. /\ Cardinality(Tracked') <= Cardinality(subLive[s])
          /\ Cardinality(Tracked') \in Nat
          /\ Cardinality(subLive[s]) \in Nat
        BY <2>2, <2>3, SubsetCardinality
    <2>5. Cardinality(Tracked') <= Cap
        BY <2>2, <2>4
    <2> QED
        BY <1>2, <2>1, <2>3, <2>5 DEF TablesBounded
<1>8. ASSUME NEW s \in Sid, Answer(s)
      PROVE  HandlersHoldLeases' /\ SnapshotsBounded' /\ TablesBounded'
    <2>1. HandlersHoldLeases' /\ SnapshotsBounded'
        BY <1>1, <1>2, <1>8 DEF Answer, HandlersHoldLeases, SnapshotsBounded,
           InHandler, TypeOK
    <2>2. Leased' \subseteq Leased /\ Tracked' \subseteq Tracked
        BY <1>8 DEF Answer, Leased, Tracked
    <2> QED
        BY <1>1, <1>2, <2>1, <2>2, FewerRowsBounded
<1>9. ASSUME NEW s \in Sid, UnsubscribeLease(s)
      PROVE  HandlersHoldLeases' /\ SnapshotsBounded' /\ TablesBounded'
    <2>1. HandlersHoldLeases' /\ SnapshotsBounded'
        BY <1>1, <1>2, <1>9 DEF UnsubscribeLease, HandlersHoldLeases,
           SnapshotsBounded, InHandler, subVars, TypeOK
    <2>2. Leased' \subseteq Leased /\ Tracked' \subseteq Tracked
        BY <1>1, <1>9 DEF UnsubscribeLease, Leased, Tracked, TypeOK
    <2> QED
        BY <1>1, <1>2, <2>1, <2>2, FewerRowsBounded
<1>10. ASSUME NEW s \in Sid, UnsubscribeContent(s)
       PROVE  HandlersHoldLeases' /\ SnapshotsBounded' /\ TablesBounded'
    <2>1. HandlersHoldLeases' /\ SnapshotsBounded'
        BY <1>2, <1>10 DEF UnsubscribeContent, HandlersHoldLeases,
           SnapshotsBounded, InHandler, subVars
    <2>2. Leased' \subseteq Leased /\ Tracked' \subseteq Tracked
        BY <1>1, <1>10 DEF UnsubscribeContent, Leased, Tracked, TypeOK
    <2> QED
        BY <1>1, <1>2, <2>1, <2>2, FewerRowsBounded
<1>11. ASSUME NEW c \in Caller, ChangeTake(c)
       PROVE  HandlersHoldLeases' /\ SnapshotsBounded' /\ TablesBounded'
    <2>1. HandlersHoldLeases' /\ SnapshotsBounded'
        BY <1>2, <1>11 DEF ChangeTake, SeqsTaken, HandlersHoldLeases, SnapshotsBounded,
           InHandler, subVars
    <2>2. Leased' \subseteq Leased /\ Tracked' \subseteq Tracked
        BY <1>1, <1>11 DEF ChangeTake, SeqsTaken, Leased, Tracked, TypeOK
    <2> QED
        BY <1>1, <1>2, <2>1, <2>2, FewerRowsBounded
<1>12. CASE \/ UNCHANGED vars
            \/ \E s \in Sid : \E m \in wire[s] : SendEnds(s, m)
            \/ \E c \in Caller : \/ ChangeBump(c) \/ ChangeReadClock(c)
                                 \/ ChangeSnapshot(c)
    <2>1. UNCHANGED <<now, inner, content, subPc, subLive>>
        BY <1>12 DEF vars, subVars, SendEnds, ChangeBump, ChangeReadClock,
           ChangeSnapshot
    <2> QED
        BY <1>2, <2>1 DEF HandlersHoldLeases, SnapshotsBounded, TablesBounded,
           InHandler, Leased, Tracked
<1> QED
    BY <1>3, <1>4, <1>5, <1>6, <1>7, <1>8, <1>9, <1>10, <1>11, <1>12
    DEF Next, SubscribeStep, ChangeStep

(* `inner` and `content` never hold more than MAX_SUBSCRIPTIONS rows.      *)
THEOREM TablesAreBounded == Spec => []TablesBounded
<1>1. TablesInv => TablesBounded
    BY DEF TablesInv
<1> QED
    BY TablesInit, TablesStep, <1>1, PTL DEF Spec

-----------------------------------------------------------------------------
(***************************************************************************)
(* Where a SID can stand: only a ContentDirectory subscriber is tracked,   *)
(* not before its handler inserted it and never after its UNSUBSCRIBE.     *)
(***************************************************************************)
Placed(s) ==
    /\ subPc[s] \in {"admitted", "tracking"} => service[s] = "ContentDirectory"
    /\ s \in Tracked => /\ service[s] = "ContentDirectory"
                        /\ subPc[s] \in {"tracked", "answered"}
    /\ unsubPc[s] # "idle" => subPc[s] = "answered"
    /\ unsubPc[s] = "answered" => s \notin Tracked

PlacedInv == TypeOK /\ \A s \in Sid : Placed(s)

LEMMA PlacedInit == Init => PlacedInv
BY TypeInit DEF Init, PlacedInv, Placed, Tracked

LEMMA PlacedStep == PlacedInv /\ [Next]_vars => PlacedInv'
<1> SUFFICES ASSUME PlacedInv, [Next]_vars, NEW x \in Sid PROVE Placed(x)'
    BY TypeStep DEF PlacedInv
<1>1. TypeOK /\ Placed(x)
    BY DEF PlacedInv
<1> USE <1>1 DEF TypeOK, Placed, Tracked, Absent
<1>2. ASSUME NEW s \in Sid, NEW svc \in Service, NEW ttl \in Ttl,
             Admit(s, svc, ttl)
      PROVE  Placed(x)'
    BY <1>2 DEF Admit, Service
<1>3. ASSUME NEW s \in Sid, TrackSnapshot(s) PROVE Placed(x)'
    BY <1>3 DEF TrackSnapshot
<1>4. ASSUME NEW s \in Sid, TrackInsert(s) PROVE Placed(x)'
    BY <1>4 DEF TrackInsert, RetainLive
<1>5. ASSUME NEW s \in Sid, Answer(s) PROVE Placed(x)'
    BY <1>5 DEF Answer
<1>6. ASSUME NEW s \in Sid, UnsubscribeLease(s) PROVE Placed(x)'
    BY <1>6 DEF UnsubscribeLease, subVars
<1>7. ASSUME NEW s \in Sid, UnsubscribeContent(s) PROVE Placed(x)'
    BY <1>7 DEF UnsubscribeContent, subVars
<1>8. ASSUME NEW c \in Caller, ChangeTake(c) PROVE Placed(x)'
    <2>1. content' = [s \in Sid |-> IF s \in Tracked \cap chgLive[c]
                                    THEN NextSeq(content[s]) ELSE Absent]
        BY <1>8 DEF ChangeTake, SeqsTaken
    <2>2. x \in Tracked' => x \in Tracked
        BY <2>1
    <2>3. UNCHANGED <<subPc, service, unsubPc>>
        BY <1>8 DEF ChangeTake, SeqsTaken, subVars
    <2> QED
        BY <2>2, <2>3
<1>9. CASE \/ UNCHANGED vars \/ Tick
           \/ \E s \in Sid : Refuse(s) \/ \E ttl \in Ttl : Renew(s, ttl)
           \/ \E s \in Sid : \E m \in wire[s] : SendEnds(s, m)
           \/ \E c \in Caller : \/ ChangeBump(c) \/ ChangeReadClock(c)
                                \/ ChangeSnapshot(c)
    <2>1. UNCHANGED <<content, subPc, service, unsubPc>>
        BY <1>9 DEF vars, subVars, Tick, Refuse, Renew, SendEnds, ChangeBump,
           ChangeReadClock, ChangeSnapshot
    <2> QED
        BY <2>1
<1> QED
    BY <1>2, <1>3, <1>4, <1>5, <1>6, <1>7, <1>8, <1>9
    DEF Next, SubscribeStep, ChangeStep

LEMMA PlacedCorrect == Spec => []PlacedInv
BY PlacedInit, PlacedStep, PTL DEF Spec

(* After the answer to its UNSUBSCRIBE no NOTIFY is issued for a SID, even *)
(* by a content_changed that had read its lease as live.                   *)
THEOREM NoneIssuedAfterUnsubscribeHolds == Spec => NoneIssuedAfterUnsubscribe
<1>1. ASSUME PlacedInv, [Next]_vars, NEW x \in Sid, unsubPc[x] = "answered"
      PROVE  issued'[x] = issued[x]
    <2>1. TypeOK /\ Placed(x)
        BY <1>1 DEF PlacedInv
    <2>2. x \notin Tracked /\ subPc[x] = "answered"
        BY <1>1, <2>1 DEF Placed
    <2>3. ASSUME NEW s \in Sid, Answer(s) PROVE issued'[x] = issued[x]
        BY <2>1, <2>2, <2>3 DEF Answer, IssueInitial, TypeOK
    <2>4. ASSUME NEW c \in Caller, ChangeTake(c) PROVE issued'[x] = issued[x]
        BY <2>1, <2>2, <2>4 DEF ChangeTake, SeqsTaken
    <2>5. CASE /\ ~\E s \in Sid : Answer(s)
               /\ ~\E c \in Caller : ChangeTake(c)
        BY <1>1, <2>5 DEF Next, SubscribeStep, ChangeStep, vars, Tick, Admit,
           Refuse, TrackSnapshot, TrackInsert, Renew, UnsubscribeLease,
           UnsubscribeContent, SendEnds, ChangeBump, ChangeReadClock,
           ChangeSnapshot
    <2> QED
        BY <2>3, <2>4, <2>5
<1>2. PlacedInv /\ [Next]_vars
        => [\A s \in Sid : unsubPc[s] = "answered" => issued'[s] = issued[s]]_vars
    BY <1>1
<1> QED
    BY PlacedCorrect, <1>2, PTL DEF Spec, NoneIssuedAfterUnsubscribe

-----------------------------------------------------------------------------
(* A lapsed or cancelled lease stays so: only a renewal that still finds   *)
(* the row unexpired extends it, and a new SID is never an old one.        *)
THEOREM LapsedStaysLapsedHolds == Spec => LapsedStaysLapsed
<1>1. ASSUME TypeOK, [Next]_vars, NEW x \in Sid,
             subPc[x] = "answered", inner[x] <= now
      PROVE  inner'[x] <= now'
    <2> USE <1>1 DEF TypeOK, Absent
    <2>1. CASE Tick
        BY <2>1 DEF Tick
    <2>2. ASSUME NEW s \in Sid, NEW svc \in Service, NEW ttl \in Ttl,
                 Admit(s, svc, ttl)
          PROVE  inner'[x] <= now'
        BY <2>2 DEF Admit, RetainUnexpired
    <2>3. ASSUME NEW s \in Sid, Refuse(s) PROVE inner'[x] <= now'
        BY <2>3 DEF Refuse, RetainUnexpired
    <2>4. ASSUME NEW s \in Sid, NEW ttl \in Ttl, Renew(s, ttl)
          PROVE  inner'[x] <= now'
        BY <2>4 DEF Renew, RetainUnexpired
    <2>5. ASSUME NEW s \in Sid, UnsubscribeLease(s) PROVE inner'[x] <= now'
        BY <2>5 DEF UnsubscribeLease
    <2>6. CASE UNCHANGED <<now, inner>>
        BY <2>6
    <2> QED
        BY <2>1, <2>2, <2>3, <2>4, <2>5, <2>6 DEF Next, SubscribeStep,
           ChangeStep, vars, TrackSnapshot, TrackInsert, Answer,
           UnsubscribeContent, SendEnds, ChangeBump, ChangeReadClock,
           ChangeSnapshot, ChangeTake
<1>2. TypeOK /\ [Next]_vars
        => [\A s \in Sid : subPc[s] = "answered" /\ inner[s] <= now
                            => inner'[s] <= now']_vars
    BY <1>1
<1> QED
    BY TypeCorrect, <1>2, PTL DEF Spec, LapsedStaysLapsed

-----------------------------------------------------------------------------
(***************************************************************************)
(* A tracked subscriber never misses a change.  The id it must have been   *)
(* sent moves only in ChangeBump, whose thread then owes it to everybody   *)
(* tracked when it takes its targets; a SID that enters later reads the id *)
(* after it entered.                                                       *)
(***************************************************************************)
Told(s) == \/ \E m \in issued[s] : m.id = systemUpdateId
           \/ \E c \in Caller : chgPc[c] # "idle" /\ chgId[c] = systemUpdateId

ToldInv == PlacedInv /\ TrackedNeverMissChange

LEMMA ToldStep == ToldInv /\ [Next]_vars => ToldInv'
<1> SUFFICES ASSUME ToldInv, [Next]_vars, NEW x \in Sid,
                    x \in Tracked', subPc'[x] = "answered"
             PROVE  Told(x)'
    <2>1. Tracked' \subseteq Sid
        BY DEF Tracked
    <2> QED
        BY <2>1, PlacedStep DEF ToldInv, TrackedNeverMissChange, Told
<1>1. TypeOK /\ Placed(x)
    BY DEF ToldInv, PlacedInv
<1>2. x \in Tracked /\ subPc[x] = "answered" => Told(x)
    BY DEF ToldInv, TrackedNeverMissChange, Told
<1> USE <1>1 DEF TypeOK, Absent
<1>3. ASSUME NEW s \in Sid, Answer(s) PROVE Told(x)'
    <2>1. UNCHANGED <<content, systemUpdateId, chgVars>> /\ x \in Tracked
        BY <1>3 DEF Answer, Tracked
    <2>2. CASE x = s
        <3>1. service[s] = "ContentDirectory"
            BY <2>1, <2>2 DEF Placed
        <3>2. [seq |-> 0, id |-> systemUpdateId] \in issued'[x]
            BY <1>3, <2>2, <3>1 DEF Answer, IssueInitial
        <3> QED
            BY <2>1, <3>2 DEF Told
    <2>3. CASE x # s
        <3>1. Told(x) /\ issued[x] \subseteq issued'[x]
            BY <1>2, <1>3, <2>1, <2>3 DEF Answer, IssueInitial
        <3> QED
            BY <2>1, <3>1 DEF Told, chgVars
    <2> QED
        BY <2>2, <2>3
<1>4. ASSUME NEW s \in Sid, TrackInsert(s) PROVE Told(x)'
    <2>1. x # s
        BY <1>4 DEF TrackInsert, RetainLive
    <2>2. x \in Tracked /\ subPc[x] = "answered"
        BY <1>4, <2>1 DEF TrackInsert, RetainLive, Tracked
    <2> QED
        BY <1>2, <1>4, <2>2 DEF TrackInsert, RetainLive, Told, chgVars
<1>5. ASSUME NEW c \in Caller, ChangeBump(c) PROVE Told(x)'
    BY <1>5, NextIdType DEF ChangeBump, Told
<1>6. ASSUME NEW c \in Caller, ChangeTake(c) PROVE Told(x)'
    <2> DEFINE m == [seq |-> content[x], id |-> chgId[c]]
    <2>1. x \in Tracked \cap chgLive[c] /\ subPc[x] = "answered"
        BY <1>6 DEF ChangeTake, SeqsTaken, Tracked, subVars
    <2>2. issued'[x] = issued[x] \cup {m}
        BY <1>6, <2>1 DEF ChangeTake, SeqsTaken, EventId
    <2>3. CASE \E n \in issued[x] : n.id = systemUpdateId
        BY <1>6, <2>2, <2>3 DEF ChangeTake, SeqsTaken, Told
    <2>4. CASE chgId[c] = systemUpdateId
        <3>1. m \in issued'[x] /\ m.id = systemUpdateId'
            BY <1>6, <2>2, <2>4 DEF ChangeTake, SeqsTaken
        <3> QED
            BY <3>1 DEF Told
    <2>5. ASSUME NEW d \in Caller, d # c, chgPc[d] # "idle",
                 chgId[d] = systemUpdateId
          PROVE  Told(x)'
        BY <1>6, <2>5 DEF ChangeTake, SeqsTaken, Told
    <2> QED
        BY <1>2, <2>1, <2>3, <2>4, <2>5 DEF Told
<1>7. CASE \/ \E s \in Sid : \/ TrackSnapshot(s) \/ Refuse(s)
                             \/ \E svc \in Service, ttl \in Ttl : Admit(s, svc, ttl)
                             \/ \E ttl \in Ttl : Renew(s, ttl)
                             \/ UnsubscribeLease(s) \/ UnsubscribeContent(s)
                             \/ \E m \in wire[s] : SendEnds(s, m)
           \/ Tick \/ UNCHANGED vars
    <2>1. /\ UNCHANGED <<issued, systemUpdateId, chgPc, chgId>>
          /\ x \in Tracked /\ subPc[x] = "answered"
        BY <1>7 DEF TrackSnapshot, Refuse, Admit, Renew, UnsubscribeLease,
           UnsubscribeContent, SendEnds, Tick, vars, subVars, chgVars, Tracked
    <2> QED
        BY <1>2, <2>1 DEF Told
<1>8. ASSUME NEW c \in Caller, ChangeReadClock(c) \/ ChangeSnapshot(c)
      PROVE  Told(x)'
    <2>1. /\ UNCHANGED <<issued, systemUpdateId, chgId, content, subPc>>
          /\ \A d \in Caller : chgPc[d] # "idle" => chgPc'[d] # "idle"
        BY <1>8 DEF ChangeReadClock, ChangeSnapshot, subVars
    <2> QED
        BY <1>2, <2>1 DEF Told, Tracked
<1> QED
    BY <1>3, <1>4, <1>5, <1>6, <1>7, <1>8 DEF Next, SubscribeStep, ChangeStep

(* No subscriber the hub tracks misses a change of the library, however    *)
(* many threads call content_changed and whatever interleaves with them.   *)
THEOREM TrackedNeverMissChangeHolds == Spec => []TrackedNeverMissChange
<1>1. Init => ToldInv
    BY PlacedInit DEF Init, ToldInv, TrackedNeverMissChange, Tracked
<1>2. ToldInv => TrackedNeverMissChange
    BY DEF ToldInv
<1> QED
    BY <1>1, ToldStep, <1>2, PTL DEF Spec

-----------------------------------------------------------------------------
(***************************************************************************)
(* What has been issued to a SID: nothing before its handler answered but  *)
(* what content_changed sent it once tracked, one event with SEQ 0, and a  *)
(* SEQ for each call that took it as a target.                             *)
(***************************************************************************)
IssuedShape(s) ==
    /\ subPc[s] \in {"idle", "admitted", "tracking"} => issued[s] = {}
    /\ \A m \in issued[s] : m.seq = 0 => subPc[s] = "answered"
    /\ \A m1, m2 \in issued[s] : m1.seq = 0 /\ m2.seq = 0 => m1 = m2

IssuedInv == PlacedInv /\ \A s \in Sid : IssuedShape(s)

\* The NOTIFY that a call of content_changed spawns for a SID, if any.
Sent(c, s) ==
    IF s \in Tracked \cap chgLive[c]
    THEN {[seq |-> content[s], id |-> chgId[c]]} ELSE {}

\* The steps that issue nothing.
LEMMA WhatIsIssued ==
    ASSUME TypeOK, [Next]_vars, NEW x \in Sid
    PROVE  \/ issued'[x] = issued[x]
           \/ /\ Answer(x)
              /\ issued'[x] = issued[x] \cup {[seq |-> 0, id |-> systemUpdateId]}
           \/ \E c \in Caller : ChangeTake(c) /\ issued'[x] = issued[x] \cup Sent(c, x)
<1>1. ASSUME NEW s \in Sid, Answer(s)
      PROVE  \/ issued'[x] = issued[x]
             \/ /\ Answer(x)
                /\ issued'[x] = issued[x] \cup {[seq |-> 0, id |-> systemUpdateId]}
    <2>1. CASE s = x
        BY <1>1, <2>1 DEF Answer, IssueInitial, TypeOK
    <2>2. CASE s # x
        BY <1>1, <2>2 DEF Answer, IssueInitial, TypeOK
    <2> QED
        BY <2>1, <2>2
<1>2. ASSUME NEW c \in Caller, ChangeTake(c)
      PROVE  issued'[x] = issued[x] \cup Sent(c, x)
    BY <1>2 DEF ChangeTake, Sent, EventId
<1>3. CASE /\ ~\E s \in Sid : Answer(s)
           /\ ~\E c \in Caller : ChangeTake(c)
    BY <1>3 DEF Next, SubscribeStep, ChangeStep, vars, Tick, Admit, Refuse,
       TrackSnapshot, TrackInsert, Renew, UnsubscribeLease, UnsubscribeContent,
       SendEnds, ChangeBump, ChangeReadClock, ChangeSnapshot
<1> QED
    BY <1>1, <1>2, <1>3

\* A handler only moves forward, and only Answer ends it.
LEMMA HandlerMovesOn ==
    ASSUME TypeOK, [Next]_vars, NEW x \in Sid
    PROVE  /\ subPc'[x] \in {"idle", "admitted", "tracking"}
                => subPc[x] \in {"idle", "admitted", "tracking"}
           /\ subPc[x] = "answered" => subPc'[x] = "answered"
<1> USE DEF TypeOK
<1>1. ASSUME NEW s \in Sid, NEW svc \in Service, NEW ttl \in Ttl, Admit(s, svc, ttl)
      PROVE  /\ subPc'[x] \in {"idle", "admitted", "tracking"}
                  => subPc[x] \in {"idle", "admitted", "tracking"}
             /\ subPc[x] = "answered" => subPc'[x] = "answered"
    BY <1>1 DEF Admit
<1>2. ASSUME NEW s \in Sid, SubscribeStep(s)
      PROVE  /\ subPc'[x] \in {"idle", "admitted", "tracking"}
                  => subPc[x] \in {"idle", "admitted", "tracking"}
             /\ subPc[x] = "answered" => subPc'[x] = "answered"
    BY <1>2 DEF SubscribeStep, TrackSnapshot, TrackInsert, Answer
<1>3. CASE UNCHANGED subPc
    BY <1>3
<1> QED
    BY <1>1, <1>2, <1>3 DEF Next, ChangeStep, vars, subVars, Tick, Refuse, Renew,
       UnsubscribeLease, UnsubscribeContent, SendEnds, ChangeBump,
       ChangeReadClock, ChangeSnapshot, ChangeTake

LEMMA IssuedStep == IssuedInv /\ [Next]_vars => IssuedInv'
<1> SUFFICES ASSUME IssuedInv, [Next]_vars, NEW x \in Sid PROVE IssuedShape(x)'
    BY PlacedStep DEF IssuedInv
<1>1. TypeOK /\ Placed(x) /\ IssuedShape(x)
    BY DEF IssuedInv, PlacedInv
<1>2. CASE issued'[x] = issued[x]
    BY <1>1, <1>2, HandlerMovesOn DEF IssuedShape
<1>3. CASE /\ Answer(x)
           /\ issued'[x] = issued[x] \cup {[seq |-> 0, id |-> systemUpdateId]}
    <2>1. subPc[x] = "tracked" /\ subPc'[x] = "answered"
        BY <1>1, <1>3 DEF Answer, TypeOK
    <2>2. \A m \in issued[x] : m.seq # 0
        BY <1>1, <2>1 DEF IssuedShape
    <2> QED
        BY <1>3, <2>1, <2>2 DEF IssuedShape
<1>4. ASSUME NEW c \in Caller, ChangeTake(c), issued'[x] = issued[x] \cup Sent(c, x)
      PROVE  IssuedShape(x)'
    <2>1. subPc'[x] = subPc[x]
        BY <1>4 DEF ChangeTake, subVars
    <2>2. \A m \in Sent(c, x) : m.seq # 0 /\ subPc[x] \in {"tracked", "answered"}
        BY <1>1 DEF Sent, Placed, Tracked, TypeOK, Absent
    <2> QED
        BY <1>1, <1>4, <2>1, <2>2 DEF IssuedShape
<1> QED
    BY <1>1, <1>2, <1>3, <1>4, WhatIsIssued

LEMMA IssuedInit == Init => IssuedInv
BY PlacedInit DEF Init, IssuedInv, IssuedShape

(* SEQ 0 is the initial event's alone, though SEQ wraps: no interleaving   *)
(* of the handler that answers and the calls that take SEQs reuses it.     *)
THEOREM SeqZeroOnlyInitialHolds == Spec => []SeqZeroOnlyInitial
<1>1. IssuedInv => SeqZeroOnlyInitial
    BY DEF IssuedInv, IssuedShape, SeqZeroOnlyInitial
<1> QED
    BY IssuedInit, IssuedStep, <1>1, PTL DEF Spec

-----------------------------------------------------------------------------
(***************************************************************************)
(* SEQ has no gap.  The next SEQ of a subscriber counts the calls that     *)
(* took it as a target, and these, with the calls still under way, are no  *)
(* more than all calls made: until there have been SeqMax of them no SEQ   *)
(* has wrapped.                                                            *)
(***************************************************************************)
Busy == {c \in Caller : chgPc[c] # "idle"}

CallsCounted ==
    /\ IsFiniteSet(Busy)
    /\ changes <= MaxChanges
    /\ Cardinality(Busy) <= changes
    /\ \A s \in Tracked : content[s] - 1 + Cardinality(Busy) <= changes

Gapless(s) ==
    /\ \A m \in issued[s] : m.seq # 0 => m.seq < content[s]
    /\ \A k \in 1 .. content[s] - 1 : \E m \in issued[s] : m.seq = k
    /\ \A m1, m2 \in issued[s] : m1.seq # 0 /\ m1.seq = m2.seq => m1 = m2

GaplessInv == IssuedInv /\ CallsCounted /\ \A s \in Tracked : Gapless(s)

\* Whose row there is after a step, and what it then holds.
LEMMA RowsAfter ==
    ASSUME TypeOK, [Next]_vars, NEW x \in Tracked'
    PROVE  \/ x \in Tracked /\ content'[x] = content[x]
              /\ ~\E c \in Caller : ChangeTake(c)
           \/ TrackInsert(x) /\ content'[x] = 1
           \/ \E c \in Caller : /\ ChangeTake(c)
                                /\ x \in Tracked \cap chgLive[c]
                                /\ content'[x] = NextSeq(content[x])
<1> USE DEF TypeOK, Absent, Tracked
<1>1. x \in Sid
    OBVIOUS
<1>2. ASSUME NEW s \in Sid, TrackInsert(s)
      PROVE  \/ x \in Tracked /\ content'[x] = content[x] /\ UNCHANGED chgPc
             \/ TrackInsert(x) /\ content'[x] = 1
    <2>1. CASE x = s
        BY <1>2, <2>1 DEF TrackInsert, RetainLive
    <2>2. CASE x # s
        BY <1>2, <2>2 DEF TrackInsert, RetainLive, chgVars
    <2> QED
        BY <2>1, <2>2
<1>3. ASSUME NEW c \in Caller, ChangeTake(c)
      PROVE  x \in Tracked \cap chgLive[c] /\ content'[x] = NextSeq(content[x])
    BY <1>3, <1>1 DEF ChangeTake, SeqsTaken
<1>4. ASSUME NEW s \in Sid, UnsubscribeContent(s)
      PROVE  x \in Tracked /\ content'[x] = content[x] /\ UNCHANGED chgPc
    BY <1>4, <1>1 DEF UnsubscribeContent, chgVars
<1>5. ASSUME NEW c \in Caller, ChangeTake(c) PROVE ~UNCHANGED chgPc
    BY <1>5 DEF ChangeTake
<1>6. CASE UNCHANGED content
    BY <1>3, <1>6
<1> QED
    BY <1>2, <1>3, <1>4, <1>5, <1>6 DEF Next, SubscribeStep, ChangeStep, vars,
       Tick, Admit, Refuse, TrackSnapshot, Answer, Renew, UnsubscribeLease,
       SendEnds, ChangeBump, ChangeReadClock, ChangeSnapshot

\* The calls under way after a step.
LEMMA CallsAfter ==
    ASSUME TypeOK, CallsCounted, [Next]_vars
    PROVE  /\ IsFiniteSet(Busy') /\ Cardinality(Busy') \in Nat /\ Cardinality(Busy) \in Nat
           /\ changes' \in Nat /\ changes' >= changes /\ changes' <= MaxChanges
           /\ Cardinality(Busy') - Cardinality(Busy) <= changes' - changes
           /\ (\E c \in Caller : ChangeTake(c))
                => Cardinality(Busy') = Cardinality(Busy) - 1 /\ changes' = changes
<1> DEFINE Goal == /\ IsFiniteSet(Busy') /\ Cardinality(Busy') \in Nat /\ Cardinality(Busy) \in Nat
                   /\ changes' \in Nat /\ changes' >= changes /\ changes' <= MaxChanges
                   /\ Cardinality(Busy') - Cardinality(Busy) <= changes' - changes
<1>1. IsFiniteSet(Busy) /\ Cardinality(Busy) \in Nat /\ changes \in Nat /\ changes <= MaxChanges
    BY FS_CardinalityType DEF CallsCounted, TypeOK
<1>2. ASSUME NEW c \in Caller, ChangeBump(c) PROVE Goal
    <2>1. Busy' = Busy \cup {c} /\ c \notin Busy
        BY <1>2 DEF ChangeBump, Busy, TypeOK
    <2>2. IsFiniteSet(Busy') /\ Cardinality(Busy') = Cardinality(Busy) + 1
        BY <1>1, <2>1, FS_AddElement
    <2> QED
        BY <1>1, <1>2, <2>2 DEF ChangeBump
<1>3. ASSUME NEW c \in Caller, ChangeTake(c)
      PROVE  Goal /\ Cardinality(Busy') = Cardinality(Busy) - 1 /\ changes' = changes
    <2>1. Busy' = Busy \ {c} /\ c \in Busy
        BY <1>3 DEF ChangeTake, Busy, TypeOK
    <2>2. IsFiniteSet(Busy') /\ Cardinality(Busy') = Cardinality(Busy) - 1
        BY <1>1, <2>1, FS_RemoveElement
    <2>3. Cardinality(Busy') \in Nat
        BY <2>2, FS_CardinalityType
    <2> QED
        BY <1>1, <1>3, <2>2, <2>3 DEF ChangeTake
<1>4. ASSUME NEW c \in Caller, ChangeReadClock(c) \/ ChangeSnapshot(c)
      PROVE  Busy' = Busy /\ changes' = changes
    BY <1>4 DEF ChangeReadClock, ChangeSnapshot, Busy, TypeOK
<1>5. UNCHANGED chgPc => Busy' = Busy
    BY DEF Busy
<1>6. ASSUME Busy' = Busy, changes' = changes PROVE Goal
    <2>1. IsFiniteSet(Busy') /\ Cardinality(Busy') = Cardinality(Busy)
        BY <1>1, <1>6
    <2> QED
        BY <1>1, <1>6, <2>1
<1>7. \/ \E c \in Caller : ChangeBump(c) \/ ChangeStep(c)
      \/ UNCHANGED chgPc /\ changes' = changes
    BY DEF Next, SubscribeStep, vars, chgVars, Tick, Admit, Refuse, TrackSnapshot,
       TrackInsert, Answer, Renew, UnsubscribeLease, UnsubscribeContent, SendEnds
<1> HIDE DEF Goal
<1>8. Goal
    BY <1>2, <1>3, <1>4, <1>5, <1>6, <1>7 DEF ChangeStep
<1> QED
    BY <1>3, <1>8 DEF Goal

LEMMA GaplessStep ==
    ASSUME MaxChanges < SeqMax
    PROVE  GaplessInv /\ [Next]_vars => GaplessInv'
<1> SUFFICES ASSUME GaplessInv, [Next]_vars PROVE GaplessInv'
    OBVIOUS
<1>1. IssuedInv /\ IssuedInv' /\ TypeOK /\ CallsCounted
    BY IssuedStep DEF GaplessInv, IssuedInv, PlacedInv
<1>2. PICK B \in Nat, BP \in Nat :
          /\ B = Cardinality(Busy) /\ BP = Cardinality(Busy') /\ IsFiniteSet(Busy')
          /\ changes' \in Nat /\ changes' >= changes /\ changes' <= MaxChanges
          /\ BP - B <= changes' - changes
          /\ (\E c \in Caller : ChangeTake(c)) => BP = B - 1 /\ changes' = changes
    BY <1>1, CallsAfter
<1>3. /\ changes \in Nat /\ changes <= MaxChanges /\ B <= changes
      /\ \A s \in Tracked : content[s] \in 1 .. SeqMax /\ content[s] - 1 + B <= changes
    BY <1>1, <1>2 DEF CallsCounted, TypeOK, Tracked
<1>4. BP <= changes'
    BY <1>2, <1>3
<1>5. ASSUME NEW x \in Tracked'
      PROVE  content'[x] - 1 + BP <= changes' /\ Gapless(x)'
    <2>1. x \in Sid
        BY DEF Tracked
    <2>2. CASE /\ x \in Tracked /\ content'[x] = content[x]
               /\ ~\E c \in Caller : ChangeTake(c)
        <3>1. Gapless(x)
            BY <2>2 DEF GaplessInv
        <3>2. \/ issued'[x] = issued[x]
              \/ issued'[x] = issued[x] \cup {[seq |-> 0, id |-> systemUpdateId]}
            BY <1>1, <2>1, <2>2, WhatIsIssued
        <3>3. Gapless(x)'
            BY <2>2, <3>1, <3>2 DEF Gapless
        <3> QED
            BY <1>2, <1>3, <2>2, <3>3
    <2>3. CASE TrackInsert(x) /\ content'[x] = 1
        <3>1. issued'[x] = {}
            BY <1>1, <2>1, <2>3 DEF TrackInsert, IssuedInv, IssuedShape
        <3> QED
            BY <1>4, <1>2, <2>3, <3>1 DEF Gapless
    <2>4. ASSUME NEW c \in Caller, ChangeTake(c), x \in Tracked \cap chgLive[c],
                 content'[x] = NextSeq(content[x])
          PROVE  content'[x] - 1 + BP <= changes' /\ Gapless(x)'
        <3>1. BP = B - 1 /\ changes' = changes
            BY <1>2, <2>4
        <3>2. content[x] \in 1 .. SeqMax /\ content[x] - 1 + B <= changes
            BY <1>3, <2>4
        <3>3. content[x] < SeqMax
            BY <1>2, <1>3, <3>1, <3>2
        <3>4. content'[x] = content[x] + 1
            BY <2>4, <3>2, <3>3 DEF NextSeq
        <3>5. issued'[x] = issued[x] \cup {[seq |-> content[x], id |-> chgId[c]]}
            BY <2>1, <2>4 DEF ChangeTake, EventId
        <3>6. Gapless(x)
            BY <2>4 DEF GaplessInv
        <3>7. \A m \in issued[x] : m.seq \in Nat
            BY <1>1, <2>1 DEF TypeOK, Notify
        <3>8. Gapless(x)'
            <4> DEFINE n == content[x]
                       e == [seq |-> content[x], id |-> chgId[c]]
            <4>1. e.seq = n /\ n \in Nat \ {0}
                BY <3>2
            <4>2. /\ \A m \in issued[x] : m.seq # 0 => m.seq < n
                  /\ \A k \in 1 .. n - 1 : \E m \in issued[x] : m.seq = k
                  /\ \A m1, m2 \in issued[x] : m1.seq # 0 /\ m1.seq = m2.seq => m1 = m2
                BY <3>6 DEF Gapless
            <4>3. issued'[x] = issued[x] \cup {e} /\ content'[x] = n + 1
                BY <3>4, <3>5
            <4> HIDE DEF n, e
            <4>4. \A m \in issued'[x] : m.seq # 0 => m.seq < n + 1
                BY <3>7, <4>1, <4>2, <4>3
            <4>5. \A k \in 1 .. (n + 1) - 1 : \E m \in issued'[x] : m.seq = k
                BY <4>1, <4>2, <4>3
            <4>6. \A m1, m2 \in issued'[x] : m1.seq # 0 /\ m1.seq = m2.seq => m1 = m2
                BY <3>7, <4>1, <4>2, <4>3
            <4> QED
                BY <4>3, <4>4, <4>5, <4>6 DEF Gapless
        <3> QED
            BY <1>2, <1>3, <3>1, <3>2, <3>4, <3>8
    <2> QED
        BY <1>1, <2>2, <2>3, <2>4, RowsAfter
<1> QED
    BY <1>1, <1>2, <1>4, <1>5 DEF GaplessInv, CallsCounted

LEMMA GaplessInit == Init => GaplessInv
<1> SUFFICES ASSUME Init PROVE GaplessInv
    OBVIOUS
<1>1. Busy = {} /\ Tracked = {} /\ changes = 0
    BY DEF Init, Busy, Tracked
<1> QED
    BY <1>1, IssuedInit, FS_EmptySet DEF GaplessInv, CallsCounted

(* The NOTIFYs of content_changed to a tracked subscriber carry 1, 2, ...  *)
(* without gap or repetition, whatever threads make the calls, as long as  *)
(* fewer calls were made than SEQ has values.                              *)
THEOREM SeqGaplessHolds ==
    ASSUME MaxChanges < SeqMax
    PROVE  Spec => []SeqGapless
<1>1. GaplessInv => SeqGapless
    <2> SUFFICES ASSUME GaplessInv, NEW s \in Tracked
                 PROVE  /\ {m.seq : m \in {n \in issued[s] : n.seq # 0}} = 1 .. content[s] - 1
                        /\ \A m1, m2 \in {n \in issued[s] : n.seq # 0} :
                              m1.seq = m2.seq => m1 = m2
        BY DEF SeqGapless
    <2>1. Gapless(s) /\ content[s] \in Nat /\ \A m \in issued[s] : m.seq \in Nat
        BY DEF GaplessInv, IssuedInv, PlacedInv, TypeOK, Tracked, Notify, Absent
    <2> QED
        BY <2>1 DEF Gapless
<1> QED
    BY <1>1, GaplessInit, GaplessStep, PTL DEF Spec

-----------------------------------------------------------------------------
(***************************************************************************)
(* The events are in the order of their ids but for calls that overlap:    *)
(* the atomic counts the calls, so each call in progress has an id of its  *)
(* own, which no event issued so far carries.                              *)
(***************************************************************************)
IdsInOrder ==
    /\ systemUpdateId = 1 + changes /\ changes <= MaxChanges
    /\ \A c \in Busy : chgId[c] <= systemUpdateId
    /\ \A c, d \in Busy : chgId[c] = chgId[d] => c = d
    /\ \A s \in Sid : \A m \in issued[s] :
          /\ m.id <= systemUpdateId
          /\ m.seq # 0 => \A c \in Busy : m.id # chgId[c]

LEMMA NextIdIsNewer ==
    ASSUME MaxChanges + 1 < IdModulus, TypeOK, IdsInOrder, changes < MaxChanges
    PROVE  NextId = systemUpdateId + 1
<1>1. changes \in Nat /\ systemUpdateId = 1 + changes
    BY DEF TypeOK, IdsInOrder
<1>2. systemUpdateId + 1 \in 0 .. IdModulus - 1
    BY <1>1, BoundAssumption, WidthAssumption
<1> QED
    BY <1>2 DEF NextId

LEMMA IdsStep ==
    ASSUME MaxChanges + 1 < IdModulus
    PROVE  TypeOK /\ IdsInOrder /\ [Next]_vars => IdsInOrder'
<1> SUFFICES ASSUME TypeOK, IdsInOrder, [Next]_vars PROVE IdsInOrder'
    OBVIOUS
<1>1. /\ systemUpdateId \in Nat /\ changes \in Nat
      /\ \A c \in Caller : chgId[c] \in Nat
      /\ \A s \in Sid : \A m \in issued[s] : m.id \in Nat
    BY DEF TypeOK, Notify
<1>2. ASSUME NEW c \in Caller, ChangeBump(c) PROVE IdsInOrder'
    <2>1. /\ systemUpdateId' = systemUpdateId + 1 /\ changes < MaxChanges
          /\ chgId' = [chgId EXCEPT ![c] = systemUpdateId + 1]
        BY <1>2, NextIdIsNewer DEF ChangeBump, NoticeId
    <2>2. UNCHANGED issued /\ changes' = changes + 1 /\ changes' <= MaxChanges
        BY <1>1, <1>2, BoundAssumption DEF ChangeBump
    <2>3. c \notin Busy /\ Busy' = Busy \cup {c}
        BY <1>2 DEF ChangeBump, Busy, TypeOK
    <2>4. \A d \in Caller : chgId'[d] = IF d = c THEN systemUpdateId + 1 ELSE chgId[d]
        BY <2>1 DEF TypeOK
    <2>5. \A d \in Busy : d \in Caller /\ d # c /\ chgId[d] <= systemUpdateId
        BY <2>3 DEF IdsInOrder, Busy
    <2>6. systemUpdateId' = 1 + changes'
        BY <1>1, <2>1, <2>2 DEF IdsInOrder
    <2>7. \A d \in Busy' : chgId'[d] <= systemUpdateId'
        BY <1>1, <2>1, <2>3, <2>4, <2>5
    <2>8. \A d, e \in Busy' : chgId'[d] = chgId'[e] => d = e
        BY <1>1, <2>3, <2>4, <2>5 DEF IdsInOrder
    <2>9. \A s \in Sid : \A m \in issued'[s] :
              /\ m.id <= systemUpdateId'
              /\ m.seq # 0 => \A d \in Busy' : m.id # chgId'[d]
        BY <1>1, <2>1, <2>2, <2>3, <2>4, <2>5 DEF IdsInOrder
    <2> QED
        BY <2>2, <2>6, <2>7, <2>8, <2>9 DEF IdsInOrder
<1>3. ASSUME NEW c \in Caller, ChangeTake(c) PROVE IdsInOrder'
    <2>1. c \in Busy /\ Busy' = Busy \ {c}
        BY <1>3 DEF ChangeTake, Busy, TypeOK
    <2>2. /\ UNCHANGED <<systemUpdateId, changes>>
          /\ \A s \in Sid : issued'[s] = issued[s] \cup Sent(c, s)
          /\ \A d \in Busy' : chgId'[d] = chgId[d]
        BY <1>3, <2>1 DEF ChangeTake, Sent, EventId, Busy, TypeOK
    <2>3. \A s \in Sid : \A m \in Sent(c, s) : m.id = chgId[c]
        BY DEF Sent
    <2> QED
        BY <1>1, <2>1, <2>2, <2>3 DEF IdsInOrder
<1>4. ASSUME NEW c \in Caller, ChangeReadClock(c) \/ ChangeSnapshot(c)
      PROVE  IdsInOrder'
    <2>1. Busy' = Busy /\ UNCHANGED <<issued, chgId, systemUpdateId, changes>>
        BY <1>4 DEF ChangeReadClock, ChangeSnapshot, Busy, TypeOK
    <2> QED
        BY <2>1 DEF IdsInOrder
<1>5. ASSUME NEW s \in Sid, Answer(s) PROVE IdsInOrder'
    <2>1. Busy' = Busy /\ UNCHANGED <<chgId, systemUpdateId, changes>>
        BY <1>5 DEF Answer, Busy, chgVars
    <2>2. \A x \in Sid : issued'[x] \subseteq
              issued[x] \cup {[seq |-> 0, id |-> systemUpdateId]}
        BY <1>5 DEF Answer, IssueInitial, TypeOK
    <2> QED
        BY <1>1, <2>1, <2>2 DEF IdsInOrder
<1>6. CASE UNCHANGED <<issued, chgPc, chgId, systemUpdateId, changes>>
    BY <1>6 DEF IdsInOrder, Busy
<1> QED
    BY <1>2, <1>3, <1>4, <1>5, <1>6 DEF Next, SubscribeStep, ChangeStep, vars,
       chgVars, Tick, Admit, Refuse, TrackSnapshot, TrackInsert, Renew,
       UnsubscribeLease, UnsubscribeContent, SendEnds

(* Whatever threads call content_changed, with fewer calls than            *)
(* SystemUpdateID has values: a call's id is newer than what was issued    *)
(* before it, and its events, one for each subscriber, are issued with     *)
(* that id before it ends, so only calls that overlap can be reordered.    *)
THEOREM EventsCarryNewerIdsHolds ==
    ASSUME MaxChanges + 1 < IdModulus
    PROVE  Spec => EventsCarryNewerIds
<1> DEFINE NewId(c) == \A s \in Sid : \A n \in issued[s] : n.id < chgId'[c]
           FromCall(m) == \E c \in Caller : /\ chgPc[c] # "idle" /\ chgPc'[c] = "idle"
                                            /\ m.id = chgId[c]
           First(s, m) == \A n \in issued[s] : n.seq # 0 => n.id # m.id
<1>1. Init => IdsInOrder
    BY BoundAssumption, WidthAssumption DEF Init, IdsInOrder, Busy
<1>2. ASSUME TypeOK, IdsInOrder, [Next]_vars, NEW c \in Caller,
             chgPc[c] = "idle", chgPc'[c] # "idle"
      PROVE  NewId(c)
    <2>1. ChangeBump(c)
        BY <1>2 DEF Next, SubscribeStep, ChangeStep, vars, chgVars, TypeOK, Tick,
           Admit, Refuse, TrackSnapshot, TrackInsert, Answer, Renew,
           UnsubscribeLease, UnsubscribeContent, SendEnds, ChangeBump,
           ChangeReadClock, ChangeSnapshot, ChangeTake
    <2>2. chgId'[c] = systemUpdateId + 1
        BY <1>2, <2>1, NextIdIsNewer DEF ChangeBump, NoticeId, TypeOK
    <2> QED
        BY <1>2, <2>2 DEF IdsInOrder, TypeOK, Notify
<1>3. ASSUME TypeOK, IdsInOrder, [Next]_vars, NEW s \in Sid,
             NEW m \in issued'[s] \ issued[s], m.seq # 0
      PROVE  FromCall(m) /\ First(s, m)
    <2>1. PICK c \in Caller : ChangeTake(c) /\ m \in Sent(c, s)
        BY <1>3, WhatIsIssued
    <2>2. c \in Busy /\ chgPc[c] # "idle" /\ chgPc'[c] = "idle"
        BY <1>3, <2>1 DEF ChangeTake, Busy, TypeOK
    <2>3. m.id = chgId[c]
        BY <2>1 DEF Sent
    <2> QED
        BY <1>3, <2>2, <2>3 DEF IdsInOrder
<1>4. TypeOK /\ IdsInOrder /\ [Next]_vars
        => [/\ \A c \in Caller : chgPc[c] = "idle" /\ chgPc'[c] # "idle" =>
                  \A s \in Sid : \A n \in issued[s] : n.id < chgId'[c]
            /\ \A s \in Sid : \A m \in issued'[s] \ issued[s] : m.seq # 0 =>
                  /\ \E c \in Caller : /\ chgPc[c] # "idle" /\ chgPc'[c] = "idle"
                                       /\ m.id = chgId[c]
                  /\ \A n \in issued[s] : n.seq # 0 => n.id # m.id]_vars
    BY <1>2, <1>3
<1> QED
    BY <1>1, <1>4, IdsStep, TypeCorrect, PTL DEF Spec, EventsCarryNewerIds

-----------------------------------------------------------------------------
(***************************************************************************)
(* The composition of event hub, library and renderers implements the hub  *)
(* on its own, and what LibraryMirror promises a renderer; the latter up   *)
(* to its fairness.                                                        *)
(***************************************************************************)
(* A step of the composition is a step of the hub or leaves it alone.      *)
LEMMA FeedStepIsHubStep == [FeedNext]_allVars => [Next]_vars
<1> SUFFICES ASSUME [FeedNext]_allVars PROVE [Next]_vars
    OBVIOUS
<1>1. CASE HubStep
    BY <1>1 DEF HubStep, Next
<1>2. ASSUME NEW c \in Caller, Announce(c) PROVE Next
    BY <1>2 DEF Announce, Next
<1>3. ASSUME NEW r \in Renderer, NEW m \in wire[r], NotifyArrives(r, m) PROVE Next
    BY <1>3, RendererAssumption DEF NotifyArrives, Next
<1>4. ASSUME NEW s \in Sid, NEW m \in wire[s], NotifyLost(s, m) PROVE Next
    BY <1>4 DEF NotifyLost, Next
<1>5. CASE UNCHANGED vars
    BY <1>5
<1> QED
    BY <1>1, <1>2, <1>3, <1>4, <1>5 DEF FeedNext, allVars, Swap, BrowseBegins, BrowseEnds

(* What is proved of the hub therefore holds of the hub in a server whose  *)
(* library changes and whose renderers browse.                             *)
THEOREM FeedImplementsHub == FeedSpec => Spec
<1>1. FeedInit => Init
    BY DEF FeedInit
<1> QED
    BY <1>1, FeedStepIsHubStep, PTL DEF FeedSpec, Spec

-----------------------------------------------------------------------------
(***************************************************************************)
(* An id on its way tells of a library that is served already: the         *)
(* embedder announces one after it put it in place.  A Browse begins with  *)
(* what is served, and never ends with less than is shown, since it is the *)
(* only one of its renderer.                                               *)
(***************************************************************************)
IdsTellOfTheServed ==
    /\ library \in 0 .. MaxChanges
    /\ changes <= library
    /\ systemUpdateId = 1 + changes
    /\ \A c \in Caller : chgId[c] - 1 <= changes
    /\ \A s \in Sid : \A m \in wire[s] : m.id - 1 <= changes

ShownAndHeard ==
    /\ heard \in [Renderer -> Nat]
    /\ rows \in [Renderer -> Nat]
    /\ browsing \in [Renderer -> Nat \cup {Absent}]
    /\ \A r \in Renderer :
          /\ heard[r] <= library
          /\ rows[r] <= library
          /\ browsing[r] # Absent => rows[r] <= browsing[r] /\ browsing[r] <= library

FeedInv == TypeOK /\ IdsTellOfTheServed /\ ShownAndHeard

LEMMA FeedInvInit ==
    ASSUME MaxChanges + 1 < IdModulus
    PROVE  FeedInit => FeedInv
<1> SUFFICES ASSUME FeedInit PROVE FeedInv
    OBVIOUS
<1>1. TypeOK
    BY TypeInit DEF FeedInit
<1>2. systemUpdateId = 1
    BY DEF FeedInit, Init
<1>3. IdsTellOfTheServed
    BY <1>2 DEF FeedInit, Init, IdsTellOfTheServed
<1>4. ShownAndHeard
    BY DEF FeedInit, ShownAndHeard, Absent
<1> QED
    BY <1>1, <1>3, <1>4 DEF FeedInv

\* What a step of the hub does to the ids.
LEMMA HubKeepsIds ==
    ASSUME FeedInv, HubStep \/ UNCHANGED vars, UNCHANGED feedVars
    PROVE  IdsTellOfTheServed'
<1>1. /\ TypeOK /\ IdsTellOfTheServed /\ library' = library
      /\ changes \in Nat /\ systemUpdateId \in Nat
    BY DEF FeedInv, feedVars, TypeOK
<1>2. ASSUME NEW s \in Sid, Answer(s) PROVE IdsTellOfTheServed'
    <2>1. UNCHANGED <<changes, systemUpdateId, chgId>>
        BY <1>2 DEF Answer, chgVars
    <2>2. \A x \in Sid :
              wire'[x] \subseteq wire[x] \cup {[seq |-> 0, id |-> systemUpdateId]}
        BY <1>1, <1>2 DEF Answer, IssueInitial, TypeOK
    <2>3. systemUpdateId - 1 <= changes
        BY <1>1 DEF IdsTellOfTheServed
    <2> QED
        BY <1>1, <2>1, <2>2, <2>3 DEF IdsTellOfTheServed
<1>3. ASSUME NEW c \in Caller, ChangeTake(c) PROVE IdsTellOfTheServed'
    <2>1. UNCHANGED <<changes, systemUpdateId>> /\ chgId' = [chgId EXCEPT ![c] = 0]
        BY <1>3 DEF ChangeTake
    <2>2. \A x \in Sid :
              wire'[x] \subseteq wire[x] \cup {[seq |-> content[x], id |-> chgId[c]]}
        BY <1>1, <1>3 DEF ChangeTake, EventId, TypeOK
    <2>3. \A d \in Caller : chgId'[d] - 1 <= changes
        BY <1>1, <2>1 DEF IdsTellOfTheServed, TypeOK
    <2> QED
        BY <1>1, <2>1, <2>2, <2>3 DEF IdsTellOfTheServed
<1>4. CASE UNCHANGED <<changes, systemUpdateId, chgId, wire>>
    BY <1>1, <1>4 DEF IdsTellOfTheServed
<1> QED
    BY <1>2, <1>3, <1>4 DEF HubStep, SubscribeStep, ChangeStep, vars, chgVars, Tick,
       Admit, Refuse, TrackSnapshot, TrackInsert, Renew, UnsubscribeLease,
       UnsubscribeContent, ChangeReadClock, ChangeSnapshot

LEMMA FeedInvStep ==
    ASSUME MaxChanges + 1 < IdModulus, FeedInv, [FeedNext]_allVars
    PROVE  FeedInv'
<1>1. TypeOK /\ TypeOK' /\ IdsTellOfTheServed /\ ShownAndHeard
    BY FeedStepIsHubStep, TypeStep DEF FeedInv
<1>2. /\ changes \in Nat /\ systemUpdateId \in Nat /\ library \in Nat
      /\ \A s \in Sid : \A m \in wire[s] : m.id \in Nat
    BY <1>1 DEF TypeOK, IdsTellOfTheServed, Notify
<1> SUFFICES IdsTellOfTheServed' /\ ShownAndHeard'
    BY <1>1 DEF FeedInv
<1>3. CASE (HubStep \/ UNCHANGED vars) /\ UNCHANGED feedVars
    BY <1>1, <1>3, HubKeepsIds DEF feedVars, ShownAndHeard
<1>4. CASE Swap
    <2>1. UNCHANGED <<changes, systemUpdateId, chgId, wire, browsing, rows, heard>>
        BY <1>4 DEF Swap, vars, chgVars
    <2>2. library' = library + 1 /\ library < MaxChanges
        BY <1>4 DEF Swap
    <2>3. IdsTellOfTheServed'
        BY <1>1, <1>2, <2>1, <2>2 DEF IdsTellOfTheServed
    <2>4. ShownAndHeard'
        BY <1>1, <1>2, <2>1, <2>2 DEF ShownAndHeard, Absent
    <2> QED
        BY <2>3, <2>4
<1>5. ASSUME NEW c \in Caller, Announce(c)
      PROVE  IdsTellOfTheServed' /\ ShownAndHeard'
    <2>1. /\ library # changes /\ changes' = changes + 1 /\ systemUpdateId' = NextId
          /\ chgId' = [chgId EXCEPT ![c] = NextId]
          /\ UNCHANGED <<wire, library, browsing, rows, heard>>
        BY <1>5 DEF Announce, Announced, ChangeBump, NoticeId, feedVars
    <2>2. NextId = systemUpdateId + 1
        <3>1. changes < MaxChanges
            BY <1>1, <1>2, <2>1 DEF IdsTellOfTheServed
        <3>2. systemUpdateId + 1 \in 0 .. IdModulus - 1
            BY <1>1, <1>2, <3>1 DEF IdsTellOfTheServed
        <3> QED
            BY <3>2 DEF NextId
    <2>3. ShownAndHeard'
        BY <1>1, <2>1 DEF ShownAndHeard
    <2>4. \A d \in Caller : chgId'[d] - 1 <= changes'
        BY <1>1, <1>2, <2>1, <2>2 DEF IdsTellOfTheServed, TypeOK
    <2>5. \A s \in Sid : \A m \in wire'[s] : m.id - 1 <= changes'
        BY <1>1, <1>2, <2>1 DEF IdsTellOfTheServed
    <2> QED
        BY <1>1, <1>2, <2>1, <2>2, <2>3, <2>4, <2>5 DEF IdsTellOfTheServed
<1>6. ASSUME NEW r \in Renderer, BrowseBegins(r) \/ BrowseEnds(r)
      PROVE  IdsTellOfTheServed' /\ ShownAndHeard'
    <2>1. UNCHANGED <<changes, systemUpdateId, chgId, wire, library, heard>>
        BY <1>6 DEF BrowseBegins, BrowseEnds, vars, chgVars
    <2>2. IdsTellOfTheServed'
        BY <1>1, <2>1 DEF IdsTellOfTheServed
    <2>3. ShownAndHeard'
        BY <1>1, <1>2, <1>6, <2>1 DEF BrowseBegins, BrowseEnds, Config, ShownAndHeard, Absent
    <2> QED
        BY <2>2, <2>3
<1>7. ASSUME NEW s \in Sid, NEW m \in wire[s], SendEnds(s, m),
             UNCHANGED <<library, browsing, rows>>,
             \/ UNCHANGED heard
             \/ s \in Renderer /\ heard' = [heard EXCEPT ![s] =
                                      IF m.id - 1 > @ THEN m.id - 1 ELSE @]
      PROVE  IdsTellOfTheServed' /\ ShownAndHeard'
    <2>1. UNCHANGED <<changes, systemUpdateId, chgId>>
          /\ \A x \in Sid : wire'[x] \subseteq wire[x]
        BY <1>1, <1>7 DEF SendEnds, chgVars, TypeOK
    <2>2. IdsTellOfTheServed'
        BY <1>1, <1>7, <2>1 DEF IdsTellOfTheServed
    <2>3. m.id \in Nat /\ m.id - 1 <= library
        BY <1>1, <1>2 DEF IdsTellOfTheServed
    <2>4. ShownAndHeard'
        BY <1>1, <1>2, <1>7, <2>3 DEF ShownAndHeard
    <2> QED
        BY <2>2, <2>4
<1>8. ASSUME NEW r \in Renderer, NEW m \in wire[r], NotifyArrives(r, m)
      PROVE  IdsTellOfTheServed' /\ ShownAndHeard'
    BY <1>7, <1>8, RendererAssumption DEF NotifyArrives
<1>9. ASSUME NEW s \in Sid, NEW m \in wire[s], NotifyLost(s, m)
      PROVE  IdsTellOfTheServed' /\ ShownAndHeard'
    BY <1>7, <1>9 DEF NotifyLost, feedVars
<1> QED
    BY <1>3, <1>4, <1>5, <1>6, <1>8, <1>9 DEF FeedNext, allVars

-----------------------------------------------------------------------------
(***************************************************************************)
(* Every step maps to a step of the mirror or to a stutter: a swap         *)
(* publishes, a NOTIFY that arrives lets the renderer hear, the end of a   *)
(* Browse shows.                                                           *)
(***************************************************************************)
MirrorSafety == Mirror!Init /\ [][Mirror!Next]_(Mirror!vars)

LEMMA FeedStepIsMirrorStep ==
    ASSUME FeedInv, [FeedNext]_allVars
    PROVE  [Mirror!Next]_(Mirror!vars)
<1>1. /\ library \in Nat /\ ShownAndHeard
      /\ \A s \in Sid : \A m \in wire[s] : m.id \in Nat /\ m.id - 1 <= library
    BY DEF FeedInv, TypeOK, Notify, IdsTellOfTheServed
<1>2. CASE Swap
    BY <1>2 DEF Swap, Mirror!Next, Mirror!Publish
<1>3. ASSUME NEW r \in Renderer, BrowseEnds(r)
      PROVE  [Mirror!Next]_(Mirror!vars)
    <2>1. /\ UNCHANGED <<library, heard>>
          /\ rows' = [rows EXCEPT ![r] = browsing[r]]
          /\ rows \in [Renderer -> Nat]
          /\ browsing[r] \in Nat /\ rows[r] <= browsing[r] /\ browsing[r] <= library
        BY <1>1, <1>3 DEF BrowseEnds, ShownAndHeard
    <2>2. CASE browsing[r] = rows[r]
        BY <2>1, <2>2 DEF Mirror!vars
    <2>3. CASE browsing[r] # rows[r]
        <3>1. browsing[r] \in 1 .. library /\ browsing[r] > rows[r] /\ rows[r] \in Nat
            BY <1>1, <2>1, <2>3
        <3>2. Mirror!Show(r, browsing[r])
            BY <2>1, <3>1 DEF Mirror!Show
        <3> QED
            BY <3>1, <3>2 DEF Mirror!Next
    <2> QED
        BY <2>2, <2>3
<1>4. ASSUME NEW r \in Renderer, NEW m \in wire[r], NotifyArrives(r, m)
      PROVE  [Mirror!Next]_(Mirror!vars)
    <2>1. /\ UNCHANGED <<library, rows>>
          /\ heard' = [heard EXCEPT ![r] = IF m.id - 1 > @ THEN m.id - 1 ELSE @]
          /\ heard \in [Renderer -> Nat]
          /\ m.id \in Nat /\ m.id - 1 <= library
        BY <1>1, <1>4, RendererAssumption DEF NotifyArrives, ShownAndHeard
    <2>2. CASE m.id - 1 > heard[r]
        <3>1. m.id - 1 \in heard[r] + 1 .. library
            BY <1>1, <2>1, <2>2
        <3>2. Mirror!Hear(r)
            BY <2>1, <2>2, <3>1 DEF Mirror!Hear
        <3> QED
            BY <3>2 DEF Mirror!Next
    <2>3. CASE ~(m.id - 1 > heard[r])
        BY <2>1, <2>3 DEF Mirror!vars
    <2> QED
        BY <2>2, <2>3
<1>5. CASE UNCHANGED <<library, heard, rows>>
    BY <1>5 DEF Mirror!vars
<1> QED
    BY <1>2, <1>3, <1>4, <1>5 DEF FeedNext, allVars, feedVars, Announce,
       BrowseBegins, NotifyLost

(* What a renderer shows never goes back to an older library and is never  *)
(* one that was not published, and it hears only of published ones: the    *)
(* composition implements LibraryMirror, up to the fairness of the latter, *)
(* as long as SystemUpdateID does not wrap.                                *)
THEOREM FeedImplementsMirror ==
    ASSUME MaxChanges + 1 < IdModulus
    PROVE  FeedSpec => MirrorSafety
<1>1. FeedInit => Mirror!Init
    BY DEF FeedInit, Mirror!Init
<1> QED
    BY <1>1, FeedInvInit, FeedInvStep, FeedStepIsMirrorStep, PTL
    DEF FeedSpec, MirrorSafety

=============================================================================
