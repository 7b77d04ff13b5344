----------------------------- MODULE SsdpProofs -----------------------------
(***************************************************************************)
(* Theorems about discovery, for any number of sockets, targets, peers,    *)
(* searches, bursts and slots.                                             *)
(***************************************************************************)
EXTENDS Ssdp, FiniteSetTheorems, TLAPS

-----------------------------------------------------------------------------
(* The slots for replies.                                                  *)

Slots ==
    /\ reply \in [Search -> Int]
    /\ IsFiniteSet(InFlight)
    /\ Cardinality(InFlight) <= MaxInFlight

\* The replies a search asks for can be counted.
LEMMA ReplyLenType ==
    ASSUME NEW s \in Search
    PROVE  ReplyLen(s) \in Nat
<1>1. Cardinality(Wanted[s]) \in Nat
  BY ShapeAssumption, FS_CardinalityType
<1> QED
  BY <1>1, SizeAssumption DEF ReplyLen

LEMMA InitSlots == Init => Slots
<1> SUFFICES ASSUME Init PROVE Slots
  OBVIOUS
<1>1. reply \in [Search -> Int] /\ InFlight = {}
  BY DEF Init, Unheard, InFlight
<1> QED
  BY <1>1, FS_EmptySet, SizeAssumption DEF Slots

LEMMA NextSlots == Slots /\ [Next]_vars => Slots'
<1> SUFFICES ASSUME Slots, [Next]_vars PROVE Slots'
  OBVIOUS
<1> USE DEF Slots
<1>1. ASSUME NEW s \in Search, Receive(s) PROVE Slots'
  <2>1. CASE reply' = [reply EXCEPT ![s] = Dropped]
    <3>1. InFlight' = InFlight
      BY <1>1, <2>1 DEF Receive, InFlight, Unheard, Dropped
    <3> QED
      BY <2>1, <3>1 DEF Dropped
  <2>2. CASE /\ Cardinality(InFlight) < MaxInFlight
             /\ reply' = [reply EXCEPT ![s] = 0]
    <3>1. InFlight' = InFlight \cup {s} /\ s \notin InFlight
      BY <1>1, <2>2 DEF Receive, InFlight, Unheard
    <3>2. /\ IsFiniteSet(InFlight')
          /\ Cardinality(InFlight') = Cardinality(InFlight) + 1
      BY <3>1, FS_AddElement
    <3>3. Cardinality(InFlight) \in Nat
      BY FS_CardinalityType
    <3> QED
      BY <2>2, <3>2, <3>3, SizeAssumption
  <2>3. Cardinality(InFlight) \in Nat
    BY FS_CardinalityType
  <2>4. \/ reply' = [reply EXCEPT ![s] = Dropped]
        \/ /\ ~(Cardinality(InFlight) >= MaxInFlight)
           /\ reply' = [reply EXCEPT ![s] = 0]
    <3>1. CASE Wanted[s] = {} \/ Cardinality(InFlight) >= MaxInFlight
      BY <1>1, <3>1 DEF Receive
    <3>2. CASE ~(Wanted[s] = {} \/ Cardinality(InFlight) >= MaxInFlight)
      BY <1>1, <3>2 DEF Receive
    <3> QED
      BY <3>1, <3>2
  <2> QED
    BY <2>1, <2>2, <2>3, <2>4, SizeAssumption
<1>2. ASSUME NEW s \in Search, ReplySend(s) PROVE Slots'
  <2>1. /\ reply[s] >= 0
        /\ reply' = [reply EXCEPT ![s] = reply[s] + 1]
    BY <1>2, ReplyLenType DEF ReplySend
  <2>2. InFlight' = InFlight /\ reply' \in [Search -> Int]
    BY <2>1 DEF InFlight
  <2> QED
    BY <2>2
<1>3. ASSUME NEW s \in Search, ReplyEnds(s) PROVE Slots'
  <2>1. /\ reply' = [reply EXCEPT ![s] = -3]
        /\ reply' \in [Search -> Int]
        /\ InFlight' = InFlight \ {s}
    BY <1>3, ReplyLenType DEF ReplyEnds, InFlight, Finished
  <2>2. /\ IsFiniteSet(InFlight')
        /\ Cardinality(InFlight') <= Cardinality(InFlight)
    <3>1. InFlight' \in SUBSET InFlight
      BY <2>1
    <3> QED
      BY <3>1, FS_Subset
  <2>3. Cardinality(InFlight) \in Nat /\ Cardinality(InFlight') \in Nat
    BY <2>2, FS_CardinalityType
  <2> QED
    BY <2>1, <2>2, <2>3, SizeAssumption
<1>4. CASE UNCHANGED reply
  BY <1>4 DEF InFlight
<1> QED
  BY <1>1, <1>2, <1>3, <1>4 DEF Next, vars, BurstPoll, BurstSend, IntervalTick,
     RequestShutdown, Close, ByebyeSend, Stop

(* handle_datagram never has more reply tasks than MAX_MSEARCH_IN_FLIGHT   *)
(* slots, whatever comes in and however the tasks interleave.              *)
THEOREM RepliesBoundedHolds == Spec => []RepliesBounded
<1>1. Slots => RepliesBounded
  BY DEF Slots, RepliesBounded
<1> QED
  BY <1>1, InitSlots, NextSlots, PTL DEF Spec

-----------------------------------------------------------------------------
(* The bursts.  Those before the last are aborted, and all once the server *)
(* closes; after the first gap of announce_byebye none is inside a poll.   *)

Hushed ==
    /\ bursts \in Nat
    /\ polled \subseteq 1 .. bursts
    /\ \A b \in 1 .. bursts : b < bursts \/ pc # "listening" => b \in aborted
    /\ bye \in Nat
    /\ pc = "listening" => bye = 0
    /\ pc = "stopped" => bye = ByebyeLen
    /\ pc \in {"listening", "closing", "stopped"}
    /\ bye > Len(Targets) => polled = {}

\* The first gap is there, and comes before the last byebye.
LEMMA FirstGap ==
    ASSUME Rounds > 1
    PROVE  AfterGap(Len(Targets) + 1) /\ ByebyeLen > Len(Targets) /\ ByebyeLen \in Nat
<1> DEFINE L == Len(Targets)
           F == Len(Families)
<1>1. L \in Nat \ {0} /\ F \in Nat \ {0} /\ Rounds \in Nat
  BY ShapeAssumption, SizeAssumption
<1> HIDE DEF L, F
<1>2. L * Rounds \in Nat /\ L * Rounds > L
  BY <1>1
<1>3. L % L = 0 /\ L % (L * Rounds) = L
  BY <1>1, <1>2
<1>4. F * (L * Rounds) >= L * Rounds
  BY <1>1, <1>2
<1>5. F * L * Rounds = F * (L * Rounds)
  BY <1>1
<1> QED
  BY <1>1, <1>2, <1>3, <1>4, <1>5 DEF AfterGap, ByebyeLen, L, F

LEMMA InitHushed == Init => Hushed
  BY ShapeAssumption DEF Init, Hushed

LEMMA NextHushed ==
    ASSUME Rounds > 1
    PROVE  Hushed /\ [Next]_vars => Hushed'
<1> SUFFICES ASSUME Hushed, [Next]_vars PROVE Hushed'
  OBVIOUS
<1> USE DEF Hushed
<1>1. ASSUME NEW b \in BurstId, BurstPoll(b) PROVE Hushed'
  <2>1. pc = "listening" /\ b \in 1 .. bursts
    BY <1>1 DEF BurstPoll, BurstId
  <2> QED
    BY <1>1, <2>1, ShapeAssumption DEF BurstPoll
<1>2. ASSUME NEW b \in BurstId, BurstSend(b) PROVE Hushed'
  BY <1>2 DEF BurstSend
<1>3. CASE IntervalTick
  BY <1>3, ShapeAssumption DEF IntervalTick, Abort
<1>4. CASE Close
  BY <1>4, ShapeAssumption DEF Close, Abort
<1>5. CASE ByebyeSend
  <2>1. CASE bye = Len(Targets)
    BY <1>5, <2>1, FirstGap DEF ByebyeSend
  <2>2. CASE bye # Len(Targets)
    BY <1>5, <2>2, ShapeAssumption DEF ByebyeSend
  <2> QED
    BY <2>1, <2>2
<1>6. CASE Stop
  BY <1>6 DEF Stop
<1>7. ASSUME NEW s \in Search, Receive(s) \/ ReplySend(s) \/ ReplyEnds(s)
      PROVE  Hushed'
  BY <1>7 DEF Receive, ReplySend, ReplyEnds
<1>8. CASE RequestShutdown \/ UNCHANGED vars
  BY <1>8 DEF RequestShutdown, vars
<1> QED
  BY <1>1, <1>2, <1>3, <1>4, <1>5, <1>6, <1>7, <1>8 DEF Next

(* `run` never returns with a burst of alives that will still send: the    *)
(* aborts, and the gaps of announce_byebye, outlast the poll that an abort *)
(* does not interrupt.  One round of byebyes would not.                    *)
THEOREM NoAliveOnceStoppedHolds ==
    ASSUME Rounds > 1
    PROVE  Spec => NoAliveOnceStopped
<1>1. Hushed /\ [Next]_vars => [pc = "stopped" => step' = step]_vars
  <2> SUFFICES ASSUME Hushed, [Next]_vars, pc = "stopped" PROVE step' = step
    OBVIOUS
  <2>1. polled = {}
    BY FirstGap DEF Hushed
  <2> QED
    BY <2>1 DEF Next, vars, BurstPoll, BurstSend, IntervalTick, Receive,
       ReplySend, ReplyEnds, RequestShutdown, Close, ByebyeSend, Stop
<1> QED
  BY <1>1, InitHushed, NextHushed, PTL DEF Spec, NoAliveOnceStopped

-----------------------------------------------------------------------------
(* Byebyes.  A lost datagram is all that keeps a peer from hearing one.    *)

Word == {"nothing", "alive", "byebye"}
Books == [Peer -> [Target -> Word]]

LEMMA HearersFinite == \A f : IsFiniteSet({p \in Peer : FamilyOf[p] = f})
<1> TAKE f
<1>1. {p \in Peer : FamilyOf[p] = f} \in SUBSET Peer
  OBVIOUS
<1> QED
  BY <1>1, ShapeAssumption, FS_Subset

LEMMA SendOutcome ==
    ASSUME NEW kind \in Word, NEW t, NEW to, IsFiniteSet(to),
           lost \in Nat, heard \in Books, Send(kind, t, to)
    PROVE  /\ lost' \in Nat /\ lost' >= lost /\ lost' <= MaxLost
           /\ heard' \in Books
           /\ \A p \in Peer :
                 \/ heard'[p] = heard[p] /\ (p \in to => lost' >= lost + 1)
                 \/ p \in to /\ heard'[p] = [heard[p] EXCEPT ![t] = kind]
<1>1. PICK missed \in SUBSET to :
          /\ lost + Cardinality(missed) <= MaxLost
          /\ lost' = lost + Cardinality(missed)
          /\ heard' = [p \in Peer |->
                          IF p \in to \ missed
                          THEN [heard[p] EXCEPT ![t] = kind] ELSE heard[p]]
  BY DEF Send
<1>2. IsFiniteSet(missed) /\ Cardinality(missed) \in Nat
  BY FS_Subset, FS_CardinalityType
<1>3. missed # {} => Cardinality(missed) >= 1
  BY <1>2, FS_EmptySet
<1>4. lost' \in Nat /\ lost' >= lost /\ lost' <= MaxLost
  BY <1>1, <1>2
<1>5. ASSUME NEW p \in Peer
      PROVE  \/ heard'[p] = heard[p] /\ (p \in to => lost' >= lost + 1)
             \/ p \in to /\ heard'[p] = [heard[p] EXCEPT ![t] = kind]
  <2>1. CASE p \in to \ missed
    BY <1>1, <2>1
  <2>2. CASE p \notin to \ missed
    <3>1. heard'[p] = heard[p]
      BY <1>1, <2>2
    <3>2. p \in to => lost' >= lost + 1
      BY <1>1, <1>2, <1>3, <2>2
    <3> QED
      BY <3>1, <3>2
  <2> QED
    BY <2>1, <2>2
<1>6. heard' \in Books
  <2>1. \A p \in Peer : [heard[p] EXCEPT ![t] = kind] \in [Target -> Word]
    BY DEF Books
  <2> QED
    BY <1>1, <2>1 DEF Books
<1> QED
  BY <1>4, <1>5, <1>6

\* The byebye of the j-th target on socket f in round r, rounds from 0.
Place(f, r, j) == (f - 1) * (Len(Targets) * Rounds) + r * Len(Targets) + j

LEMMA DivModMul ==
    ASSUME NEW a \in Nat, NEW m \in Nat \ {0}, NEW b \in 0 .. m - 1
    PROVE  (a * m + b) \div m = a /\ (a * m + b) % m = b
<1> DEFINE n == a * m + b
           q == n \div m
           r == n % m
<1>1. n \in Nat /\ q \in Nat /\ r \in 0 .. m - 1 /\ n = m * q + r
  BY SMT
<1>2. n = m * a + b
  OBVIOUS
<1> HIDE DEF n, q, r
<1>3. m * (q - a) = b - r
  BY <1>1, <1>2
<1>4. CASE q > a
  <2>1. m * (q - a) >= m
    BY <1>1, <1>4
  <2> QED
    BY <1>1, <1>3, <2>1
<1>5. CASE q < a
  <2>1. m * (a - q) >= m
    BY <1>1, <1>5
  <2>2. m * (q - a) = -(m * (a - q))
    BY <1>1
  <2> QED
    BY <1>1, <1>3, <2>1, <2>2
<1>6. CASE q = a
  BY <1>1, <1>2, <1>6 DEF n, q, r
<1> QED
  BY <1>1, <1>4, <1>5, <1>6

\* Where announce_byebye stands there, and what it sends.
LEMMA PlaceIs ==
    ASSUME NEW f \in 1 .. Len(Families), NEW r \in 0 .. Rounds - 1,
           NEW j \in 1 .. Len(Targets)
    PROVE  /\ Place(f, r, j) \in Nat \ {0}
           /\ Place(f, r, j) <= ByebyeLen
           /\ r > 0 => Place(f, r, j) > Len(Targets)
           /\ r > 0 => Place(f, r - 1, j) = Place(f, r, j) - Len(Targets)
           /\ Byebye(Place(f, r, j)) = [family |-> Families[f], target |-> Targets[j]]
<1> DEFINE L == Len(Targets)
           F == Len(Families)
           LR == L * Rounds
<1>1. L \in Nat \ {0} /\ F \in Nat \ {0} /\ Rounds \in Nat \ {0} /\ LR \in Nat \ {0}
  BY ShapeAssumption, SizeAssumption
<1>2. f \in 1 .. F /\ j \in 1 .. L
  OBVIOUS
<1>3. LR = L * Rounds /\ ByebyeLen = F * L * Rounds /\ F * L * Rounds = F * LR
  BY <1>1 DEF ByebyeLen
<1>4. Place(f, r, j) = (f - 1) * LR + (r * L + j)
  BY <1>1 DEF Place
<1> HIDE DEF L, F, LR
<1>5. r * L \in Nat /\ (r > 0 => r * L >= L)
  BY <1>1
<1>6. r * L <= LR - L
  <2>1. (Rounds - 1 - r) * L >= 0
    BY <1>1
  <2>2. (Rounds - 1 - r) * L = LR - L - r * L
    BY <1>1, <1>3
  <2> QED
    BY <1>1, <1>5, <2>1, <2>2
<1>7. (f - 1) * LR \in Nat
  BY <1>1, <1>2
<1>8. Place(f, r, j) \in Nat \ {0} /\ (r > 0 => Place(f, r, j) > L)
  BY <1>1, <1>2, <1>4, <1>5, <1>7
<1>9. Place(f, r, j) <= ByebyeLen
  <2>1. (F - f) * LR >= 0
    BY <1>1, <1>2
  <2>2. F * LR = (f - 1) * LR + LR + (F - f) * LR
    BY <1>1, <1>2
  <2> QED
    BY <1>1, <1>2, <1>3, <1>4, <1>5, <1>6, <1>7, <2>1, <2>2
<1>10. Place(f, r - 1, j) = Place(f, r, j) - L
  <2>1. (r - 1) * L = r * L - L
    BY <1>1
  <2> QED
    BY <1>1, <1>2, <1>3, <1>5, <1>7, <2>1 DEF Place, L
<1>11. Byebye(Place(f, r, j)) = [family |-> Families[f], target |-> Targets[j]]
  <2> DEFINE n == Place(f, r, j) - 1
             i == r * L + (j - 1)
             g == (f - 1) * Rounds + r
  <2>1. Byebye(Place(f, r, j)) =
            [family |-> Families[(n \div LR) + 1], target |-> Targets[(n % L) + 1]]
    BY DEF Byebye, L, LR
  <2>2. n = (f - 1) * LR + i
    BY <1>1, <1>2, <1>4, <1>5, <1>7
  <2>3. i \in 0 .. LR - 1 /\ f - 1 \in Nat
    BY <1>1, <1>2, <1>5, <1>6
  <2>4. n = g * L + (j - 1)
    BY <1>1, <1>2, <1>3, <2>2
  <2>5. g \in Nat /\ j - 1 \in 0 .. L - 1
    BY <1>1, <1>2
  <2> HIDE DEF n, i, g
  <2>6. n \div LR = f - 1
    BY <1>1, <2>2, <2>3, DivModMul
  <2>7. n % L = j - 1
    BY <1>1, <2>4, <2>5, DivModMul
  <2>8. (f - 1) + 1 = f /\ (j - 1) + 1 = j
    BY <1>1, <1>2
  <2> QED
    BY <2>1, <2>6, <2>7, <2>8
<1> QED
  BY <1>8, <1>9, <1>10, <1>11 DEF L

-----------------------------------------------------------------------------
(* The last word.                                                          *)

\* The server sent this peer no reply.
Quiet(p) == \A s \in Search : SourceOf[s] = p => reply[s] \in {Unheard, Dropped}

(* A peer that still believes a target is there lost every byebye of it    *)
(* sent since the first gap.                                               *)
Told ==
    /\ lost \in Nat /\ lost <= MaxLost
    /\ heard \in Books
    /\ \A p \in Peer, f \in 1 .. Len(Families), j \in 1 .. Len(Targets) :
         \A r \in 1 .. Rounds - 1 :
           /\ Quiet(p)
           /\ FamilyOf[p] = Families[f]
           /\ heard[p][Targets[j]] = "alive"
           /\ bye >= Place(f, r, j)
           => lost >= r

LEMMA InitTold == Init => Told
<1> SUFFICES ASSUME Init PROVE Told
  OBVIOUS
<1>1. lost \in Nat /\ lost <= MaxLost
  BY SizeAssumption DEF Init
<1>2. heard \in Books
  BY DEF Init, Books, Word
<1>3. ASSUME NEW p \in Peer, NEW j \in 1 .. Len(Targets)
      PROVE  heard[p][Targets[j]] # "alive"
  <2>1. Targets[j] \in Target
    BY DEF Target
  <2> QED
    BY <2>1 DEF Init
<1> QED
  BY <1>1, <1>3, <1>2 DEF Told

\* A reply sent is not taken back.
LEMMA QuietBefore ==
    ASSUME Slots, [Next]_vars, NEW p, Quiet(p)'
    PROVE  Quiet(p)
<1>1. ASSUME NEW s \in Search, SourceOf[s] = p
      PROVE  reply[s] \in {Unheard, Dropped}
  <2>1. reply'[s] \in {-1, -2} /\ reply \in [Search -> Int]
    BY <1>1 DEF Quiet, Slots, Unheard, Dropped
  <2>2. ASSUME NEW c \in Search, Receive(c) PROVE reply[s] \in {-1, -2}
    <3>1. CASE c = s
      BY <2>2, <3>1 DEF Receive, Unheard
    <3>2. CASE c # s
      BY <2>1, <2>2, <3>2 DEF Receive
    <3> QED
      BY <3>1, <3>2
  <2>3. ASSUME NEW c \in Search, ReplySend(c) \/ ReplyEnds(c) PROVE reply[s] \in {-1, -2}
    <3>1. CASE c = s
      BY <2>1, <2>3, <3>1, ReplyLenType DEF ReplySend, ReplyEnds, Finished
    <3>2. CASE c # s
      BY <2>1, <2>3, <3>2 DEF ReplySend, ReplyEnds
    <3> QED
      BY <3>1, <3>2
  <2>4. CASE UNCHANGED reply
    BY <2>1, <2>4 DEF Unheard, Dropped
  <2>5. \/ \E c \in Search : Receive(c) \/ ReplySend(c) \/ ReplyEnds(c)
        \/ UNCHANGED reply
    BY DEF Next, vars, BurstPoll, BurstSend, IntervalTick, RequestShutdown,
       Close, ByebyeSend, Stop
  <2> QED
    BY <2>2, <2>3, <2>4, <2>5 DEF Unheard, Dropped
<1> QED
  BY <1>1 DEF Quiet

LEMMA NextTold ==
    ASSUME Slots, Hushed, Told, [Next]_vars
    PROVE  Told'
<1> DEFINE Gone(p, f, j, r) ==
               /\ Quiet(p)
               /\ FamilyOf[p] = Families[f]
               /\ heard[p][Targets[j]] = "alive"
               /\ bye >= Place(f, r, j)
               => lost >= r
<1>1. \A p \in Peer, f \in 1 .. Len(Families), j \in 1 .. Len(Targets) :
          \A r \in 1 .. Rounds - 1 : Gone(p, f, j, r)
  BY DEF Told
<1>2. lost \in Nat /\ lost <= MaxLost /\ heard \in Books /\ bye \in Nat
  BY DEF Told, Hushed
<1>3. ASSUME NEW b \in BurstId, BurstSend(b) PROVE Told'
  <2> DEFINE m == Alive(step[b] + 1)
  <2>1. PICK kind, t, to : kind \in Word /\ Send(kind, t, to) /\ IsFiniteSet(to)
    <3> USE DEF Word
    <3> WITNESS "alive", m.target, {p \in Peer : FamilyOf[p] = m.family}
    <3> QED
      BY <1>3, HearersFinite DEF BurstSend, Multicast
  <2>2. lost' \in Nat /\ lost' <= MaxLost /\ heard' \in Books
    BY <1>2, <2>1, SendOutcome
  <2>3. bye' = bye /\ bye <= Len(Targets)
    BY <1>2, <1>3, ShapeAssumption DEF BurstSend, Hushed
  <2>4. ASSUME NEW f \in 1 .. Len(Families), NEW j \in 1 .. Len(Targets),
               NEW r \in 1 .. Rounds - 1
        PROVE  ~(bye' >= Place(f, r, j))
    <3>1. r \in 0 .. Rounds - 1 /\ r > 0
      BY SizeAssumption
    <3>2. Place(f, r, j) \in Nat /\ Place(f, r, j) > Len(Targets)
      BY <3>1, PlaceIs
    <3> QED
      BY <1>2, <2>3, <3>2, ShapeAssumption
  <2> QED
    BY <2>2, <2>4 DEF Told, Place
<1>4. ASSUME NEW s \in Search, ReplySend(s) PROVE Told'
  <2>1. bye' = bye
    BY <1>4 DEF ReplySend
  <2>2. reply'[s] \notin {-1, -2}
    BY <1>4, ReplyLenType DEF ReplySend, Slots
  <2>3. /\ lost' \in Nat /\ lost' >= lost /\ lost' <= MaxLost /\ heard' \in Books
        /\ \A p \in Peer : p # SourceOf[s] => heard'[p] = heard[p]
    <3>1. PICK kind, t, to : kind \in Word /\ to = {SourceOf[s]} /\ Send(kind, t, to)
      <4> USE DEF Word
      <4> WITNESS "alive", ReplyTarget(s, reply[s] + 1), {SourceOf[s]}
      <4> QED
        BY <1>4 DEF ReplySend
    <3>2. IsFiniteSet(to)
      BY <3>1, FS_Singleton
    <3>3. /\ lost' \in Nat /\ lost' >= lost /\ lost' <= MaxLost /\ heard' \in Books
          /\ \A p \in Peer : heard'[p] = heard[p] \/ p \in to
      BY <1>2, <3>1, <3>2, SendOutcome
    <3> QED
      BY <3>1, <3>3
  <2>4. ASSUME NEW p \in Peer, Quiet(p)' PROVE Quiet(p) /\ heard'[p] = heard[p]
    BY <2>2, <2>3, <2>4, QuietBefore DEF Quiet, Unheard, Dropped
  <2>5. ASSUME NEW p \in Peer, NEW f \in 1 .. Len(Families),
               NEW j \in 1 .. Len(Targets), NEW r \in 1 .. Rounds - 1,
               Quiet(p)', FamilyOf[p] = Families[f],
               heard'[p][Targets[j]] = "alive", bye' >= Place(f, r, j)
        PROVE  lost' >= r
    <3>1. lost >= r /\ r \in Nat
      BY <1>1, <2>1, <2>4, <2>5, SizeAssumption
    <3> QED
      BY <1>2, <2>3, <3>1
  <2> QED
    BY <2>3, <2>5 DEF Told, Place
<1>5. CASE ByebyeSend
  <2>1. bye' = bye + 1
    BY <1>5 DEF ByebyeSend
  <2>2. PICK kind, t, to :
            /\ kind \in Word
            /\ kind = "byebye"
            /\ t = Byebye(bye + 1).target
            /\ to = {p \in Peer : FamilyOf[p] = Byebye(bye + 1).family}
            /\ Send(kind, t, to)
    <3> USE DEF Word
    <3> WITNESS "byebye", Byebye(bye + 1).target,
                {p \in Peer : FamilyOf[p] = Byebye(bye + 1).family}
    <3> QED
      BY <1>5 DEF ByebyeSend, Multicast
  <2>4. /\ lost' \in Nat /\ lost' >= lost /\ lost' <= MaxLost /\ heard' \in Books
        /\ \A p \in Peer :
              \/ heard'[p] = heard[p] /\ (p \in to => lost' >= lost + 1)
              \/ p \in to /\ heard'[p] = [heard[p] EXCEPT ![t] = "byebye"]
    BY <1>2, <2>2, HearersFinite, SendOutcome
  <2>3. ASSUME NEW p \in Peer, NEW f \in 1 .. Len(Families),
               NEW j \in 1 .. Len(Targets), NEW r \in 1 .. Rounds - 1,
               Quiet(p)', FamilyOf[p] = Families[f],
               heard'[p][Targets[j]] = "alive", bye' >= Place(f, r, j)
        PROVE  lost' >= r
    <3>1. Quiet(p)
      BY <2>3, QuietBefore
    <3>2. Targets[j] \in Target
      BY DEF Target
    <3>3. heard[p][Targets[j]] = "alive"
      BY <1>2, <2>4, <2>3, <3>2 DEF Books
    <3>4. r \in 0 .. Rounds - 1 /\ r > 0 /\ r \in Nat
      BY SizeAssumption
    <3>5. Place(f, r, j) \in Nat
      BY <3>4, PlaceIs
    <3>6. CASE bye >= Place(f, r, j)
      <4>1. lost >= r
        BY <1>1, <2>3, <3>1, <3>3, <3>6
      <4> QED
        BY <1>2, <2>4, <3>4, <4>1
    <3>7. CASE bye + 1 = Place(f, r, j)
      <4>1. Byebye(bye + 1) = [family |-> Families[f], target |-> Targets[j]]
        BY <3>4, <3>7, PlaceIs
      <4>2. p \in to /\ t = Targets[j]
        BY <2>2, <2>3, <4>1
      <4>3. lost' >= lost + 1
        <5>1. heard'[p] # [heard[p] EXCEPT ![Targets[j]] = "byebye"]
          BY <1>2, <2>3, <3>2 DEF Books
        <5> QED
          BY <2>4, <4>2, <5>1
      <4>4. CASE r = 1
        BY <1>2, <2>4, <4>3, <4>4
      <4>5. CASE r > 1
        <5>1. r - 1 \in 1 .. Rounds - 1 /\ bye >= Place(f, r - 1, j)
          <6>1. Place(f, r - 1, j) = Place(f, r, j) - Len(Targets)
            BY <3>4, PlaceIs
          <6> QED
            BY <1>2, <3>4, <3>5, <3>7, <4>5, <6>1, ShapeAssumption, SizeAssumption
        <5>2. lost >= r - 1
          BY <1>1, <2>3, <3>1, <3>3, <5>1
        <5> QED
          BY <1>2, <2>4, <3>4, <4>3, <5>2
      <4> QED
        BY <3>4, <4>4, <4>5
    <3> QED
      BY <1>2, <2>1, <2>3, <3>5, <3>6, <3>7
  <2> QED
    BY <2>3, <2>4 DEF Told, Place
<1>6. CASE UNCHANGED <<heard, lost, bye>>
  <2>1. ASSUME NEW p \in Peer, Quiet(p)' PROVE Quiet(p)
    BY <2>1, QuietBefore
  <2> QED
    BY <1>1, <1>2, <1>6, <2>1 DEF Told, Place
<1> QED
  BY <1>3, <1>4, <1>5, <1>6 DEF Next, vars, BurstPoll, IntervalTick, Receive,
     ReplyEnds, RequestShutdown, Close, Stop

(* A peer that was sent no reply has the byebye as its last word on every  *)
(* target, whatever bursts were under way and wherever the shutdown fell,  *)
(* as long as fewer datagrams are lost than there are rounds after the     *)
(* first: announce_byebye sends three, so one may be.                      *)
THEOREM ByebyeIsLastWordHolds ==
    ASSUME MaxLost < Rounds - 1
    PROVE  Spec => []ByebyeIsLastWord
<1>1. Rounds > 1 /\ Rounds - 1 \in 1 .. Rounds - 1 /\ Rounds - 1 \in 0 .. Rounds - 1
  BY SizeAssumption
<1>2. Hushed /\ Told => ByebyeIsLastWord
  <2> SUFFICES ASSUME Hushed, Told, pc = "stopped", NEW p \in Peer, Quiet(p),
                      NEW t \in Target, heard[p][t] = "alive"
               PROVE  FALSE
    BY DEF ByebyeIsLastWord, Quiet
  <2>1. PICK f \in 1 .. Len(Families), j \in 1 .. Len(Targets) :
            FamilyOf[p] = Families[f] /\ t = Targets[j]
    BY ShapeAssumption DEF Target
  <2>2. bye >= Place(f, Rounds - 1, j)
    <3>1. Place(f, Rounds - 1, j) \in Nat /\ Place(f, Rounds - 1, j) <= ByebyeLen
      BY <1>1, PlaceIs
    <3> QED
      BY <3>1 DEF Hushed
  <2>3. lost >= Rounds - 1
    BY <1>1, <2>1, <2>2 DEF Told
  <2> QED
    BY <2>3, SizeAssumption DEF Told
<1>3. Init => Slots /\ Hushed /\ Told
  BY InitSlots, InitHushed, InitTold
<1>4. Slots /\ Hushed /\ Told /\ [Next]_vars => (Slots /\ Hushed /\ Told)'
  BY <1>1, NextSlots, NextHushed, NextTold
<1> QED
  BY <1>2, <1>3, <1>4, PTL DEF Spec

=============================================================================
