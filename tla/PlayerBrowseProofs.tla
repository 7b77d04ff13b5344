------------------------- MODULE PlayerBrowseProofs -------------------------
(***************************************************************************)
(* Theorems about the player browser, for all instances, interfaces and    *)
(* peers, on both platforms.                                               *)
(***************************************************************************)
EXTENDS PlayerBrowse, ClientRecordsProofs

(* The lookup states are told apart.                                       *)
LEMMA LookupStates ==
    /\ Resolving # NoLookup
    /\ Addressing(TRUE) # NoLookup /\ Addressing(FALSE) # NoLookup
  BY DEF Resolving, NoLookup, Addressing

(* The callbacks of mDNSResponder's queue and the events of mdns_sd.       *)
Callback ==
    \/ \E i \in Instance :
          \/ \E if \in Interface : BrowseAdd(i, if) \/ BrowseRemove(i, if)
          \/ BrowseGone(i)
          \/ LookupFails(i)
          \/ ServiceRemoved(i)
          \/ \E spritz \in BOOLEAN : Resolved(i, spritz)
          \/ \E ip \in Ip :
                \/ Addressed(i, ip)
                \/ \E spritz \in BOOLEAN : ServiceResolved(i, ip, spritz)

(* What a callback may do to the table and the calls it then owes.         *)
Effect ==
    \/ UNCHANGED <<announced, product, calls>>
    \/ \E i \in Instance : Forget(i) /\ UNCHANGED product
    \/ \E i \in Instance, ip \in Ip, spritz \in BOOLEAN : AnnounceAt(i, ip, spritz)

LEMMA CallbackEffect ==
    ASSUME Callback
    PROVE  Effect /\ calls = <<>> /\ UNCHANGED <<platform, client>>
<1>1. ASSUME NEW i \in Instance, NEW if \in Interface,
             BrowseAdd(i, if) \/ BrowseRemove(i, if)
      PROVE  Effect /\ calls = <<>> /\ UNCHANGED <<platform, client>>
  BY <1>1 DEF BrowseAdd, BrowseRemove, MacCallback, Effect
<1>2. ASSUME NEW i \in Instance, BrowseGone(i) \/ ServiceRemoved(i)
      PROVE  Effect /\ calls = <<>> /\ UNCHANGED <<platform, client>>
  BY <1>2 DEF BrowseGone, ServiceRemoved, MacCallback, MdnsEvent, Effect
<1>3. ASSUME NEW i \in Instance, NEW spritz \in BOOLEAN,
             Resolved(i, spritz)
      PROVE  Effect /\ calls = <<>> /\ UNCHANGED <<platform, client>>
  BY <1>3 DEF Resolved, MacCallback, Effect
<1>4. ASSUME NEW i \in Instance, NEW ip \in Ip, Addressed(i, ip)
      PROVE  Effect /\ calls = <<>> /\ UNCHANGED <<platform, client>>
  BY <1>4 DEF Addressed, MacCallback, Effect
<1>5. ASSUME NEW i \in Instance, NEW ip \in Ip, NEW spritz \in BOOLEAN,
             ServiceResolved(i, ip, spritz)
      PROVE  Effect /\ calls = <<>> /\ UNCHANGED <<platform, client>>
  BY <1>5 DEF ServiceResolved, MdnsEvent, Effect
<1>6. ASSUME NEW i \in Instance, LookupFails(i)
      PROVE  Effect /\ calls = <<>> /\ UNCHANGED <<platform, client>>
  BY <1>6 DEF LookupFails, MacCallback, Effect
<1> QED
  BY <1>1, <1>2, <1>3, <1>4, <1>5, <1>6 DEF Callback

-----------------------------------------------------------------------------
(* The calls a callback owes the tracker.                                  *)

\* At most one address is withdrawn.
Single(ips) == \A x, y \in ips : x = y

LEMMA SinglesAre ==
    ASSUME NEW i, NEW ip
    PROVE  Single(MovedFrom(i, ip)) /\ Single(GoneFrom(i))
  BY DEF Single, MovedFrom, GoneFrom

LEMMA WithdrawCallsShape ==
    ASSUME NEW ips \in SUBSET Ip, Single(ips)
    PROVE  \/ ips = {} /\ WithdrawCalls(ips) = <<>>
           \/ \E ip \in ips : WithdrawCalls(ips) = << <<"withdraw", ip>> >>
<1>1. CASE ips = {}
  BY <1>1 DEF WithdrawCalls
<1>2. CASE ips # {}
  <2>1. (CHOOSE ip \in ips : TRUE) \in ips
    BY <1>2
  <2> QED
    BY <1>2, <2>1 DEF WithdrawCalls
<1> QED
  BY <1>1, <1>2

\* Some call yet to be made withdraws ip.
Withdrawing(ip) == \E k \in 1 .. Len(calls) : calls[k] = <<"withdraw", ip>>

\* Calls that announce are made of an address that stands.
AnnouncingHeld ==
    \A k \in 1 .. Len(calls) : calls[k][1] = "announce" => Holds(calls[k][2])

(* After Forget and AnnounceAt the calls are at most a withdrawal, of the  *)
(* address no other instance holds, and an announcement, of the new one.   *)
LEMMA ForgetCalls ==
    ASSUME NEW i, Forget(i)
    PROVE  /\ calls' \in Seq(Call) /\ Len(calls') <= 2
           /\ \A ip \in GoneFrom(i) : Withdrawing(ip)'
           /\ AnnouncingHeld'
<1>1. GoneFrom(i) \in SUBSET Ip /\ Single(GoneFrom(i))
  BY SinglesAre DEF GoneFrom
<1>2. CASE GoneFrom(i) = {}
  BY <1>2 DEF Forget, WithdrawCalls, AnnouncingHeld
<1>3. ASSUME NEW ip \in GoneFrom(i), calls' = << <<"withdraw", ip>> >>
      PROVE  /\ calls' \in Seq(Call) /\ Len(calls') <= 2
             /\ \A x \in GoneFrom(i) : Withdrawing(x)'
             /\ AnnouncingHeld'
  <2>1. <<"withdraw", ip>> \in Call
    BY <1>1, <1>3 DEF Call
  <2>2. Len(calls') = 1 /\ calls'[1] = <<"withdraw", ip>>
    BY <1>3
  <2>3. \A x \in GoneFrom(i) : x = ip
    BY <1>1, <1>3 DEF Single
  <2> QED
    BY <1>3, <2>1, <2>2, <2>3 DEF Withdrawing, AnnouncingHeld
<1> QED
  BY <1>1, <1>2, <1>3, WithdrawCallsShape DEF Forget

LEMMA AnnounceCalls ==
    ASSUME TypeOK, NEW i \in Instance, NEW ip \in Ip, NEW spritz \in BOOLEAN,
           AnnounceAt(i, ip, spritz)
    PROVE  /\ calls' \in Seq(Call) /\ Len(calls') <= 2
           /\ \A x \in MovedFrom(i, ip) : Withdrawing(x)'
           /\ AnnouncingHeld'
<1> DEFINE moved == MovedFrom(i, ip)
           told == IF spritz THEN << <<"announce", ip>> >> ELSE <<>>
<1>1. moved \in SUBSET Ip /\ Single(moved)
  BY SinglesAre DEF MovedFrom
<1>2. calls' = WithdrawCalls(moved) \o told
  BY DEF AnnounceAt
<1>3. Holds(ip)'
  BY DEF AnnounceAt, Holds, TypeOK
<1>4. <<"announce", ip>> \in Call /\ \A x \in moved : <<"withdraw", x>> \in Call
  BY <1>1 DEF Call
<1> HIDE DEF moved
<1>5. CASE WithdrawCalls(moved) = <<>> /\ moved = {}
  <2>1. calls' = told
    BY <1>2, <1>5
  <2>2. CASE spritz
    <3>1. calls' = << <<"announce", ip>> >>
      BY <2>1, <2>2
    <3> QED
      BY <1>3, <1>4, <1>5, <3>1 DEF AnnouncingHeld, moved
  <2>3. CASE ~spritz
    BY <1>5, <2>1, <2>3 DEF AnnouncingHeld, moved
  <2> QED
    BY <2>2, <2>3
<1>6. ASSUME NEW x \in moved, WithdrawCalls(moved) = << <<"withdraw", x>> >>
      PROVE  /\ calls' \in Seq(Call) /\ Len(calls') <= 2
             /\ \A y \in moved : Withdrawing(y)'
             /\ AnnouncingHeld'
  <2>1. \A y \in moved : y = x
    BY <1>1, <1>6 DEF Single
  <2>2. CASE spritz
    <3>1. calls' = << <<"withdraw", x>> >> \o << <<"announce", ip>> >>
      BY <1>2, <1>6, <2>2
    <3>2. /\ calls' \in Seq(Call) /\ Len(calls') = 2
          /\ calls'[1] = <<"withdraw", x>> /\ calls'[2] = <<"announce", ip>>
      BY <1>4, <1>6, <3>1
    <3> QED
      BY <1>3, <2>1, <3>2 DEF AnnouncingHeld, Withdrawing
  <2>3. CASE ~spritz
    <3>1. calls' = << <<"withdraw", x>> >>
      BY <1>2, <1>6, <2>3
    <3>2. calls' \in Seq(Call) /\ Len(calls') = 1 /\ calls'[1] = <<"withdraw", x>>
      BY <1>4, <1>6, <3>1
    <3> QED
      BY <2>1, <3>2 DEF AnnouncingHeld, Withdrawing
  <2> QED
    BY <2>2, <2>3
<1> QED
  BY <1>1, <1>5, <1>6, WithdrawCallsShape DEF moved

-----------------------------------------------------------------------------
(* The tracker.                                                            *)

(* What an insertion leaves in the map, whatever evict takes.              *)
LEMMA InsertClient ==
    ASSUME NEW ip \in Ip, NEW new, client' \in Evict(Put(client, ip, new))
    PROVE  /\ DOMAIN client' \subseteq DOMAIN client \cup {ip}
           /\ \A i \in DOMAIN client' :
                 client'[i] = IF i = ip THEN new ELSE client[i]
  BY EvictShape

(* An announcement leaves records of peers, the others' as they were.      *)
LEMMA AnnounceClient ==
    ASSUME TypeOK, NEW ip \in Ip, NEW txt \in TxtAgent,
           client' \in AnnouncedMaps(client, 0, ip, txt, "")
    PROVE  /\ DOMAIN client' \subseteq Ip
           /\ \A i \in DOMAIN client' :
                 /\ client'[i] \in Record
                 /\ i # ip => i \in DOMAIN client /\ client'[i] = client[i]
<1> DEFINE r == Entry(client, ip, 0)
           new == WithAnnouncement(r, txt, "", 0)
<1>1. r \in Record
  BY BlankType DEF Entry, TypeOK
<1>2. AnnouncedFrom(r, new)
  BY DeviceAssumption DEF AnnouncedFrom
<1>3. new \in Record
  <2> HIDE DEF r, new
  <2> QED
    BY <1>1, <1>2, AnnouncedType
<1>4. client' \in Evict(Put(client, ip, new))
  BY DEF AnnouncedMaps
<1> HIDE DEF r, new
<1>5. /\ DOMAIN client' \subseteq DOMAIN client \cup {ip}
      /\ \A i \in DOMAIN client' : client'[i] = IF i = ip THEN new ELSE client[i]
  BY <1>4, InsertClient
<1> QED
  BY <1>3, <1>5 DEF TypeOK

(* A request changes no record's advertisement.                            *)
LEMMA RequestClient ==
    ASSUME TypeOK, NEW ip \in Ip,
           client' \in Recorded(client, 0, ip, "Found", NoAgent, "")
    PROVE  /\ DOMAIN client' \subseteq Ip
           /\ \A i \in DOMAIN client' :
                 /\ client'[i] \in Record
                 /\ client'[i].announced # None =>
                        i \in DOMAIN client /\ client[i].announced # None
<1> DEFINE r == Entry(client, ip, 0)
           new == Heard(r, 0, "Found", NoAgent, "")
<1>1. r \in Record
  BY BlankType DEF Entry, TypeOK
<1>2. RecordedFrom(r, new)
  <2>1. NoAgent \in ParsedAgent /\ "Found" \in Stage
    BY DEF ParsedAgent, Stage, HttpStage
  <2> QED
    BY <2>1, DeviceAssumption DEF RecordedFrom
<1>3. client' \in Evict(Put(client, ip, new))
  BY DEF Recorded, Ignored, Heard
<1>4. ip \notin DOMAIN client => r.announced = None
  BY DEF Entry, Blank
<1>5. ip \in DOMAIN client => r = client[ip]
  BY DEF Entry
<1>6. new \in Record /\ new.announced = r.announced
  <2> HIDE DEF r, new
  <2> QED
    BY <1>1, <1>2, RecordedType, RecordedKeeps
<1> HIDE DEF r, new
<1>7. /\ DOMAIN client' \subseteq DOMAIN client \cup {ip}
      /\ \A i \in DOMAIN client' : client'[i] = IF i = ip THEN new ELSE client[i]
  BY <1>3, InsertClient
<1>8. DOMAIN client' \subseteq Ip
  BY <1>7 DEF TypeOK
<1>9. ASSUME NEW i \in DOMAIN client'
      PROVE  /\ client'[i] \in Record
             /\ client'[i].announced # None =>
                    i \in DOMAIN client /\ client[i].announced # None
  <2>1. CASE i = ip
    BY <1>4, <1>5, <1>6, <1>7, <2>1
  <2>2. CASE i # ip
    BY <1>7, <2>2 DEF TypeOK
  <2> QED
    BY <2>1, <2>2
<1> QED
  BY <1>8, <1>9

LEMMA WithdrawClient ==
    ASSUME TypeOK, NEW ip \in Ip, client' = Withdrawn(client, ip)
    PROVE  /\ DOMAIN client' = DOMAIN client
           /\ \A i \in DOMAIN client' :
                 /\ client'[i] \in Record
                 /\ i # ip => client'[i] = client[i]
                 /\ i = ip => client'[i].announced = None
<1>1. CASE ip \in DOMAIN client
  <2>1. client' = [client EXCEPT ![ip] = [@ EXCEPT !.announced = None]]
    BY <1>1 DEF Withdrawn
  <2>2. /\ [client[ip] EXCEPT !.announced = None] \in Record
        /\ [client[ip] EXCEPT !.announced = None].announced = None
    BY <1>1 DEF TypeOK, Record, Time
  <2> QED
    BY <1>1, <2>1, <2>2 DEF TypeOK
<1>2. CASE ip \notin DOMAIN client
  BY <1>2 DEF Withdrawn, TypeOK
<1> QED
  BY <1>1, <1>2

-----------------------------------------------------------------------------
(* Theorems.                                                               *)

LEMMA TypeInit == Init => TypeOK
  BY DEF Init, TypeOK, NoIp

(* The table and the calls keep their types in a callback.                 *)
LEMMA EffectType ==
    ASSUME TypeOK, calls = <<>>, Effect
    PROVE  /\ announced' \in [Instance -> {NoIp} \cup {{ip} : ip \in Ip}]
           /\ product' \in [Instance -> BOOLEAN]
           /\ calls' \in Seq(Call) /\ Len(calls') <= 2
<1>1. CASE UNCHANGED <<announced, product, calls>>
  BY <1>1 DEF TypeOK
<1>2. ASSUME NEW i \in Instance, Forget(i), UNCHANGED product
      PROVE  /\ announced' \in [Instance -> {NoIp} \cup {{ip} : ip \in Ip}]
             /\ product' \in [Instance -> BOOLEAN]
             /\ calls' \in Seq(Call) /\ Len(calls') <= 2
  <2>1. announced' \in [Instance -> {NoIp} \cup {{ip} : ip \in Ip}]
    BY <1>2 DEF Forget, TypeOK
  <2> QED
    BY <1>2, <2>1, ForgetCalls DEF TypeOK
<1>3. ASSUME NEW i \in Instance, NEW ip \in Ip, NEW spritz \in BOOLEAN,
             AnnounceAt(i, ip, spritz)
      PROVE  /\ announced' \in [Instance -> {NoIp} \cup {{x} : x \in Ip}]
             /\ product' \in [Instance -> BOOLEAN]
             /\ calls' \in Seq(Call) /\ Len(calls') <= 2
  <2>1. announced' \in [Instance -> {NoIp} \cup {{x} : x \in Ip}]
    BY <1>3 DEF AnnounceAt, TypeOK
  <2>2. product' \in [Instance -> BOOLEAN]
    BY <1>3 DEF AnnounceAt, TypeOK
  <2> QED
    BY <1>3, <2>1, <2>2, AnnounceCalls
<1> QED
  BY <1>1, <1>2, <1>3 DEF Effect

(* Interfaces and lookups keep their types in a callback.                  *)
LEMMA LookupType ==
    ASSUME TypeOK, Callback
    PROVE  /\ interfaces' \in [Instance -> SUBSET Interface]
           /\ lookup' \in [Instance -> {NoLookup, Resolving, Addressing(TRUE),
                                        Addressing(FALSE)}]
<1> DEFINE Goal == /\ interfaces' \in [Instance -> SUBSET Interface]
                   /\ lookup' \in [Instance -> {NoLookup, Resolving,
                                        Addressing(TRUE), Addressing(FALSE)}]
<1>1. ASSUME NEW i \in Instance, NEW if \in Interface, BrowseAdd(i, if)
      PROVE  Goal
  BY <1>1 DEF BrowseAdd, TypeOK
<1>2. ASSUME NEW i \in Instance, NEW if \in Interface, BrowseRemove(i, if)
      PROVE  Goal
  BY <1>2 DEF BrowseRemove, TypeOK
<1>3. ASSUME NEW i \in Instance, BrowseGone(i) PROVE Goal
  BY <1>3 DEF BrowseGone, TypeOK
<1>4. ASSUME NEW i \in Instance, LookupFails(i) PROVE Goal
  BY <1>4 DEF LookupFails, TypeOK
<1>5. ASSUME NEW i \in Instance, ServiceRemoved(i) PROVE Goal
  BY <1>5 DEF ServiceRemoved, MdnsEvent, TypeOK
<1>6. ASSUME NEW i \in Instance, NEW spritz \in BOOLEAN, Resolved(i, spritz)
      PROVE  Goal
  BY <1>6 DEF Resolved, TypeOK
<1>7. ASSUME NEW i \in Instance, NEW ip \in Ip, Addressed(i, ip) PROVE Goal
  BY <1>7 DEF Addressed, TypeOK
<1>8. ASSUME NEW i \in Instance, NEW ip \in Ip, NEW spritz \in BOOLEAN,
             ServiceResolved(i, ip, spritz)
      PROVE  Goal
  BY <1>8 DEF ServiceResolved, MdnsEvent, TypeOK
<1> HIDE DEF Goal
<1>9. Goal
  BY <1>1, <1>2, <1>3, <1>4, <1>5, <1>6, <1>7, <1>8 DEF Callback
<1> QED
  BY <1>9 DEF Goal

\* The two kinds of call a step of the tracker carries out.
TrackerWithdraws(ip) ==
    calls[1] = <<"withdraw", ip>> /\ client' = Withdrawn(client, ip)

TrackerAnnounces(ip) ==
    /\ calls[1] = <<"announce", ip>>
    /\ \E txt \in TxtAgent : client' \in AnnouncedMaps(client, 0, ip, txt, "")

LEMMA TheAnnouncement ==
    ASSUME NEW call, NEW ip, call = <<"announce", ip>>
    PROVE  /\ call[1] = "announce" /\ call[2] = ip
           /\ \A x : call # <<"withdraw", x>>
<1>1. call[1] = "announce" /\ call[2] = ip
  OBVIOUS
<1>2. ASSUME NEW x PROVE <<"withdraw", x>>[1] = "withdraw"
  OBVIOUS
<1> QED
  BY <1>1, <1>2

LEMMA CallKinds ==
    ASSUME TypeOK, CallTracker
    PROVE  /\ \E ip \in Ip : TrackerWithdraws(ip) \/ TrackerAnnounces(ip)
           /\ calls \in Seq(Call) /\ calls # <<>> /\ calls' = Tail(calls)
           /\ UNCHANGED <<platform, interfaces, lookup, announced, product>>
<1>1. calls \in Seq(Call) /\ calls # <<>> /\ Head(calls) = calls[1]
  <2>1. calls \in Seq(Call)
    BY DEF TypeOK
  <2>2. calls # <<>>
    BY DEF CallTracker
  <2> QED
    BY <2>1, <2>2
<1>2. Head(calls) \in Call
  BY <1>1
<1>3. PICK kind \in {"withdraw", "announce"}, ip \in Ip : Head(calls) = <<kind, ip>>
  BY <1>2 DEF Call
<1>4. (CHOOSE a \in TxtAgent : a.model # "") \in TxtAgent
  <2>1. AnAgent("SpritzPlayer/1.2", "tvOS", "Apple TV", TRUE).model # ""
    BY DEF AnAgent
  <2>2. \E a \in TxtAgent : a.model # ""
    BY <2>1, FullTxt
  <2> QED
    BY <2>2
<1>5. Head(calls)[1] = kind /\ Head(calls)[2] = ip
  BY <1>3
<1>6. CASE kind = "withdraw"
  <2>1. client' = Withdrawn(client, ip)
    BY <1>5, <1>6 DEF CallTracker
  <2> QED
    BY <1>1, <1>3, <1>6, <2>1 DEF CallTracker, TrackerWithdraws
<1>7. CASE kind = "announce"
  <2>1. \E txt \in TxtAgent : client' \in AnnouncedMaps(client, 0, ip, txt, "")
    BY <1>4, <1>5, <1>7 DEF CallTracker
  <2> QED
    BY <1>1, <1>3, <1>7, <2>1 DEF CallTracker, TrackerAnnounces
<1> QED
  BY <1>6, <1>7

LEMMA TypeStep == ASSUME TypeOK, [Next]_vars PROVE TypeOK'
<1>1. CASE UNCHANGED vars
  BY <1>1 DEF vars, TypeOK
<1>2. CASE Callback
  BY <1>2, CallbackEffect, EffectType, LookupType DEF TypeOK
<1>3. CASE CallTracker
  <2>1. /\ calls \in Seq(Call) /\ calls # <<>> /\ calls' = Tail(calls)
        /\ UNCHANGED <<platform, interfaces, lookup, announced, product>>
    BY <1>3, CallKinds
  <2>2. DOMAIN client' \subseteq Ip /\ \A i \in DOMAIN client' : client'[i] \in Record
    <3>1. PICK ip \in Ip : TrackerWithdraws(ip) \/ TrackerAnnounces(ip)
      BY <1>3, CallKinds
    <3>2. CASE TrackerWithdraws(ip)
      BY <3>2, WithdrawClient DEF TrackerWithdraws, TypeOK
    <3>3. CASE TrackerAnnounces(ip)
      BY <3>3, AnnounceClient DEF TrackerAnnounces
    <3> QED
      BY <3>1, <3>2, <3>3
  <2>3. calls' \in Seq(Call) /\ Len(calls') <= 2
    <3>1. calls' \in Seq(Call) /\ Len(calls') = Len(calls) - 1
      BY <2>1
    <3>2. Len(calls) \in Nat /\ Len(calls) <= 2
      BY <2>1 DEF TypeOK
    <3> QED
      BY <3>1, <3>2
  <2> QED
    BY <2>1, <2>2, <2>3 DEF TypeOK
<1>4. ASSUME NEW ip \in Ip, Request(ip) PROVE TypeOK'
  BY <1>4, RequestClient DEF Request, TypeOK
<1> QED
  BY <1>1, <1>2, <1>3, <1>4 DEF Next, Callback

(* Every step keeps the types, for any instances, interfaces and peers.    *)
THEOREM TypeCorrect == Spec => []TypeOK
  BY TypeInit, TypeStep, PTL DEF Spec

(* Between the calls of a callback: an advertisement the table no longer   *)
(* has is about to be withdrawn.                                           *)
NetworkInv ==
    /\ AnnouncingHeld
    /\ \A ip \in DOMAIN client :
          client[ip].announced # None => Holds(ip) \/ Withdrawing(ip)

LEMMA NetworkStep ==
    ASSUME TypeOK, NetworkInv, [Next]_vars
    PROVE  NetworkInv'
<1>1. CASE UNCHANGED vars
  BY <1>1 DEF vars, NetworkInv, AnnouncingHeld, Holds, Withdrawing
<1>2. CASE Callback
  <2>1. Effect /\ calls = <<>> /\ client' = client
    BY <1>2, CallbackEffect
  <2>2. \A ip \in DOMAIN client : client[ip].announced # None => Holds(ip)
    BY <2>1 DEF NetworkInv, Withdrawing
  <2>3. CASE UNCHANGED <<announced, product, calls>>
    BY <2>1, <2>3 DEF NetworkInv, AnnouncingHeld, Holds, Withdrawing
  <2>4. ASSUME NEW i \in Instance, Forget(i) PROVE NetworkInv'
    <3>1. \A ip \in Ip : Holds(ip) => Holds(ip)' \/ ip \in GoneFrom(i)
      BY <2>4 DEF Holds, Forget, GoneFrom, TypeOK
    <3> QED
      BY <2>1, <2>2, <2>4, <3>1, ForgetCalls DEF NetworkInv, TypeOK
  <2>5. ASSUME NEW i \in Instance, NEW ip \in Ip, NEW spritz \in BOOLEAN,
               AnnounceAt(i, ip, spritz)
        PROVE  NetworkInv'
    <3>1. \A x \in Ip : Holds(x) => Holds(x)' \/ x \in MovedFrom(i, ip)
      BY <2>5 DEF Holds, AnnounceAt, MovedFrom, TypeOK
    <3> QED
      BY <2>1, <2>2, <2>5, <3>1, AnnounceCalls DEF NetworkInv, TypeOK
  <2> QED
    BY <2>1, <2>3, <2>4, <2>5 DEF Effect
<1>3. CASE CallTracker
  <2>1. /\ calls \in Seq(Call) /\ calls # <<>> /\ calls' = Tail(calls)
        /\ announced' = announced
    BY <1>3, CallKinds
  <2>2. PICK ip \in Ip : TrackerWithdraws(ip) \/ TrackerAnnounces(ip)
    BY <1>3, CallKinds
  <2>3. /\ Len(calls') = Len(calls) - 1
        /\ \A k \in 1 .. Len(calls') : calls'[k] = calls[k + 1]
    BY <2>1
  <2>4. \A x : Holds(x)' <=> Holds(x)
    BY <2>1 DEF Holds
  <2>5. AnnouncingHeld'
    BY <2>1, <2>3, <2>4 DEF NetworkInv, AnnouncingHeld
  <2>6. ASSUME NEW x, Withdrawing(x)
        PROVE  calls[1] = <<"withdraw", x>> \/ Withdrawing(x)'
    <3>1. PICK k \in 1 .. Len(calls) : calls[k] = <<"withdraw", x>>
      BY <2>6 DEF Withdrawing
    <3>2. CASE k = 1
      BY <3>1, <3>2
    <3>3. CASE k # 1
      <4>1. k - 1 \in 1 .. Len(calls') /\ calls'[k - 1] = calls[k]
        BY <2>1, <2>3, <3>3
      <4> QED
        BY <3>1, <4>1 DEF Withdrawing
    <3> QED
      BY <3>2, <3>3
  <2>7. CASE TrackerWithdraws(ip)
    <3>1. /\ DOMAIN client' = DOMAIN client
          /\ \A i \in DOMAIN client' :
                /\ i # ip => client'[i] = client[i]
                /\ i = ip => client'[i].announced = None
      BY <2>7, WithdrawClient DEF TrackerWithdraws
    <3>2. \A x : x # ip => calls[1] # <<"withdraw", x>>
      BY <2>7 DEF TrackerWithdraws
    <3> QED
      BY <2>4, <2>5, <2>6, <3>1, <3>2 DEF NetworkInv
  <2>8. CASE TrackerAnnounces(ip)
    <3>1. \A i \in DOMAIN client' :
             i # ip => i \in DOMAIN client /\ client'[i] = client[i]
      BY <2>8, AnnounceClient DEF TrackerAnnounces
    <3>2. Holds(ip)
      <4>1. 1 \in 1 .. Len(calls)
        BY <2>1
      <4>2. calls[1][1] = "announce" /\ calls[1][2] = ip
        BY <2>8, TheAnnouncement DEF TrackerAnnounces
      <4> QED
        BY <4>1, <4>2 DEF NetworkInv, AnnouncingHeld
    <3>3. \A x : calls[1] # <<"withdraw", x>>
      BY <2>8, TheAnnouncement DEF TrackerAnnounces
    <3> QED
      BY <2>4, <2>5, <2>6, <3>1, <3>2, <3>3 DEF NetworkInv
  <2> QED
    BY <2>2, <2>7, <2>8
<1>4. ASSUME NEW ip \in Ip, Request(ip) PROVE NetworkInv'
  <2>1. UNCHANGED <<announced, calls>>
    BY <1>4 DEF Request
  <2>2. \A i \in DOMAIN client' : client'[i].announced # None =>
            i \in DOMAIN client /\ client[i].announced # None
    BY <1>4, RequestClient DEF Request
  <2> QED
    BY <2>1, <2>2 DEF NetworkInv, AnnouncingHeld, Holds, Withdrawing
<1> QED
  BY <1>1, <1>2, <1>3, <1>4 DEF Next, Callback

(* "On the network" is shown of a peer only while an advertisement stands  *)
(* at its address, on both platforms and whichever instances share it.     *)
THEOREM OnNetworkIsAdvertisedHolds == Spec => []OnNetworkIsAdvertised
<1>1. Init => NetworkInv
  BY DEF Init, NetworkInv, AnnouncingHeld
<1>2. NetworkInv => OnNetworkIsAdvertised
  BY DEF NetworkInv, OnNetworkIsAdvertised, Withdrawing
<1> QED
  BY <1>1, <1>2, TypeCorrect, NetworkStep, PTL DEF Spec

(* "Only callbacks on this queue remove players": on macOS a player that   *)
(* is announced, or being looked up, is one the browse reports, and never  *)
(* both, in any order of its callbacks.                                    *)
THEOREM LookupsBelongToPlayersHolds == Spec => []LookupsBelongToPlayers
<1>1. Init => LookupsBelongToPlayers
  BY DEF Init, LookupsBelongToPlayers
<1>2. ASSUME TypeOK, LookupsBelongToPlayers, [Next]_vars
      PROVE  LookupsBelongToPlayers'
  <2> USE <1>2
  <2>1. CASE UNCHANGED <<platform, interfaces, lookup, announced>>
    BY <2>1 DEF LookupsBelongToPlayers
  <2>2. ASSUME NEW i \in Instance, NEW if \in Interface, BrowseAdd(i, if)
        PROVE  LookupsBelongToPlayers'
    BY <2>2 DEF BrowseAdd, MacCallback, LookupsBelongToPlayers, TypeOK
  <2>3. ASSUME NEW i \in Instance, NEW if \in Interface, BrowseRemove(i, if)
        PROVE  LookupsBelongToPlayers'
    BY <2>3 DEF BrowseRemove, MacCallback, LookupsBelongToPlayers, TypeOK
  <2>4. ASSUME NEW i \in Instance, BrowseGone(i) PROVE LookupsBelongToPlayers'
    BY <2>4 DEF BrowseGone, Forget, MacCallback, LookupsBelongToPlayers, TypeOK
  <2>5. ASSUME NEW i \in Instance, LookupFails(i) PROVE LookupsBelongToPlayers'
    BY <2>5 DEF LookupFails, MacCallback, LookupsBelongToPlayers, TypeOK
  <2>6. ASSUME NEW i \in Instance, NEW spritz \in BOOLEAN, Resolved(i, spritz)
        PROVE  LookupsBelongToPlayers'
    <3>1. interfaces[i] # {} /\ announced[i] = NoIp
      BY <2>6, LookupStates DEF Resolved, MacCallback, LookupsBelongToPlayers
    <3> QED
      BY <2>6, <3>1 DEF Resolved, MacCallback, LookupsBelongToPlayers, TypeOK
  <2>7. ASSUME NEW i \in Instance, NEW ip \in Ip, Addressed(i, ip)
        PROVE  LookupsBelongToPlayers'
    <3>1. interfaces[i] # {}
      <4>1. lookup[i] # NoLookup
        BY <2>7, LookupStates DEF Addressed
      <4> QED
        BY <2>7, <4>1 DEF Addressed, MacCallback, LookupsBelongToPlayers
    <3>2. announced' = [announced EXCEPT ![i] = {ip}]
      BY <2>7 DEF Addressed, AnnounceAt
    <3> QED
      BY <2>7, <3>1, <3>2 DEF Addressed, MacCallback, LookupsBelongToPlayers,
         TypeOK
  <2>8. ASSUME NEW i \in Instance,
               \/ ServiceRemoved(i)
               \/ \E ip \in Ip, spritz \in BOOLEAN : ServiceResolved(i, ip, spritz)
        PROVE  LookupsBelongToPlayers'
    <3>1. platform' = "other"
      BY <2>8 DEF ServiceRemoved, ServiceResolved, MdnsEvent
    <3> QED
      BY <3>1 DEF LookupsBelongToPlayers
  <2>9. CASE CallTracker \/ \E ip \in Ip : Request(ip)
    BY <2>1, <2>9 DEF CallTracker, Request
  <2> QED
    BY <2>1, <2>2, <2>3, <2>4, <2>5, <2>6, <2>7, <2>8, <2>9 DEF Next, vars
<1> QED
  BY <1>1, <1>2, TypeCorrect, PTL DEF Spec

-----------------------------------------------------------------------------
(***************************************************************************)
(* The other direction, with as many records as peers: an eviction forgets *)
(* the advertisement of a player that still stands in the table.           *)
(***************************************************************************)
RoomForAll == Cardinality(Ip) <= MaxClients

Shown(ip) == ip \in DOMAIN client /\ client[ip].announced # None

Announcing(ip) == \E k \in 1 .. Len(calls) : calls[k] = <<"announce", ip>>

\* Calls that withdraw are made of an address no instance holds.
WithdrawnFree ==
    \A ip \in Ip : Holds(ip) => ~Withdrawing(ip)

\* Between the calls of a callback: a player that stands is shown, or is
\* about to be announced, and is not about to be withdrawn.
ShownInv ==
    /\ WithdrawnFree
    /\ \A i \in Instance : \A ip \in Ip :
          announced[i] = {ip} /\ product[i] => Shown(ip) \/ Announcing(ip)

LEMMA NothingEvicted ==
    ASSUME RoomForAll, TypeOK, NEW ip \in Ip, NEW new,
           client' \in Evict(Put(client, ip, new))
    PROVE  client' = Put(client, ip, new)
<1>1. DOMAIN Put(client, ip, new) \subseteq Ip
  BY DEF Put, TypeOK
<1>2. Cardinality(DOMAIN Put(client, ip, new)) <= MaxClients
  <2>1. /\ IsFiniteSet(DOMAIN Put(client, ip, new))
        /\ Cardinality(DOMAIN Put(client, ip, new)) <= Cardinality(Ip)
    BY <1>1, IpAssumption, FS_Subset
  <2>2. Cardinality(DOMAIN Put(client, ip, new)) \in Nat /\ Cardinality(Ip) \in Nat
    BY <2>1, IpAssumption, FS_CardinalityType
  <2> QED
    BY <2>1, <2>2, MaxClientsAssumption DEF RoomForAll
<1> QED
  BY <1>2 DEF Evict

(* An announcement sets `announced`, or leaves the time it has.            *)
LEMMA AnnouncedIsShown ==
    ASSUME NEW r \in Record, NEW txt \in TxtAgent
    PROVE  WithAnnouncement(r, txt, "", 0).announced # None
<1> DEFINE known == [r EXCEPT !.agent =
                       IF ~@.spritz \/ @.model = "" THEN txt ELSE @]
           titled == Titled(known, "")
<1>1. known \in Record
  BY AgentTypes DEF Record
<1>2. titled \in Record
  <2> HIDE DEF known
  <2> QED
    BY <1>1, DeviceAssumption DEF Titled, Record
<1>3. WithAnnouncement(r, txt, "", 0) =
          [titled EXCEPT !.announced = IF @ = None THEN 0 ELSE @, !.last_seen = 0]
  BY DEF WithAnnouncement
<1> HIDE DEF titled
<1>4. WithAnnouncement(r, txt, "", 0).announced =
          IF titled.announced = None THEN 0 ELSE titled.announced
  BY <1>2, <1>3 DEF Record
<1>6. CASE titled.announced = None
  <2>1. WithAnnouncement(r, txt, "", 0).announced = 0
    BY <1>4, <1>6
  <2>2. 0 # None
    BY DEF None
  <2> QED
    BY <2>1, <2>2
<1>7. CASE titled.announced # None
  BY <1>4, <1>7
<1> QED
  BY <1>6, <1>7

LEMMA AnnounceShows ==
    ASSUME RoomForAll, TypeOK, NEW ip \in Ip, NEW txt \in TxtAgent,
           client' \in AnnouncedMaps(client, 0, ip, txt, "")
    PROVE  Shown(ip)' /\ \A x : Shown(x) => Shown(x)'
<1> DEFINE r == Entry(client, ip, 0)
           new == WithAnnouncement(r, txt, "", 0)
<1>1. r \in Record
  BY BlankType DEF Entry, TypeOK
<1>2. new.announced # None
  BY <1>1, AnnouncedIsShown
<1>3. client' \in Evict(Put(client, ip, new))
  BY DEF AnnouncedMaps
<1> HIDE DEF new
<1>4. client' = Put(client, ip, new)
  BY <1>3, NothingEvicted
<1> QED
  BY <1>2, <1>4 DEF Shown, Put

LEMMA RequestShows ==
    ASSUME RoomForAll, TypeOK, NEW ip \in Ip,
           client' \in Recorded(client, 0, ip, "Found", NoAgent, "")
    PROVE  \A x : Shown(x) => Shown(x)'
<1> DEFINE r == Entry(client, ip, 0)
           new == Heard(r, 0, "Found", NoAgent, "")
<1>1. r \in Record
  BY BlankType DEF Entry, TypeOK
<1>2. RecordedFrom(r, new)
  <2>1. NoAgent \in ParsedAgent /\ "Found" \in Stage
    BY DEF ParsedAgent, Stage, HttpStage
  <2> QED
    BY <2>1, DeviceAssumption DEF RecordedFrom
<1>3. client' \in Evict(Put(client, ip, new))
  BY DEF Recorded, Ignored, Heard
<1>4. ip \in DOMAIN client => r = client[ip]
  BY DEF Entry
<1> HIDE DEF new, r
<1>5. client' = Put(client, ip, new)
  BY <1>3, NothingEvicted
<1>6. new.announced = r.announced
  BY <1>1, <1>2, RecordedKeeps
<1> QED
  BY <1>4, <1>5, <1>6 DEF Shown, Put

LEMMA WithdrawHides ==
    ASSUME TypeOK, NEW ip \in Ip, client' = Withdrawn(client, ip)
    PROVE  \A x : x # ip /\ Shown(x) => Shown(x)'
  BY WithdrawClient DEF Shown

\* Tuples that tell a call from another.
LEMMA CallsDiffer ==
    ASSUME NEW x, NEW y
    PROVE  /\ <<"announce", x>> # <<"withdraw", y>>
           /\ <<"withdraw", x>> = <<"withdraw", y>> => x = y
           /\ <<"announce", x>> = <<"announce", y>> => x = y
  OBVIOUS

(* The withdrawals after Forget and AnnounceAt are of an address no        *)
(* instance holds any more; AnnounceAt of a player announces it.           *)
LEMMA ForgetFree ==
    ASSUME TypeOK, NEW i \in Instance, Forget(i)
    PROVE  \A ip \in Ip : Holds(ip)' => Holds(ip) /\ ~Withdrawing(ip)'
<1>1. GoneFrom(i) \in SUBSET Ip /\ Single(GoneFrom(i))
  BY SinglesAre DEF GoneFrom
<1>2. announced' = [announced EXCEPT ![i] = NoIp]
  BY DEF Forget
<1>3. \A ip \in Ip : Holds(ip)' => Holds(ip) /\ ip \notin GoneFrom(i)
  BY <1>2 DEF Holds, GoneFrom, NoIp, TypeOK
<1>4. \A ip : Withdrawing(ip)' => ip \in GoneFrom(i)
  <2>1. CASE GoneFrom(i) = {} /\ calls' = <<>>
    BY <2>1 DEF Withdrawing
  <2>2. ASSUME NEW x \in GoneFrom(i), calls' = << <<"withdraw", x>> >>
        PROVE  \A ip : Withdrawing(ip)' => ip \in GoneFrom(i)
    <3>1. Len(calls') = 1 /\ calls'[1] = <<"withdraw", x>>
      BY <2>2
    <3> QED
      BY <3>1, <2>2, CallsDiffer DEF Withdrawing
  <2> QED
    BY <1>1, <2>1, <2>2, WithdrawCallsShape DEF Forget
<1> QED
  BY <1>3, <1>4

LEMMA AnnounceFree ==
    ASSUME TypeOK, NEW i \in Instance, NEW ip \in Ip, NEW spritz \in BOOLEAN,
           AnnounceAt(i, ip, spritz)
    PROVE  /\ \A x \in Ip : Holds(x)' => ~Withdrawing(x)'
           /\ spritz => Announcing(ip)'
<1> DEFINE moved == MovedFrom(i, ip)
           told == IF spritz THEN << <<"announce", ip>> >> ELSE <<>>
<1>1. moved \in SUBSET Ip /\ Single(moved)
  BY SinglesAre DEF MovedFrom
<1>2. calls' = WithdrawCalls(moved) \o told
  BY DEF AnnounceAt
<1>3. \A x \in Ip : Holds(x)' => x \notin moved
  BY DEF AnnounceAt, Holds, MovedFrom, TypeOK
<1> HIDE DEF moved
<1>4. /\ \A x : Withdrawing(x)' => x \in moved
      /\ spritz => Announcing(ip)'
  <2>1. CASE WithdrawCalls(moved) = <<>>
    <3>1. calls' = told
      BY <1>2, <2>1
    <3>2. CASE spritz
      <4>1. Len(calls') = 1 /\ calls'[1] = <<"announce", ip>>
        BY <3>1, <3>2
      <4> QED
        BY <4>1, CallsDiffer DEF Withdrawing, Announcing
    <3>3. CASE ~spritz
      BY <3>1, <3>3 DEF Withdrawing
    <3> QED
      BY <3>2, <3>3
  <2>2. ASSUME NEW y \in moved, WithdrawCalls(moved) = << <<"withdraw", y>> >>
        PROVE  /\ \A x : Withdrawing(x)' => x \in moved
               /\ spritz => Announcing(ip)'
    <3>1. CASE spritz
      <4>1. calls' = << <<"withdraw", y>> >> \o << <<"announce", ip>> >>
        BY <1>2, <2>2, <3>1
      <4>2. /\ Len(calls') = 2
            /\ calls'[1] = <<"withdraw", y>> /\ calls'[2] = <<"announce", ip>>
        BY <4>1
      <4> QED
        BY <2>2, <4>2, CallsDiffer DEF Withdrawing, Announcing
    <3>2. CASE ~spritz
      <4>1. calls' = << <<"withdraw", y>> >>
        BY <1>2, <2>2, <3>2
      <4>2. Len(calls') = 1 /\ calls'[1] = <<"withdraw", y>>
        BY <4>1
      <4> QED
        BY <2>2, <3>2, <4>2, CallsDiffer DEF Withdrawing
    <3> QED
      BY <3>1, <3>2
  <2> QED
    BY <1>1, <2>1, <2>2, WithdrawCallsShape
<1> QED
  BY <1>3, <1>4

LEMMA ShownStep ==
    ASSUME RoomForAll, TypeOK, ShownInv, [Next]_vars
    PROVE  ShownInv'
<1>1. CASE UNCHANGED vars
  BY <1>1 DEF vars, ShownInv, WithdrawnFree, Holds, Withdrawing, Announcing, Shown
<1>2. CASE Callback
  <2>1. Effect /\ calls = <<>> /\ client' = client
    BY <1>2, CallbackEffect
  <2>2. \A i \in Instance : \A ip \in Ip :
            announced[i] = {ip} /\ product[i] => Shown(ip)'
    BY <2>1 DEF ShownInv, Announcing, Shown
  <2>3. CASE UNCHANGED <<announced, product, calls>>
    BY <2>1, <2>2, <2>3 DEF ShownInv, WithdrawnFree, Holds, Withdrawing
  <2>4. ASSUME NEW i \in Instance, Forget(i), product' = product
        PROVE  ShownInv'
    <3>1. WithdrawnFree'
      BY <2>4, ForgetFree DEF WithdrawnFree
    <3>2. \A j \in Instance : \A ip \in Ip :
              announced'[j] = {ip} => announced[j] = {ip}
      BY <2>4 DEF Forget, NoIp, TypeOK
    <3> QED
      BY <2>2, <2>4, <3>1, <3>2 DEF ShownInv
  <2>5. ASSUME NEW i \in Instance, NEW ip \in Ip, NEW spritz \in BOOLEAN,
               AnnounceAt(i, ip, spritz)
        PROVE  ShownInv'
    <3>1. WithdrawnFree' /\ (spritz => Announcing(ip)')
      BY <2>5, AnnounceFree DEF WithdrawnFree
    <3>2. ASSUME NEW j \in Instance, NEW x \in Ip,
                 announced'[j] = {x}, product'[j]
          PROVE  Shown(x)' \/ Announcing(x)'
      <4>1. CASE j = i
        <5>1. x = ip /\ spritz
          BY <2>5, <3>2, <4>1 DEF AnnounceAt, TypeOK
        <5> QED
          BY <3>1, <5>1
      <4>2. CASE j # i
        <5>1. announced[j] = {x} /\ product[j]
          BY <2>5, <3>2, <4>2 DEF AnnounceAt, TypeOK
        <5> QED
          BY <2>2, <5>1
      <4> QED
        BY <4>1, <4>2
    <3> QED
      BY <3>1, <3>2 DEF ShownInv
  <2> QED
    BY <2>1, <2>3, <2>4, <2>5 DEF Effect
<1>3. CASE CallTracker
  <2>1. /\ calls \in Seq(Call) /\ calls # <<>> /\ calls' = Tail(calls)
        /\ announced' = announced /\ product' = product
    BY <1>3, CallKinds
  <2>2. PICK ip \in Ip : TrackerWithdraws(ip) \/ TrackerAnnounces(ip)
    BY <1>3, CallKinds
  <2>3. /\ Len(calls') = Len(calls) - 1 /\ 1 \in 1 .. Len(calls)
        /\ \A k \in 1 .. Len(calls') :
              calls'[k] = calls[k + 1] /\ k + 1 \in 1 .. Len(calls)
    BY <2>1
  <2>4. \A x : Holds(x)' <=> Holds(x)
    BY <2>1 DEF Holds
  <2>5. WithdrawnFree'
    BY <2>3, <2>4 DEF ShownInv, WithdrawnFree, Withdrawing
  <2>6. ASSUME NEW x, Announcing(x)
        PROVE  calls[1] = <<"announce", x>> \/ Announcing(x)'
    <3>1. PICK k \in 1 .. Len(calls) : calls[k] = <<"announce", x>>
      BY <2>6 DEF Announcing
    <3>2. CASE k = 1
      BY <3>1, <3>2
    <3>3. CASE k # 1
      <4>1. k - 1 \in 1 .. Len(calls') /\ calls'[k - 1] = calls[k]
        BY <2>1, <2>3, <3>3
      <4> QED
        BY <3>1, <4>1 DEF Announcing
    <3> QED
      BY <3>2, <3>3
  <2>7. CASE TrackerWithdraws(ip)
    <3>1. \A x : x # ip /\ Shown(x) => Shown(x)'
      BY <2>7, WithdrawHides DEF TrackerWithdraws
    <3>2. ~Holds(ip)
      BY <2>3, <2>7 DEF TrackerWithdraws, ShownInv, WithdrawnFree, Withdrawing
    <3>3. \A x : calls[1] # <<"announce", x>>
      BY <2>7, CallsDiffer DEF TrackerWithdraws
    <3> QED
      BY <2>1, <2>5, <2>6, <3>1, <3>2, <3>3 DEF ShownInv, Holds
  <2>8. CASE TrackerAnnounces(ip)
    <3>1. Shown(ip)' /\ \A x : Shown(x) => Shown(x)'
      BY <2>8, AnnounceShows DEF TrackerAnnounces
    <3>2. \A x : calls[1] = <<"announce", x>> => x = ip
      BY <2>8, CallsDiffer DEF TrackerAnnounces
    <3> QED
      BY <2>1, <2>5, <2>6, <3>1, <3>2 DEF ShownInv
  <2> QED
    BY <2>2, <2>7, <2>8
<1>4. ASSUME NEW ip \in Ip, Request(ip) PROVE ShownInv'
  <2>1. UNCHANGED <<announced, product, calls>>
    BY <1>4 DEF Request
  <2>2. \A x : Shown(x) => Shown(x)'
    BY <1>4, RequestShows DEF Request
  <2> QED
    BY <2>1, <2>2 DEF ShownInv, WithdrawnFree, Holds, Withdrawing, Announcing
<1> QED
  BY <1>1, <1>2, <1>3, <1>4 DEF Next, Callback

(* An announced Spritz player is shown on the network: no removal or move  *)
(* of another instance, and none of its own between two addresses that     *)
(* others share, withdraws it, where no record is evicted.                 *)
THEOREM AdvertisedIsOnNetworkHolds ==
    ASSUME RoomForAll
    PROVE  Spec => []AdvertisedIsOnNetwork
<1>1. Init => ShownInv
  <2>1. Init => calls = <<>> /\ \A i \in Instance : announced[i] = NoIp
    BY DEF Init
  <2> QED
    BY <2>1 DEF ShownInv, WithdrawnFree, Withdrawing, NoIp
<1>2. ShownInv => AdvertisedIsOnNetwork
  BY DEF ShownInv, AdvertisedIsOnNetwork, Announcing, Shown
<1>3. TypeOK /\ ShownInv /\ [Next]_vars => ShownInv'
  BY ShownStep
<1> QED
  BY <1>1, <1>2, <1>3, TypeCorrect, PTL DEF Spec

=============================================================================
