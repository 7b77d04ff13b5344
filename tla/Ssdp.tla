-------------------------------- MODULE Ssdp --------------------------------
(***************************************************************************)
(* Discovery: dlna/src/ssdp.rs.  `run` is one task that selects between    *)
(* the shutdown signal, the announcement interval and datagrams; every     *)
(* burst of ssdp:alive and every reply to a search is a spawned task of    *)
(* its own.  Datagrams may be lost.  Time is not modelled: a task that     *)
(* sleeps may go on at any later moment.                                   *)
(***************************************************************************)
EXTENDS Integers, Sequences, FiniteSets

CONSTANTS
    Families,   \* the sockets that opened, IPv4 before IPv6
    Targets,    \* nt_usn_pairs, in their order
    Copies,     \* the times an alive or a reply is sent
    Rounds,     \* the times the byebyes are sent
    MaxInFlight,  \* MAX_MSEARCH_IN_FLIGHT
    Peer,       \* control points
    FamilyOf,   \* the socket each of them is heard on
    Search,     \* M-SEARCH datagrams
    SourceOf,   \* the peer that sends each of them
    Wanted,     \* the targets it asks for; none when it is not answered: no
                \* target of the server, no ssdp:discover, a source off the LAN
    MaxBursts,  \* bound of the model: alive bursts
    MaxLost     \* bound of the model: datagrams lost

ASSUME SizeAssumption ==
    /\ Copies \in Nat \ {0} /\ Rounds \in Nat \ {0} /\ MaxInFlight \in Nat \ {0}
    /\ MaxBursts \in Nat \ {0} /\ MaxLost \in Nat

VARIABLES
    pc,        \* run: "listening", "closing" or "stopped"
    shutdown,  \* the oneshot has been sent
    bursts,    \* bursts started; alive_burst is the last of them
    step,      \* step[b]: alives a burst has sent
    aborted,   \* bursts whose handle was aborted
    polled,    \* bursts inside a poll: past their await, about to send
    bye,       \* byebyes sent
    reply,     \* reply[s]: replies sent by the task of s, or where s stands
    heard,     \* heard[p][t]: what a peer was last told of a target
    lost       \* datagrams lost so far

vars == <<pc, shutdown, bursts, step, aborted, polled, bye, reply, heard, lost>>

Unheard == -1
Dropped == -2
Finished == -3

Target == {Targets[k] : k \in 1 .. Len(Targets)}
BurstId == 1 .. MaxBursts

(* `run` ends at once when no socket opens; the server has its root        *)
(* device, and answers for nothing but its targets.                        *)
ASSUME ShapeAssumption ==
    /\ Len(Families) \in Nat \ {0} /\ Len(Targets) \in Nat \ {0}
    /\ IsFiniteSet(Peer)
    /\ \A p \in Peer : \E f \in 1 .. Len(Families) : FamilyOf[p] = Families[f]
    /\ \A s \in Search : Wanted[s] \in SUBSET Target /\ IsFiniteSet(Wanted[s])

\* The k-th alive: each target Copies times, on one socket after the other.
Alive(k) ==
    LET perFamily == Len(Targets) * Copies
        n == k - 1
    IN  [family |-> Families[(n \div perFamily) + 1],
         target |-> Targets[((n % perFamily) \div Copies) + 1]]

AliveLen == Len(Families) * Len(Targets) * Copies

\* The k-th byebye: Rounds times all targets, on one socket after the other.
Byebye(k) ==
    LET perFamily == Len(Targets) * Rounds
        n == k - 1
    IN  [family |-> Families[(n \div perFamily) + 1],
         target |-> Targets[(n % Len(Targets)) + 1]]

OneRound == Len(Families) * Len(Targets)  \* mutant of ByebyeLen

ByebyeLen == Len(Families) * Len(Targets) * Rounds

\* announce_byebye sleeps before this one.
AfterGap(k) ==
    /\ (k - 1) % Len(Targets) = 0
    /\ (k - 1) % (Len(Targets) * Rounds) # 0

\* The k-th reply to s.
ReplyTarget(s, k) ==
    LET wanted == SelectSeq(Targets, LAMBDA t : t \in Wanted[s])
    IN  wanted[((k - 1) \div Copies) + 1]

ReplyLen(s) == Cardinality(Wanted[s]) * Copies

InFlight == {s \in Search : reply[s] >= 0}

-----------------------------------------------------------------------------
(* Datagrams.                                                              *)

\* A datagram about target t to those in `to`; some may miss it.
Send(kind, t, to) ==
    \E missed \in SUBSET to :
        /\ lost + Cardinality(missed) <= MaxLost
        /\ lost' = lost + Cardinality(missed)
        /\ heard' = [p \in Peer |->
                        IF p \in to \ missed
                        THEN [heard[p] EXCEPT ![t] = kind] ELSE heard[p]]

Multicast(kind, msg) ==
    Send(kind, msg.target, {p \in Peer : FamilyOf[p] = msg.family})

-----------------------------------------------------------------------------
(* Both sockets are open and the first burst is spawned.                   *)
Init ==
    /\ pc = "listening"
    /\ shutdown = FALSE
    /\ bursts = 1
    /\ step = [b \in BurstId |-> 0]
    /\ aborted = {}
    /\ polled = {}
    /\ bye = 0
    /\ reply = [s \in Search |-> Unheard]
    /\ heard = [p \in Peer |-> [t \in Target |-> "nothing"]]
    /\ lost = 0

NoAbort == aborted  \* mutant of Abort: the handle is only dropped

(* burst.abort(): a task that sleeps is dropped; one that is inside a poll *)
(* is dropped when that poll returns.                                      *)
Abort == aborted \cup {bursts}

-----------------------------------------------------------------------------
(* announce_alive, in a task of its own.                                   *)

BurstPoll(b) ==
    /\ b <= bursts
    /\ b \notin aborted \cup polled
    /\ step[b] < AliveLen
    /\ polled' = polled \cup {b}
    /\ UNCHANGED <<pc, shutdown, bursts, step, aborted, bye, reply, heard, lost>>

BurstSend(b) ==
    /\ b \in polled
    /\ Multicast("alive", Alive(step[b] + 1))
    /\ polled' = polled \ {b}
    /\ step' = [step EXCEPT ![b] = @ + 1]
    /\ UNCHANGED <<pc, shutdown, bursts, aborted, bye, reply>>

\* interval.tick(): the burst before is aborted.
IntervalTick ==
    /\ pc = "listening"
    /\ bursts < MaxBursts
    /\ aborted' = Abort
    /\ bursts' = bursts + 1
    /\ UNCHANGED <<pc, shutdown, step, polled, bye, reply, heard, lost>>

-----------------------------------------------------------------------------
(* handle_datagram and respond_to_msearch.                                 *)

AlwaysAdmit(s) ==  \* mutant of Receive: searches take no slot
    /\ pc = "listening"
    /\ reply[s] = Unheard
    /\ reply' = [reply EXCEPT ![s] = IF Wanted[s] = {} THEN Dropped ELSE 0]
    /\ UNCHANGED <<pc, shutdown, bursts, step, aborted, polled, bye, heard, lost>>

\* A search for nothing the server has, or beyond the slots, is dropped.
Receive(s) ==
    /\ pc = "listening"
    /\ reply[s] = Unheard
    /\ reply' = [reply EXCEPT ![s] =
                    IF Wanted[s] = {} \/ Cardinality(InFlight) >= MaxInFlight
                    THEN Dropped ELSE 0]
    /\ UNCHANGED <<pc, shutdown, bursts, step, aborted, polled, bye, heard, lost>>

\* After the MX delay, or after the gap that follows the copy before.
ReplySend(s) ==
    /\ reply[s] \in 0 .. ReplyLen(s) - 1
    /\ Send("alive", ReplyTarget(s, reply[s] + 1), {SourceOf[s]})
    /\ reply' = [reply EXCEPT ![s] = @ + 1]
    /\ UNCHANGED <<pc, shutdown, bursts, step, aborted, polled, bye>>

PermitKept(s) ==  \* mutant of ReplyEnds: only the reply of one target ends
    /\ reply[s] = Copies /\ ReplyLen(s) = Copies
    /\ reply' = [reply EXCEPT ![s] = Finished]
    /\ UNCHANGED <<pc, shutdown, bursts, step, aborted, polled, bye, heard, lost>>

\* The last gap is over: the task ends and its permit is dropped.
ReplyEnds(s) ==
    /\ reply[s] = ReplyLen(s)
    /\ reply' = [reply EXCEPT ![s] = Finished]
    /\ UNCHANGED <<pc, shutdown, bursts, step, aborted, polled, bye, heard, lost>>

-----------------------------------------------------------------------------
(* Shutdown.                                                               *)

RequestShutdown ==
    /\ ~shutdown
    /\ shutdown' = TRUE
    /\ UNCHANGED <<pc, bursts, step, aborted, polled, bye, reply, heard, lost>>

Close ==
    /\ pc = "listening"
    /\ shutdown
    /\ pc' = "closing"
    /\ aborted' = Abort
    /\ UNCHANGED <<shutdown, bursts, step, polled, bye, reply, heard, lost>>

\* A poll that was under way when its burst was aborted is over after a gap.
ByebyeSend ==
    /\ pc = "closing"
    /\ bye < ByebyeLen
    /\ AfterGap(bye + 1) => polled = {}
    /\ Multicast("byebye", Byebye(bye + 1))
    /\ bye' = bye + 1
    /\ UNCHANGED <<pc, shutdown, bursts, step, aborted, polled, reply>>

Stop ==
    /\ pc = "closing"
    /\ bye = ByebyeLen
    /\ pc' = "stopped"
    /\ UNCHANGED <<shutdown, bursts, step, aborted, polled, bye, reply, heard, lost>>

-----------------------------------------------------------------------------
Next ==
    \/ \E b \in BurstId : BurstPoll(b) \/ BurstSend(b)
    \/ \E s \in Search : Receive(s) \/ ReplySend(s) \/ ReplyEnds(s)
    \/ IntervalTick \/ RequestShutdown \/ Close \/ ByebyeSend \/ Stop

Spec == Init /\ [][Next]_vars

(* Spawned tasks run to their end, and `run` takes the shutdown branch of  *)
(* its select, which is polled in every round, and sends its byebyes.      *)
Fairness ==
    /\ \A b \in BurstId : WF_vars(BurstSend(b))
    /\ \A s \in Search : WF_vars(ReplySend(s) \/ ReplyEnds(s))
    /\ WF_vars(Close \/ ByebyeSend \/ Stop)

FairSpec == Spec /\ Fairness

-----------------------------------------------------------------------------
(* "In-flight M-SEARCH replies. Extra searches are dropped": never more    *)
(* reply tasks than slots.                                                 *)
RepliesBounded == Cardinality(InFlight) <= MaxInFlight

(* A peer the server sent no reply since has the byebye as the last word   *)
(* on every target, though bursts of alives were under way at shutdown, one *)
(* of them perhaps inside a poll, and datagrams were lost.                 *)
ByebyeIsLastWord ==
    pc = "stopped" =>
        \A p \in Peer :
            (\A s \in Search : SourceOf[s] = p => reply[s] \in {Unheard, Dropped})
                => \A t \in Target : heard[p][t] # "alive"

(* No burst, the current one or one before it, sends after `run` is over.  *)
NoAliveOnceStopped == [][pc = "stopped" => step' = step]_vars

(* Slots come back: searches beyond them are not dropped for ever.         *)
SlotsComeBack ==
    Cardinality(InFlight) = MaxInFlight ~> Cardinality(InFlight) < MaxInFlight

(* README.md:45: "Sends `ssdp:byebye` on Ctrl+C so clients drop it         *)
(* immediately": once `run` has returned no peer believes the server is    *)
(* there.                                                                  *)
ClientsDropIt ==
    pc = "stopped" => \A p \in Peer : \A t \in Target : heard[p][t] # "alive"

=============================================================================
