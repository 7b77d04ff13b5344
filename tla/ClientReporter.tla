--------------------------- MODULE ClientReporter ---------------------------
(***************************************************************************)
(* The CLI's report task (api/src/lib.rs) over the client tracker: once a  *)
(* second it takes a snapshot of the listed clients and prints what        *)
(* `ClientReporter::lines` (api/src/report.rs) finds new in it.  The       *)
(* snapshot and the clock reading after it are one step.                   *)
(***************************************************************************)
EXTENDS ClientTracker

VARIABLES
    seen,   \* the reporter's `seen`: listed IPs to what was last printed
    told    \* history: <<ip, line>>s printed and true at each report since

reporterVars == <<vars, seen, told>>

StagesOf(r) ==
    {s \in Stage : \/ s = "Searched" /\ r.searched # None
                   \/ s = "Found" /\ r.found # None
                   \/ s = "Browsed" /\ r.browsed # None
                   \/ s = "Streamed" /\ r.streamed # None}

Rank(s) == CASE s = "Searched" -> 0 [] s = "Found" -> 1
             [] s = "Browsed" -> 2 [] s = "Streamed" -> 3

NothingSeen == [stages |-> {}, announced |-> FALSE, diagnosis |-> {}]

SeenOf(r) == [stages |-> StagesOf(r), announced |-> r.announced # None,
              diagnosis |-> Diagnosis(r, now)]

SeenBefore(ip) == IF ip \in DOMAIN seen THEN seen[ip] ELSE NothingSeen

\* The newest stage that is new.
NewStage(old, r) ==
    LET new == StagesOf(r) \ old.stages
    IN  {s \in new : \A other \in new : Rank(other) <= Rank(s)}

News(old, r) ==
    {<<"stage", s>> : s \in NewStage(old, r)}
        \cup (IF r.announced # None /\ ~old.announced THEN {<<"network">>} ELSE {})

EveryDiagnosis(old, r) ==  \* mutants of LinesFor: whenever there is one;
    News(old, r) \cup {<<"diagnosis", d>> : d \in Diagnosis(r, now)}
FirstDiagnosis(old, r) ==  \* only when there was none before
    News(old, r) \cup {<<"diagnosis", d>> :
                           d \in IF old.diagnosis = {} THEN Diagnosis(r, now) ELSE {}}

\* What lines() prints of a client.
LinesFor(old, r) ==
    News(old, r) \cup {<<"diagnosis", d>> : d \in Diagnosis(r, now) \ old.diagnosis}

ListedIps == {i \in Known : Listed(client[i])}

Printed == UNION {{i} \X LinesFor(SeenBefore(i), client[i]) : i \in ListedIps}

\* What a line says holds of r at time t.
StillTrue(line, r, t) ==
    CASE line[1] = "stage"   -> line[2] \in StagesOf(r)
      [] line[1] = "network" -> r.announced # None
      [] line[1] = "diagnosis" ->
            /\ Label(r) = line[2][2]
            /\ IF line[2][1] = "search" THEN SearchStuck(r, t)
               ELSE AnnounceStuck(r, t)

Standing ==
    {l \in told : l[1] \in ListedIps /\ StillTrue(l[2], client[l[1]], now)}

-----------------------------------------------------------------------------
ReporterInit ==
    /\ Init
    /\ seen = [i \in {} |-> NothingSeen]
    /\ told = {}

\* A tick of the report task's interval.
Report ==
    /\ seen' = [i \in ListedIps |-> SeenOf(client[i])]
    /\ told' = Standing \cup Printed
    /\ UNCHANGED vars

ReporterNext ==
    \/ Next /\ UNCHANGED <<seen, told>>
    \/ Report

ReporterSpec == ReporterInit /\ [][ReporterNext]_reporterVars

(* The interval keeps ticking; clients and time are the environment's.     *)
FairReporterSpec == ReporterSpec /\ WF_reporterVars(Report)

-----------------------------------------------------------------------------
(* "Each stage and each diagnosis is announced once" (report.rs:18-19): no *)
(* line is printed again when every report since has found it true.        *)
NothingToldTwice ==
    [][Report => Printed \cap Standing = {}]_reporterVars

(* The same of the stages, the advertisement and the stuck search, "one    *)
(* steady diagnosis", for which it holds: across agents that change the    *)
(* label, advertisements and searches in any order.                        *)
SearchToldOnce ==
    [][Report => \A l \in Printed \cap Standing :
            l[2][1] = "diagnosis" /\ l[2][2][1] = "announce"]_reporterVars

(* A client that is stuck is reported, under its current label, unless it  *)
(* connects, gives up or is evicted first.                                 *)
StuckIsTold ==
    \A i \in Ip : \A platform \in {"", "tvOS"} :
        LET d == <<"search", <<"", platform>>>>
            stuck == i \in Known /\ d \in Diagnosis(client[i], now)
        IN  stuck ~> (<<i, <<"diagnosis", d>>>> \in told \/ ~stuck)

=============================================================================
