CONSTANTS
    Ip = {p1, p2}
    MaxClients = 1
    StuckAfter = 1
    SearchGrace = 1
    BeforeBoot = FALSE
    Window = 1
    Lag = 0
    MaxTime = 2
    Device <- Unnamed
    Asked = {"Browsed"}
SPECIFICATION FairReporterSpec
INVARIANTS RecordsBounded
PROPERTIES SearchToldOnce StuckIsTold
CHECK_DEADLOCK FALSE
