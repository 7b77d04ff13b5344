CONSTANTS
    Ip = {p1}
    MaxClients = 1
    StuckAfter = 1
    SearchGrace = 2
    BeforeBoot = TRUE
    Window = 2
    Lag = 1
    MaxTime = 5
    Device <- Unnamed
    Asked = {"Found", "Streamed"}
SPECIFICATION Spec
INVARIANTS OnlySpritzDiagnosed DiagnosedNeverConnected StuckSearchDiagnosed
PROPERTIES SteadyDiagnosis DetailedAgentKept
CHECK_DEADLOCK FALSE
