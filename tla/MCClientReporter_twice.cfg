CONSTANTS
    Ip = {p1}
    MaxClients = 1
    StuckAfter = 1
    SearchGrace = 1
    BeforeBoot = TRUE
    Window = 1
    Lag = 0
    MaxTime = 4
    Device <- Unnamed
    Asked = {"Browsed"}
SPECIFICATION ReporterSpec
PROPERTIES NothingToldTwice
CHECK_DEADLOCK FALSE
