CONSTANTS
    Device = {""}
    Ip = {p1, p2}
    MaxClients = 2
    StuckAfter = 1
    SearchGrace = 1
    BeforeBoot = TRUE
    Window = 1
    Instance = {a}
    Interface = {if1, if2}
SPECIFICATION Spec
PROPERTIES LaterAppearanceRetries
