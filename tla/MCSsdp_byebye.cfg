CONSTANTS
    Families <- TwoSockets
    Targets <- TwoTargets
    Copies = 1
    Rounds = 3
    MaxInFlight = 1
    Peer = {"tv", "tv6"}
    FamilyOf <- PeerSocket
    Search = {"all", "one", "other"}
    SourceOf <- SearchSource
    Wanted <- SearchWants
    MaxBursts = 2
    MaxLost = 1
SPECIFICATION FairSpec
INVARIANTS RepliesBounded ByebyeIsLastWord
PROPERTIES NoAliveOnceStopped SlotsComeBack
CHECK_DEADLOCK FALSE
