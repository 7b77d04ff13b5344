CONSTANTS
    Families <- OneSocket
    Targets <- TwoTargets
    Copies = 1
    Rounds = 3
    MaxInFlight = 1
    Peer = {"tv"}
    FamilyOf <- OnePeerSocket
    Search = {"all", "one", "other"}
    SourceOf <- SearchSource
    Wanted <- SearchWants
    MaxBursts = 1
    MaxLost = 0
SPECIFICATION Spec
INVARIANTS ClientsDropIt
CHECK_DEADLOCK FALSE
