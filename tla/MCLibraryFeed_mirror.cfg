CONSTANTS
    Sid = {s1}
    Renderer = {s1}
    Caller = {c1}
    Cap = 2
    Ttl = {1}
    SeqMax = 1
    IdModulus = 6
    MaxTime = 1
    MaxChanges = 2
SPECIFICATION FeedSpec
INVARIANTS TypeOK SeqZeroOnlyInitial
PROPERTIES LapsedStaysLapsed TrackedEventuallyTold MirrorsTheLibrary
