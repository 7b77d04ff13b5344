SPECIFICATION Spec
CONSTANTS
    Sid = {s1, s2}
    Caller = {c1, c2}
    Cap = 1
    Ttl = {1, 2}
    SeqMax = 9
    IdModulus = 9
    MaxTime = 2
    MaxChanges = 2
SYMMETRY Symmetry
INVARIANTS TablesBounded TrackedNeverMissChange SeqGapless
PROPERTIES NoneIssuedAfterUnsubscribe EventsCarryNewerIds
