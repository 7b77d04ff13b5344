SPECIFICATION Spec
CONSTANTS
    Sid = {s1, s2}
    Caller = {c1}
    Cap = 2
    Ttl = {1}
    SeqMax = 9
    IdModulus = 9
    MaxTime = 1
    MaxChanges = 2
INVARIANT EveryLiveSubscriberNotified
