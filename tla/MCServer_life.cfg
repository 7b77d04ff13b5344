CONSTANTS
    MaxSecs = 1000000
    MaxMoov = 10
    MaxFmt = 40
    MaxInfo = 64
    Prefix = 4
    Nets <- Networks
    Hosts <- Computers
    Senders <- AllSenders
    Threads = 2
SPECIFICATION Spec
INVARIANTS SearchersCanConnect WhatIsAdvertisedIsTrue
PROPERTIES ProblemsToldOnce ProbesFilled CleanExit
CHECK_DEADLOCK FALSE
