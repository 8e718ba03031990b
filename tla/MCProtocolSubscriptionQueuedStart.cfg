SPECIFICATION Spec
CONSTANTS
    r1 = r1
    p1 = p1
    p2 = p2
    NoPlan = NoPlan
    Relays <- OneRelay
    Plans <- OnePlan
    MaxToken = 2
    MaxApplies = 1
    MaxConnects = 1
    MaxNews = 1
    Waiting = {"batch"}
    Disruptions = {"queued"}
INVARIANT WakeupArmed
