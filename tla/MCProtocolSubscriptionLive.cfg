SPECIFICATION FairSpec
CONSTANTS
    r1 = r1
    p1 = p1
    p2 = p2
    NoPlan = NoPlan
    Relays <- OneRelay
    Plans <- OnePlan
    MaxToken = 2
    MaxApplies = 2
    MaxConnects = 1
    MaxNews = 1
    Waiting = {"batch"}
    Disruptions = {"suspend", "lag"}
PROPERTY StatusConverges
PROPERTY EventuallyHeld
PROPERTY SyncingEnds
