SPECIFICATION Spec
CONSTANTS
    r1 = r1
    p1 = p1
    p2 = p2
    NoPlan = NoPlan
    Relays <- OneRelay
    Plans <- TwoPlans
    MaxToken = 2
    MaxApplies = 2
    MaxConnects = 1
    MaxNews = 0
    Waiting = {"batch"}
    Disruptions = {"suspend", "slow", "edit", "logout"}
SYMMETRY PlanSymmetry
INVARIANT TypeOK
INVARIANT WakeupArmed
INVARIANT InFlightIsServed
PROPERTY DeferredIsRemembered
