SPECIFICATION Spec
CONSTANTS
    d1 = d1
    s1 = s1
    MaxMessages = 1
    Peers = {d1}
    Siblings = {s1}
    Ready = {}
    Errors = {}
    Disruptions = {}
INVARIANT UnrosteredIsQueued
