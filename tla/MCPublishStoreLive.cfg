SPECIFICATION PartSpec
CONSTANTS
    invite1 = invite1
    invite2 = invite2
    text = text
    Events = {invite1, text}
    Messages = {text}
    Class <- MCClass
    NoClass = NoClass
    Stamp <- MCStamp
    Rejected = {invite1}
    Workers = {w1, w2}
    Tokens = {t1, t2}
    NoToken = NoToken
    BatchSize = 2
    Concurrency = 1
    Failures = {"delete"}
    Disruptions = {"suspend", "crash"}
    a1 = a1
    a2 = a2
    b1 = b1
    alice = alice
    bob = bob
    Rows = {a1, a2, b1}
    ChatOf <- MCChatOf
    Local = {a2}
    Expiring = {a1}
    Copies = 2
    MaxSeen = 1
    MaxFaults = 1
    MaxEdits = 3
    dev1 = dev1
    dev2 = dev2
    msg1 = msg1
    msg2 = msg2
    out1 = out1
    Peers = {dev1, dev2}
    Incoming = {msg1, msg2}
    Own = {out1}
    PeerOf <- MCPeerOf
    Hearings = {1, 2}
    MaxStops = 1
INVARIANT InflightIsWorked
INVARIANTS HostsAgree
PROPERTIES EventuallyPublished SaveWritesAll
