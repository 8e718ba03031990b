SPECIFICATION FairSpec
CONSTANTS
    invite1 = invite1
    invite2 = invite2
    text = text
    Events = {invite1, text}
    Messages = {text}
    Class <- MCClass
    NoClass = NoClass
    Stamp <- MCStamp
    Rejected = {}
    Workers = {w1, w2}
    Tokens = {t1, t2}
    NoToken = NoToken
    BatchSize = 2
    Concurrency = 1
    Failures = {}
    Disruptions = {"norelays"}
PROPERTY EventuallyPublished
