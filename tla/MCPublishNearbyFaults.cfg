SPECIFICATION PartSpec
CONSTANTS
    invite1 = invite1
    invite2 = invite2
    text = text
    Events = {invite1, invite2}
    Messages = {text}
    Class <- MCClass
    NoClass = NoClass
    Stamp <- MCStamp
    Rejected = {}
    Workers = {w1, w2}
    Tokens = {t1, t2}
    NoToken = NoToken
    BatchSize = 2
    Concurrency = 1
    Failures = {"upsert", "delete", "load"}
    Disruptions = {"crash", "suspend", "logout", "norelays"}
    home = home
    middle = middle
    far = far
    ev1 = ev1
    ev2 = ev2
    Services = {home, middle, far}
    Records = {ev1, ev2}
    Large = {}
    Dials <- MCDials
    AtStart <- MCAtStart
    AuthorOf <- MCAuthorOf
    StampOf <- MCStampOf
    NoMailbag = {}
    Restarting = {far}
    MaxBag = 1
    MaxOffers = 1
    MaxBusy = 0
    MaxMishaps = 1
INVARIANTS QueueIsDurable NothingLost NeighboursAgree
PROPERTY ImplementsOutbox
