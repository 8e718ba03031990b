SPECIFICATION FairSpec
CONSTANTS
    k1 = k1
    k2 = k2
    early = early
    plain = plain
    hidden = hidden
    alice = alice
    Messages = {early, plain, hidden}
    Keys = {k1, k2}
    Senders = {alice}
    Owner <- MCOwner
    KeyOf <- MCKeyOf
    Time <- MCTime
    Hidden = {hidden}
    Late = {}
    Content <- MCContent
    Given = {k1, k2}
    Copied = {plain, hidden}
    Revisions = 2
    MemberUntil = 1
    Anywhere = Anywhere
    NoMessage = NoMessage
    LongBatches = FALSE
    MaxFaults = 1
    Kinds = {"crash", "ask", "loss", "copy"}
    OtherWork = TRUE
INVARIANT TypeOK
INVARIANT TextsAreKept
INVARIANT WaitingIsAsked
PROPERTY EventuallyServed
PROPERTY LeftIsQuiet
