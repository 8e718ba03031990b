SPECIFICATION PartSpec
CONSTANTS
    d1 = d1
    s1 = s1
    MaxMessages = 1
    Peers = {d1}
    Siblings = {s1}
    Ready = {}
    Errors = {"prepare", "later"}
    Disruptions = {"crash"}
    hello = hello
    question = question
    answer = answer
    note = note
    Theirs = {hello, question}
    Mine = {answer}
    Linked = {note}
    Written <- MCWritten
    Expiry <- MCExpiry
    Twice = {question}
    ReadThere = {hello}
    LongEvents = FALSE
    LastSecond = 1
    MaxInputs = 3
    MaxEnds = 1
INVARIANTS SentIsReached OneCopyEach
INVARIANTS TimersArmed UnreadIsShown ReceiptsAreDue
PROPERTIES PendingUntilGiven EventuallyGiven
PROPERTIES StatusRises TimersServe
