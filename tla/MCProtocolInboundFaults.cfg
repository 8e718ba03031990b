SPECIFICATION FairSpec
CONSTANTS
    text = text
    reaction = reaction
    alice = alice
    bob = bob
    Events = {text, reaction}
    Senders = {alice, bob}
    Sender <- MCSender
    Rows = {text}
    Broken = {}
    Refusals = {"none", "error"}
    Failures = {"flush", "save", "ack"}
    Disruptions = {"crash"}
INVARIANT DecryptedIsKept
INVARIANT WaitingIsUnseen
PROPERTY EventuallyShown
