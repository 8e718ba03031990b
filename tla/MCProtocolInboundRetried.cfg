SPECIFICATION Spec
CONSTANTS
    text = text
    reaction = reaction
    alice = alice
    bob = bob
    Events = {text, reaction}
    Senders = {alice, bob}
    Sender <- MCSender
    Rows = {text}
    Broken = {}
    Refusals = {"none"}
    Failures = {}
    Disruptions = {"crash"}
INVARIANT EverythingDecryptedIsKept
