SPECIFICATION FairSpec
CONSTANTS
    alice = alice
    chat = chat
    NoAccount = NoAccount
    Typo = Typo
    Accounts = {alice}
    Chats = {chat}
    Failures = {"start", "open", "chats"}
    Panics = {"batch", "replay"}
    MaxInputs = 4
CHECK_DEADLOCK FALSE
INVARIANTS ShownIsSaved LoggedOutStaysOut QuietScreenIsTrue
PROPERTIES SurvivesPanic BootEnds LoginIsShown
