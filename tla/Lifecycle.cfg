CONSTANTS
    Quotes = {q1}
    Close = Close
    Suppresses = TRUE
SPECIFICATION FairSpec
INVARIANTS QuietAfterKill ClosedOnce ShutdownLeavesNoQuotes
PROPERTIES KillEndsBot PauseClears ConfirmedKills
