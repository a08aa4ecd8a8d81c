SPECIFICATION FairSpec
CONSTANTS
    None = None
    Handlers = {h1, h2}
    MaxTries = 3
    MaxIds = 2
    Messages <- Conflicting
    Compact = FALSE
    Torn = TRUE
INVARIANTS AcksAreReceipts ReceiptsHaveArtifacts
PROPERTY DeliveriesEnd
