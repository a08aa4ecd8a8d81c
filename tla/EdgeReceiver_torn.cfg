SPECIFICATION Spec
CONSTANTS
    None = None
    Handlers = {h1, h2}
    MaxTries = 3
    MaxIds = 3
    Messages <- TwoStatuses
    Compact = TRUE
    Torn = TRUE
INVARIANT SnapshotAnswered
