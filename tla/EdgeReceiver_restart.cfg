SPECIFICATION Spec
CONSTANTS
    None = None
    Handlers = {h1, h2}
    MaxTries = 3
    MaxIds = 4
    Messages <- Restarted
    Compact = TRUE
    Torn = FALSE
SYMMETRY HandlerSymmetry
INVARIANTS LatestIsNewest FilterOfOneInstance TransitionsChain SnapshotAnswered
