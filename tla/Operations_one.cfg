SPECIFICATION Spec
CONSTANTS
    Pits = {p1}
    Sources = {s1}
    NoSource = NoSource
    NoRow = NoRow
    NoRead = NoRead
    Revisions = {r1}
    Instances = {x1}
    Levels = {80, 87, 95}
    Policies <- TwoPolicies
    TTL = 3
    Window = 2
    Confirm = 1
    Cooldown = 2
    Compact = TRUE
    MaxPending = 3
    Margin = 5
    DefaultCritical = 90
    Torn = TRUE
    MaxTime = 4
    MaxInputs = 4
    MaxLag = 2
INVARIANT OpenEpisodeIsCritical
PROPERTIES ConfirmedBeforeCritical DangerKeptByDevice
