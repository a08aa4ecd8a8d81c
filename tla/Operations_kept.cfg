SPECIFICATION Spec
CONSTANTS
    Pits = {p1}
    Sources = {s1, s2}
    NoSource = NoSource
    NoRow = NoRow
    NoRead = NoRead
    Revisions = {r1}
    Instances = {x1}
    Levels = {87, 95}
    Policies <- OnePolicy
    TTL = 3
    Window = 2
    Confirm = 1
    Cooldown = 2
    Compact = FALSE
    MaxPending = 3
    Margin = 5
    DefaultCritical = 90
    Torn = FALSE
    MaxTime = 2
    MaxInputs = 2
    MaxLag = 0
PROPERTY DangerKept
