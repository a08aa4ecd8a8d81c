SPECIFICATION DashboardSpec
CONSTANTS
    Pits = {p1}
    Sources = {s1, s2}
    NoSource = NoSource
    NoRow = NoRow
    NoRead = NoRead
    Revisions = {r1}
    Instances = {x1}
    Levels = {80, 95}
    Policies <- TwoPolicies
    TTL = 2
    Window = 2
    Confirm = 1
    Cooldown = 2
    Compact = FALSE
    MaxPending = 3
    Margin = 5
    DefaultCritical = 90
    Torn = TRUE
    MaxTime = 2
    MaxInputs = 2
    MaxLag = 0
    PageReaders = {o1, o2}
    Follower = o1
    ListedEvents = {e1, e2, e3}
    PageSize = 2
    MaxItems = 3
    PageTTL = 1
    MaxEntries = 3
    MaxOwnerEntries = 2
    MaxBytes = 5
    MaxBuilds = 1
    ItemBytes = 1
    ListBytes = 1
    NoBuild = NoBuild
    NoWalk = NoWalk
    Senders = {s1, s2}
    Metrics <- SomeMetrics
    NoId = NoId
    InvalidLevel = InvalidLevel
    Limits <- SomeLimits
    HysteresisMargin = 2
    AlertCooldown = 1
    NoMetric = NoMetric
    Untaken = Untaken
    MaxMetricTime = 2
    Streams = {v}
    Sockets = {w}
    Frames = {f1, f2, f3}
    EarlyFrames = {f3}
    NoFrame = NoFrame
    QueueSize = 1
INVARIANTS CooldownKept ResolutionIsEvidence PagesAreServed LegacyMetricsAreSound
    BroadcastsArrive
PROPERTIES EpisodesImplemented
SYMMETRY NameSymmetry
CHECK_DEADLOCK FALSE
