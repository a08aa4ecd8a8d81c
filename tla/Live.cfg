SPECIFICATION LiveSpec
CONSTANTS
    V2Events = {1, 2}
    LogEvents = {}
    Sources = {s1}
    NoSource = NoSource  NoJob = NoJob  NoClip = NoClip  NoCall = NoCall
    MaxDelay = 1
    PollInterval = 1
    MaxBackoff = 1
    BackoffSteps <- ShortBackoff
    HttpTimeout = 1
    QueueLimit = 1
    MaxAttempts = 2
    Watched = {1}
    Restarts = FALSE
    Refusals = FALSE
    Readers = {c1, c2}
    Bindings = {b1, b2}
    Unknown = Unknown
    NoBinding = NoBinding
    Empty = Empty
    Assessments = {0, 1}
    Lease = 2
    RefreshTime = 1
    Trust = 1
    WallTimes = {0}
    MaxSteady = 1
    MaxSets = 1
    SessionIds = {c1, c2}
    ServerTags = {"v1", "v2"}
    NoTag = NoTag
    NoSession = NoSession
    MockFallback = TRUE
    SessionTTL = 1
    MaxPlayTime = 3
    MaxCalls = 2
INVARIANTS LostAnswerRecovered PlaybackIsRelayed
PROPERTIES FreshEventsQueued CameraIsHonest
SYMMETRY NameSymmetry
CHECK_DEADLOCK FALSE
