SPECIFICATION ClipsSpec
CONSTANTS
    V2Events = {}
    LogEvents = {1}
    Sources = {s1, s2}
    NoSource = NoSource  NoJob = NoJob  NoClip = NoClip  NoCall = NoCall
    MaxDelay = 1
    PollInterval = 1
    MaxBackoff = 1
    BackoffSteps <- ShortBackoff
    HttpTimeout = 1
    QueueLimit = 1
    MaxAttempts = 2
    Watched = {1}
    Restarts = TRUE
    Refusals = TRUE
    Owners = {o}
    Requests = {q1, q2}
    Windows = {w1, w2}
    Closed = {w1}
    MediaSources = {m1, m2}
    InitialSource = m1
    NoMedia = NoMedia
    MaxJobs = 2
    MaxExtractions = 2
INVARIANTS RequestsAreKept
PROPERTIES ClipIdentityKept NoNeedlessClip
SYMMETRY NameSymmetry
CHECK_DEADLOCK FALSE
