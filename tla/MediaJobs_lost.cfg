SPECIFICATION Spec
CONSTANTS
    V2Events = {1}
    LogEvents = {}
    Sources = {s1}
    NoSource = NoSource  NoJob = NoJob  NoClip = NoClip  NoCall = NoCall
    MaxDelay = 1
    PollInterval = 1
    MaxBackoff = 1
    BackoffSteps <- ShortBackoff
    HttpTimeout = 1
    QueueLimit = 1
    MaxAttempts = 2
    Watched = {1}
    Restarts = TRUE
    Refusals = FALSE
INVARIANT LostAnswerRecovered
