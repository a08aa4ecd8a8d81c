SPECIFICATION EvaluationSpec
CONSTANTS
    Heights <- SomeHeights
    Band = 2
    Drop = 4
    Steady = 2
    Confirm = 2
    Settle = 2
    MaxGap = 2
    Scopes = {1, 2}
    MaxEpisodes = 2
    Sensors <- BothSensors
    Measurements <- SomeMeasurements
    Settings = {"s1", "s2"}
    Revisions = {"r1", "r2"}
    NoScan = NoScan
    NoHeight = NoHeight
    NoWindow = NoWindow
    NoMeasurement = NoMeasurement
    NoFill = NoFill
    NoRequest = NoRequest
    NoAnchor = NoAnchor
    TTL = 4
    MaxChanges = 1
    MaxReceived = 4
    Second = 2
    Size = 3
    MinuteTicks = 4
    MinuteCount = 2
    Inputs = {"EDGE_STATE", "HEIGHT_SECTIONS"}
    Samples <- SomeSamples
    LegacyRows <- SomeRows
    Spans <- SomeSpans
    MaxSwitches = 1
    NoValue = NoValue
    NoMinute = NoMinute
    NoTime = NoTime
    NoSummary = NoSummary
    NoGroup = NoGroup
    NoQuestion = NoQuestion
    Pits = {p1, p2}
    Reports <- SomeReports
    Readings <- SomeReadings
    NoReport = NoReport
    NoReading = NoReading
    NoRating = NoRating
    NoStarts = NoStarts
    NoView = NoView
    StatusTTL = 2
    Skew = 1
    AssessmentTTL = 2
    Recent = 1
    MaxReceipts = 2
    MaxLasted = 1
    MaxReading = 1
INVARIANTS NoDropIsMissed SettlementsPair HeightsAreSound HistoryIsOriginal
    AlarmsAreEvidenced
PROPERTIES DetectionsAreSustained OutagesAreNotQuiet EpisodesAreRemembered
CHECK_DEADLOCK FALSE
