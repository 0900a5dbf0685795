SPECIFICATION TelemetrySpec
CONSTANTS
    Hook = {h1, h2}
    Value = {1, 4}
    MinSessions = 10
    SigmaTwice = 4
    NoBaseline = NoBaseline
    MaxSamples = 18
    MaxLost = 1
    Overlap = TRUE
    Call <- Calls
    TueWindow = 2
    CallsKept = 3
    LowInARow = 3
    RecentLimit = 5
    MaxScores = 6
    MaxMeetings = 3
INVARIANTS TelemetryTypeOK BaselineOfSamples OutlierCapped
PROPERTIES DegradedAfterTwo BreachByQuality
CHECK_DEADLOCK FALSE
