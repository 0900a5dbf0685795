SPECIFICATION SecSpec
CONSTANTS
    Session = {s1, s2, s3}
    NoSession = NoSession
    MaxTracked = 2
    RateThreshold = 2
    RepeatLength = 2
    WindowSize = 2
    MaxMade = 3
    Failures = TRUE
INVARIANTS SecTypeOK RestrictedBlocked AllowedIsClean EngineFaithful 
SYMMETRY Symmetry
