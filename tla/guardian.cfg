SPECIFICATION GuardSpec
CONSTANTS
    Actor = {hook, user}
    Guard = {hook}
    MaxCreds = 1
    Tool = {read, write, bash}
    ReadOnlyTool = {read}
    Scope = {read, write}
    Concurrent = FALSE
    Failures = TRUE
    ConfigLevel = "SEMI_AUTONOMOUS"
    MassActionLimit = 2
    MassActionWindow = 2
    MaxLog = 3
INVARIANTS GuardTypeOK LockdownOnExcess
PROPERTIES AutonomyRespected GuardRestrains ActsThroughIdentity
