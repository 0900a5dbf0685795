SPECIFICATION Spec
CONSTANTS
    Actor = {a1, a2}
    MaxCreds = 2
    Tool = {read, write, bash}
    ReadOnlyTool = {read}
    Scope = {read, write}
    Concurrent = FALSE
    Failures = TRUE
INVARIANTS TypeOK VerifiedOnly
PROPERTIES TransitionsValid RestrictedUntilCleared AuthorizedIsMonitored
