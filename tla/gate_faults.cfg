SPECIFICATION Spec
CONSTANTS
    Call = {"c1", "c2", "c3"}
    Tool = {"Bash", "Edit"}
    ToolOf <- TwoTools
    NoGate = NoGate
    MaxSessions = 2
    Parallel = TRUE
    Overlap = TRUE
    Drops = TRUE
    Crashes = TRUE
INVARIANTS TypeOK ResponseAfterGate
CHECK_DEADLOCK FALSE
