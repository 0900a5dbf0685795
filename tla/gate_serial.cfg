SPECIFICATION FairSpec
CONSTANTS
    Call = {"c1", "c2", "c3"}
    Tool = {"Bash", "Edit"}
    ToolOf <- TwoTools
    NoGate = NoGate
    MaxSessions = 2
    Parallel = FALSE
    Overlap = FALSE
    Drops = TRUE
    Crashes = FALSE
INVARIANTS AnsweredOnce SessionIdKept SlotHoldsOpenGate
PROPERTY GateAnswered
CHECK_DEADLOCK FALSE
