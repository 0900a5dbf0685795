SPECIFICATION Spec
CONSTANTS
    Agent = {"conductor", "coder", "tester", "unknown"}
    Tool = {"Task", "Edit", "Forget", "Deploy", "Read"}
    Exempt = {"Read"}
    Elevated = {"Forget"}
    Standard = {"Task", "Edit"}
    Human = {"alice", "bob"}
    NoHuman = NoHuman
    NoManifest = NoManifest
    Hook = {h1, h2}
    Conductor = "conductor"
    Unknown = "unknown"
    Static <- Known
    MaxRunning = 1
    MaxLevel = 3
    MaxGranted = 1
    Overlap = TRUE
    SameAgentTwice = FALSE
    Expiry = FALSE
    MaxOutages = 1
    Failures = TRUE
INVARIANTS TypeOK CeilingInherited GateInherited
SYMMETRY Symmetry
CHECK_DEADLOCK FALSE
