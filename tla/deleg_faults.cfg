SPECIFICATION Spec
CONSTANTS
    Agent = {"conductor", "coder", "tester", "unknown"}
    Tool = {"Task", "Edit", "Forget", "Deploy", "Read"}
    Exempt = {"Read"}
    Elevated = {"Forget"}
    Standard = {"Task", "Edit"}
    Human = {"alice", "bob"}
    NoHuman = NoHuman
    NoManifest = NoManifest
    Hook = {h1, h2}
    Conductor = "conductor"
    Unknown = "unknown"
    Static <- Known
    MaxRunning = 2
    MaxLevel = 1
    MaxGranted = 3
    Overlap = TRUE
    SameAgentTwice = TRUE
    Expiry = TRUE
    MaxOutages = 0
    Failures = TRUE
INVARIANT OvershootBounded
SYMMETRY Symmetry
CHECK_DEADLOCK FALSE
