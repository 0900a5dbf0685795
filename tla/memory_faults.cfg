SPECIFICATION Spec
CONSTANTS
    Write = {w1, w2}
    MaxArchived = 2
    Failures = TRUE
    SizeChecked = FALSE
SYMMETRY WriteSymmetry
CHECK_DEADLOCK FALSE
INVARIANTS TypeOK StoredJudged ArchivedOnce
PROPERTIES EntryKept
