SPECIFICATION Spec
CONSTANTS
    Write = {w1, w2}
    MaxArchived = 2
    Failures = FALSE
    SizeChecked = TRUE
SYMMETRY WriteSymmetry
CHECK_DEADLOCK FALSE
INVARIANTS VerifiedBeforeStored
