SPECIFICATION Spec
CONSTANTS
    Proc = {p1, p2}
    Event = {e1, e2, e3}
    QueueMax = 1
    MaxOutages = 2
    Overlap = TRUE
    Crashes = TRUE
    TornWrites = TRUE
    NoFile = NoFile
    Torn = Torn
SYMMETRY Symmetry
INVARIANTS TypeOK CarriersDistinct RecordedWhileDbUp
