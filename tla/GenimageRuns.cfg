\* A few configurations, several runs one after the other on the same disk.
SPECIFICATION Spec
CONSTANTS
    a = a
    b = b
    c = c
    d = d
    Main = Main
    Image = {a, b, c, d}
    Configs <- SomeGraphs
    Conflicting = {c}
    Device = {b}
    Killable = {a}
    MaxRuns = 3
INVARIANTS
    SuccessMeansBuilt
    NoPartialOutput
    TmpLeftClean
PROPERTIES
    ForeignTmpKept
CHECK_DEADLOCK FALSE
