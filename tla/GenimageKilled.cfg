\* A command of the handler of image a is killed by a signal.
SPECIFICATION Spec
CONSTANTS
    a = a
    b = b
    c = c
    d = d
    Main = Main
    Image = {a, b, c, d}
    Configs <- SomeGraphs
    Conflicting = {c}
    Device = {b}
    Killable = {a}
    MaxRuns = 1
INVARIANT SuccessAlwaysMeansBuilt
CHECK_DEADLOCK FALSE
