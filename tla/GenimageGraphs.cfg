\* Every configuration of three images, one run of genimage.
SPECIFICATION FairSpec
CONSTANTS
    a = a
    b = b
    c = c
    d = d
    Main = Main
    Image = {a, b, c}
    Configs <- AllGraphs
    Conflicting = {}
    Device = {}
    Killable = {}
    MaxRuns = 1
INVARIANTS
    TypeOK
    DependenciesFirst
    SetupBeforeGenerate
    RecursionIsReal
    CycleNeverBuilt
PROPERTIES
    Terminates
    ImplementsBuildOrder
CHECK_DEADLOCK FALSE
