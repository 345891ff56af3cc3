\* Two arguments, one environment variable, two configuration files.
SPECIFICATION OptionsSpec
CONSTANTS
    config = config
    includepath = includepath
    rootpath = rootpath
    randomseed = randomseed
    help = help
    invalid = invalid
    empty = empty
    x = x
    y = y
    none = none
    Option = {config, includepath, rootpath, randomseed}
    Config = config
    Include = includepath
    Root = rootpath
    InFile = {includepath, rootpath, randomseed}
    Value = {x, y, empty}
    None = none
    Empty = empty
    Default <- Defaults
    Help = help
    Invalid = invalid
    Envs <- OneEnv
    Argvs <- UpToTwo
    Disks <- SomeDisks
INVARIANTS
    Priority
    UsedIsFinal
CHECK_DEADLOCK FALSE
