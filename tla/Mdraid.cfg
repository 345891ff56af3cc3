\* Arrays of up to four members, two arrays at once, chains of parents.
SPECIFICATION Spec
CONSTANT Configs <- SomeConfigs
INVARIANTS
    MembersAgree
    AutoRolesDistinct
    DataInArray
CHECK_DEADLOCK FALSE
