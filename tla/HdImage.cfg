\* Primary, extended and logical partitions; overlapping data, holes and all
\* types of table.
SPECIFICATION Spec
CONSTANT Configs <- DiskConfigs
INVARIANTS
    OverwritesOnlyHoles
    ExtendedCovers
    FileSizeExact
    GptRangeUsable
    MbrRead
    GptRead
    AutoOffsetComesAfter
CHECK_DEADLOCK FALSE
