\* One to three partitions on flashes of different sizes.
SPECIFICATION Spec
CONSTANT Configs <- FlashConfigs
INVARIANTS
    WrittenOnce
    OnFlash
CHECK_DEADLOCK FALSE
