\* Files of up to three blocks with holes at any place.
SPECIFICATION Spec
CONSTANTS
    Inputs <- SomeInputs
    BlockSize = 3
    MaxRawBlocks = 2
INVARIANTS
    ExpandsToInput
    HeadersTrue
CHECK_DEADLOCK FALSE
