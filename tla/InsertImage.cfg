\* Inputs with holes, ranges and padding of all kinds.
SPECIFICATION Spec
CONSTANTS
    Calls <- SomeCalls
    Files = {0, 3, 8}
    Buf = 2
INVARIANTS
    OnlyRange
    RangeUpdated
    HolesAsAsked
PROPERTY Terminates
CHECK_DEADLOCK FALSE
