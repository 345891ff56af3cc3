\* Three images, two flash sections.
SPECIFICATION TypesSpec
CONSTANTS
    a = a
    b = b
    c = c
    s = s
    t = t
    other = other
    none = none
    Image = {a, b, c}
    FlashName = {s, t, other, none}
    NoType = none
    Sections = {s, t}
    Lists <- AllLists
INVARIANTS
    OneFlash
    TypesAreNamed
CHECK_DEADLOCK FALSE
