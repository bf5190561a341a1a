\* bool[<=8]: one byte of storage: lengths 0 to 8, padding from 0 to 8 bits, the
\* full-array fast path of serialize(), and offsets 0 (aligned) and 1.
CONSTANTS
    MaxLen = 8
    MaxOffset = 1
SPECIFICATION Spec
INVARIANTS
    CompareIsShortlex
    EqAgreesWithCmp
