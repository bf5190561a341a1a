\* A bool[<=16] field (BitArray<2>) at offsets 0 (aligned) and 1, followed
\* by a one-bit field.
CONSTANTS
    MaxLen = 16
    MaxOffset = 1
SPECIFICATION Spec
INVARIANT
    RoundTrip
