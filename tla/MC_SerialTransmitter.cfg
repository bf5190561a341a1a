\* Blocks of 2 data bytes stand for the code's 254, so that full blocks,
\* zeros and the last block all occur in frames of 1 to 3 bytes.
CONSTANTS
    BlockLen = 2
    Capacity = 12
    Overhead = 1
    MaxPayload = 2
    MaxTransfers = 3
SPECIFICATION Spec
INVARIANTS
    TypeOK
    NoPanic
    StreamIsFramedTransfers
    ReceiverRecoversTransfers
