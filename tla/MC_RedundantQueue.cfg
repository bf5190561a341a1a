\* Queue 0 holds two frames, queue 1 three: a two-frame transfer can fit
\* on one queue only, and a full queue next to one with room occurs.
CONSTANTS
    Cap <- MCCap
    MaxFrames = 2
    MaxTransfers = 4
SPECIFICATION Spec
INVARIANTS
    TypeOK
    WholeTransfersOnEachLink
\* After the last of the MaxTransfers transfers and the last pop there is
\* nothing left to do: the end of the bounded run, not a blocked sink.
CHECK_DEADLOCK FALSE
