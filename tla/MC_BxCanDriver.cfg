CONSTANTS
    f1 = f1
    f2 = f2
    f3 = f3
    f4 = f4
    Frames <- MCFrames
    None = None
    ClockModulus = 8
    MaxTime = 6
    MaxTimeout = 2

SPECIFICATION Spec
SYMMETRY FrameSymmetry

INVARIANT TypeOK
INVARIANT TrackerMatchesMailbox
INVARIANT FrameAccounting
INVARIANT StampIntact
PROPERTY AbortOnlyExpired

\* The driver is passive: it stops when its caller stops calling it.
CHECK_DEADLOCK FALSE
