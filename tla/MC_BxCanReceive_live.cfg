\* Liveness under weak fairness of the receive loop: two ports, a FIFO of
\* two frames, four frames from the bus.  No symmetry: it is not sound with
\* liveness checking.
CONSTANTS
    p1 = p1
    p2 = p2
    Ports <- MCPorts
    FifoDepth = 2
    MaxArrivals = 4
SPECIFICATION LiveSpec
PROPERTY
    ReceiveReturns
\* The driver is passive: with the bus done and no call pending, nothing
\* happens.
CHECK_DEADLOCK FALSE
