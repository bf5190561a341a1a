\* Two ports, a FIFO of two frames (three in the hardware) so that an
\* overrun is reached with few arrivals, and five frames from the bus.
CONSTANTS
    p1 = p1
    p2 = p2
    Ports <- MCPorts
    FifoDepth = 2
    MaxArrivals = 5
SPECIFICATION Spec
SYMMETRY PortSymmetry
INVARIANTS
    DeliveredInOrder
    SubscribedAdmitted
