\* The refinement run: two ports, a FIFO of two frames (an overrun is
\* reached), four frames from the bus.
CONSTANTS
    p1 = p1
    p2 = p2
    Ports <- MCPorts
    FifoDepth = 2
    MaxArrivals = 4
SPECIFICATION Spec
SYMMETRY PortSymmetry
PROPERTY
    ImplementsChannel
