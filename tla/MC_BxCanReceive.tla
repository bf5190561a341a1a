--------------------------- MODULE MC_BxCanReceive ---------------------------
(* Model values for BxCanReceive: two ports, interchangeable.               *)
EXTENDS BxCanReceive, TLC

CONSTANTS p1, p2

MCPorts == {p1, p2}
PortSymmetry == Permutations(MCPorts)

=============================================================================
