\* Every candidates map over three peers built from GetMetric's outputs
\* (pin counts 0..2, valid or not, expired or not), in every map order.
CONSTANTS
    p1 = p1
    p2 = p2
    p3 = p3
    Peers <- MCPeers
    MaxPins = 2
SPECIFICATION Spec
INVARIANT AllocateMatchesReference
\* One allocation is computed, then nothing is left to do.
CHECK_DEADLOCK FALSE
