\* Sync and Recover of a CID pinned on the daemon outside the cluster.
CONSTANTS
    c1 = c1
    c2 = c2
    p1 = p1
    p2 = p2
    h1 = h1
    NoCid = NoCid
    Cids <- MCCids
    Peers <- MCPeers
    Self = p1
    Handlers <- MCHandlers
    PinQueueSize = 1
    MaxCalls = 4
    DaemonFaults = FALSE
    ExternalChanges = TRUE

SPECIFICATION Spec

PROPERTY UntrackedContentKept

\* An idle tracker whose callers are done really stops.
CHECK_DEADLOCK FALSE
