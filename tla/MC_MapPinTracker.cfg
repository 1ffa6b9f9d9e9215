\* Safety and progress of the tracker with daemon faults, external daemon use and every
\* interleaving of callers, workers and one blocked RPC goroutine.
CONSTANTS
    c1 = c1
    c2 = c2
    p1 = p1
    p2 = p2
    h1 = h1
    NoCid = NoCid
    Cids <- MCCids
    Peers <- MCPeers
    Self = p1
    Handlers <- MCHandlers
    PinQueueSize = 1
    MaxCalls = 4
    DaemonFaults = TRUE
    ExternalChanges = TRUE

SPECIFICATION Spec

INVARIANT InProgressHasPendingWork
PROPERTY TrackerPinsOnlyRequested
PROPERTY Settles
PROPERTY WorkersExit

\* An idle tracker whose callers are done really stops.
CHECK_DEADLOCK FALSE
