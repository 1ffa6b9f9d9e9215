\* LogPin, LogUnpin, LogAddPeer and LogRmPeer through the retry/redirect loop
\* against raft faults (commit errors before or after the append) and one
\* change of leader.
CONSTANTS
    p1 = p1
    p2 = p2
    p3 = p3
    c1 = c1
    f1 = f1
    f2 = f2
    f3 = f3
    i1 = i1
    i2 = i2
    NoPeer = NoPeer
    NoFrame = NoFrame
    NoCall = NoCall
    Peers <- MCPeers
    NewPeers <- MCNewPeers
    Cids <- MCCids
    FrameIds <- MCFrameIds
    CallIds <- MCCallIds
    OpTypes <- MCAllOps
    CommitRetries = 2
    MaxElections = 1
    RaftFaults = TRUE
    RpcFaults = FALSE
SYMMETRY Symmetry
SPECIFICATION Spec
INVARIANT TypeOK
PROPERTY ImplementsOpLog
\* Once both calls have returned nothing is left to do.
CHECK_DEADLOCK FALSE
