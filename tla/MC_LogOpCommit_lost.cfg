\* A reliable raft, a transport that can lose a reply or give up waiting.
CONSTANTS
    p1 = p1
    p2 = p2
    p3 = p3
    c1 = c1
    f1 = f1
    f2 = f2
    f3 = f3
    i1 = i1
    i2 = i2
    NoPeer = NoPeer
    NoFrame = NoFrame
    NoCall = NoCall
    Peers <- MCPeers
    NewPeers <- MCNewPeers
    Cids <- MCCids
    FrameIds <- MCFrameIds
    CallIds <- MCOneCall
    OpTypes <- MCCidOps
    CommitRetries = 2
    MaxElections = 2
    RaftFaults = FALSE
    RpcFaults = TRUE

SPECIFICATION Spec
INVARIANT ErrMeansNotCommitted
\* Once every call has returned nothing is left to do.
CHECK_DEADLOCK FALSE
