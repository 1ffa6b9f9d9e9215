\* Both components with two Shutdown callers and a raft that shuts down cleanly.
CONSTANTS
    s1 = s1
    s2 = s2
    r1 = r1
    r2 = r2
    ShutdownCalls <- MCShutdownCalls
    Requests <- MCRequests
    ServeFaults = FALSE
    SnapshotFaults = FALSE
SPECIFICATION Spec
INVARIANT NoPanic
PROPERTY RestShutdownReturns RequestsReturn
\* Both components stop for good after Shutdown (or stay idle).
CHECK_DEADLOCK FALSE
