\* One Shutdown call, which may fail in raft.Snapshot or raft.Shutdown.
CONSTANTS
    s1 = s1
    s2 = s2
    r1 = r1
    r2 = r2
    ShutdownCalls <- MCOneShutdown
    Requests <- MCRequests
    ServeFaults = TRUE
    SnapshotFaults = TRUE
SPECIFICATION Spec
PROPERTY ShutdownStops ReadyUnlessTimedOut ShutdownAnswersRequests
\* Both components stop for good after Shutdown (or stay idle).
CHECK_DEADLOCK FALSE
