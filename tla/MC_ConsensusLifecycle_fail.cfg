\* Two Shutdown callers when raft.Snapshot or raft.Shutdown can fail.
CONSTANTS
    s1 = s1
    s2 = s2
    ShutdownCalls <- MCShutdownCalls
    SnapshotFaults = TRUE
SPECIFICATION Spec
INVARIANT NoPanic
\* The component stops for good after Shutdown (or stays idle).
CHECK_DEADLOCK FALSE
