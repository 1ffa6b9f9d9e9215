----------------------- MODULE MC_ConsensusLifecycle -----------------------
(* Instantiation of ConsensusLifecycle: two goroutines that call Shutdown, *)
(* as the cluster's Shutdown and the peer manager's self-removal do.     *)
EXTENDS ConsensusLifecycle
CONSTANTS s1, s2
MCShutdownCalls == {s1, s2}
MCOneShutdown   == {s1}
=============================================================================
