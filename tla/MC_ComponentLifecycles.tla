---------------------- MODULE MC_ComponentLifecycles ----------------------
(* Instantiation of ComponentLifecycles: two goroutines that call         *)
(* Shutdown (the cluster's Shutdown and the peer manager's self-removal)  *)
(* and two CLI requests.                                                  *)
EXTENDS ComponentLifecycles
CONSTANTS s1, s2, r1, r2
MCShutdownCalls == {s1, s2}
MCOneShutdown   == {s1}
MCRequests      == {r1, r2}
=============================================================================
