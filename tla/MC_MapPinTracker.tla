------------------------- MODULE MC_MapPinTracker -------------------------
(* Instantiation of MapPinTracker for TLC: two CIDs, two peers (this one   *)
(* and another), one RPC goroutine that can be blocked in a daemon call.   *)
EXTENDS MapPinTracker

CONSTANTS c1, c2, p1, p2, h1

MCCids     == {c1, c2}
MCPeers    == {p1, p2}
MCHandlers == {h1}
=============================================================================
