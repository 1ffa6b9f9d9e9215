-------------------------- MODULE MC_LogOpCommit --------------------------
(* Instantiation of LogOpCommit for TLC: two consensus peers, one CID and *)
(* one peer to add or remove, handler goroutines and calls as model       *)
(* values.  Frames and calls are interchangeable slots, so safety runs    *)
(* use symmetry over both.                                                *)
EXTENDS LogOpCommit, TLC
CONSTANTS p1, p2, p3, c1, f1, f2, f3, i1, i2
MCPeers    == {p1, p2}
MCNewPeers == {p3}
MCCids     == {c1}
MCFrameIds == {f1, f2, f3}
MCCallIds  == {i1, i2}
MCCidOps   == {"pin", "unpin"}
MCPeerOps  == {"addPeer", "rmPeer"}
MCAllOps   == MCCidOps \cup MCPeerOps
MCOneCall  == {i1}
Symmetry   == Permutations(MCFrameIds) \cup Permutations(MCCallIds)
=============================================================================
