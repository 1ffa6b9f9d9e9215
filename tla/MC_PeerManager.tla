--------------------------- MODULE MC_PeerManager ---------------------------
(* Instantiation of PeerManager: this peer, two others, and one or two    *)
(* RPC goroutines running handlers.                                       *)
EXTENDS PeerManager
CONSTANTS self, q1, q2, h1, h2
MCOthers      == {q1, q2}
MCOneHandler  == {h1}
MCTwoHandlers == {h1, h2}
=============================================================================
