---------------------------- MODULE PeerManager ----------------------------
(***************************************************************************)
(* peerManager.addPeer, rmPeer and addFromMultiaddrs (src/peer_manager.go),*)
(* each run by an RPC handler goroutine (PeerManagerAddPeer, RmPeer and   *)
(* AddFromMultiaddrs in src/api/rpc.go), so several can interleave, and   *)
(* the goroutine rmPeer(self) leaves behind to shut the peer down.        *)
(*                                                                         *)
(* A peer is known in four places: peerSet (guarded by peerSetMux), the   *)
(* libp2p peerstore addresses, the config's ClusterPeers (config.addPeer / *)
(* rmPeer / emptyPeers, not in src/, modelled as set insert / delete /    *)
(* clear) and the consensus transport membership (consensus.AddPeer /      *)
(* RemovePeer, not in src/, modelled as set insert / delete).  Each       *)
(* handler step below is one locked section or one unlocked call.          *)
(* Config.Save only writes the config file and is folded into the step    *)
(* before it.                                                              *)
(***************************************************************************)
EXTENDS Naturals, FiniteSets

CONSTANTS
    Self,      \* this peer's ID
    Others,    \* other peer IDs passed to addPeer / rmPeer
    Handlers,  \* RPC goroutines that can run a handler at the same time
    MaxCalls   \* bound on handler invocations

ASSUME Self \notin Others

VARIABLES
    peerSet,    \* pm.peerSet
    addrs,      \* peers with addresses in the host's peerstore
    cfgPeers,   \* config.ClusterPeers
    transport,  \* consensus membership
    leaving,    \* rmPeer(self) scheduled the self-shutdown goroutine
    stopped,    \* that goroutine shut consensus and the cluster down
    proc,       \* per handler goroutine: [op, arg, rest, pc]
    calls       \* handler invocations so far

vars == <<peerSet, addrs, cfgPeers, transport, leaving, stopped, proc, calls>>

AllPeers == Others \cup {Self}

IdleProc == [op |-> "none", arg |-> Self, rest |-> {}, pc |-> "idle"]

Goto(h, pc) == proc' = [proc EXCEPT ![h].pc = pc]

Done(h) == proc' = [proc EXCEPT ![h] = IdleProc]

(* addPeer returns: to the handler, or to the loop of addFromMultiaddrs. *)
AddReturn(h) ==
    IF proc[h].op = "fromAddrs" THEN Goto(h, "next") ELSE Done(h)

(* The state newPeerManager (resetPeerSet) and addFromConfig leave at    *)
(* start-up: peerSet holds this peer and the configured cluster peers,    *)
(* which the config, the peerstore and the consensus started with them    *)
(* also hold.                                                              *)
Init ==
    /\ \E initial \in SUBSET Others :
         /\ peerSet = initial \cup {Self}
         /\ addrs = initial
         /\ cfgPeers = initial
         /\ transport = initial \cup {Self}
    /\ leaving = FALSE
    /\ stopped = FALSE
    /\ proc = [h \in Handlers |-> IdleProc]
    /\ calls = 0

(* An RPC arrives while the peer still serves: PeerManagerAddPeer(q),     *)
(* PeerManagerRmPeer(p) or PeerManagerAddFromMultiaddrs(qs).              *)
Call(h, op, p, qs) ==
    /\ proc[h].pc = "idle" /\ ~stopped
    /\ calls < MaxCalls
    /\ proc' = [proc EXCEPT ![h] = [op |-> op, arg |-> p, rest |-> qs,
                                    pc |-> IF op = "fromAddrs" THEN "reset"
                                                              ELSE "check"]]
    /\ calls' = calls + 1
    /\ UNCHANGED <<peerSet, addrs, cfgPeers, transport, leaving, stopped>>

---------------------------------------------------------------------------
(* addPeer *)

(* RLock; _, ok := pm.peerSet[peerID]; RUnlock; if ok return. *)
AddCheck(h) ==
    /\ proc[h].pc = "check" /\ proc[h].op \in {"add", "fromAddrs"}
    /\ IF proc[h].arg \in peerSet THEN AddReturn(h) ELSE Goto(h, "insert")
    /\ UNCHANGED <<peerSet, addrs, cfgPeers, transport, leaving, stopped, calls>>

(* Lock; pm.peerSet[peerID] = struct{}{}; Unlock. *)
AddInsert(h) ==
    /\ proc[h].pc = "insert"
    /\ peerSet' = peerSet \cup {proc[h].arg}
    /\ Goto(h, "addr")
    /\ UNCHANGED <<addrs, cfgPeers, transport, leaving, stopped, calls>>

(* Peerstore().AddAddr(...); config.addPeer(addr). *)
AddAddrAndConfig(h) ==
    /\ proc[h].pc = "addr"
    /\ addrs' = addrs \cup {proc[h].arg}
    /\ cfgPeers' = cfgPeers \cup {proc[h].arg}
    /\ Goto(h, "consensus")
    /\ UNCHANGED <<peerSet, transport, leaving, stopped, calls>>

(* consensus.AddPeer(peerID); config.Save(path); return. *)
AddConsensus(h) ==
    /\ proc[h].pc = "consensus" /\ proc[h].op \in {"add", "fromAddrs"}
    /\ transport' = transport \cup {proc[h].arg}
    /\ AddReturn(h)
    /\ UNCHANGED <<peerSet, addrs, cfgPeers, leaving, stopped, calls>>

---------------------------------------------------------------------------
(* rmPeer *)

(* RLock; _, ok := pm.peerSet[p]; RUnlock; if !ok return nil. *)
RmCheck(h) ==
    /\ proc[h].pc = "check" /\ proc[h].op = "rm"
    /\ IF proc[h].arg \in peerSet THEN Goto(h, "delete") ELSE Done(h)
    /\ UNCHANGED <<peerSet, addrs, cfgPeers, transport, leaving, stopped, calls>>

(* Lock; delete(pm.peerSet, p); Unlock. *)
RmDelete(h) ==
    /\ proc[h].pc = "delete"
    /\ peerSet' = peerSet \ {proc[h].arg}
    /\ Goto(h, "clear")
    /\ UNCHANGED <<addrs, cfgPeers, transport, leaving, stopped, calls>>

(* Peerstore().ClearAddrs(p); config.rmPeer(p). *)
RmAddrAndConfigNoClear(h) ==
    /\ proc[h].pc = "clear"
    /\ cfgPeers' = cfgPeers \ {proc[h].arg}
    /\ Goto(h, "consensus")
    /\ UNCHANGED <<peerSet, addrs, transport, leaving, stopped, calls>>

RmAddrAndConfig(h) ==
    /\ proc[h].pc = "clear"
    /\ addrs' = addrs \ {proc[h].arg}
    /\ cfgPeers' = cfgPeers \ {proc[h].arg}
    /\ Goto(h, "consensus")
    /\ UNCHANGED <<peerSet, transport, leaving, stopped, calls>>

(* consensus.RemovePeer(p); if p is this peer, config.emptyPeers() and    *)
(* schedule the shutdown goroutine; config.Save(path); return nil.        *)
RmConsensus(h) ==
    /\ proc[h].pc = "consensus" /\ proc[h].op = "rm"
    /\ transport' = transport \ {proc[h].arg}
    /\ IF proc[h].arg = Self
       THEN cfgPeers' = {} /\ leaving' = TRUE
       ELSE UNCHANGED <<cfgPeers, leaving>>
    /\ Done(h)
    /\ UNCHANGED <<peerSet, addrs, stopped, calls>>

---------------------------------------------------------------------------
(* addFromMultiaddrs *)

(* resetPeerSet: Lock; peerSet = {self}; Unlock. *)
FromReset(h) ==
    /\ proc[h].pc = "reset"
    /\ peerSet' = {Self}
    /\ Goto(h, "empty")
    /\ UNCHANGED <<addrs, cfgPeers, transport, leaving, stopped, calls>>

FromEmptyConfigSkipped(h) ==
    /\ proc[h].pc = "empty"
    /\ Goto(h, "next")
    /\ UNCHANGED <<peerSet, addrs, cfgPeers, transport, leaving, stopped, calls>>

(* config.emptyPeers(). *)
FromEmptyConfig(h) ==
    /\ proc[h].pc = "empty"
    /\ cfgPeers' = {}
    /\ Goto(h, "next")
    /\ UNCHANGED <<peerSet, addrs, transport, leaving, stopped, calls>>

(* for _, m := range mAddrIDs { pm.addPeer(m) }; return nil.  The slice   *)
(* order is the caller's, so any order is taken.                           *)
FromNext(h) ==
    /\ proc[h].pc = "next"
    /\ IF proc[h].rest = {}
       THEN Done(h)
       ELSE \E q \in proc[h].rest :
              proc' = [proc EXCEPT ![h].arg = q, ![h].rest = @ \ {q},
                                   ![h].pc = "check"]
    /\ UNCHANGED <<peerSet, addrs, cfgPeers, transport, leaving, stopped, calls>>

---------------------------------------------------------------------------
(* The goroutine rmPeer(self) defers: after a second, consensus.Shutdown  *)
(* and selfShutdown (cluster.Shutdown, then removal of raft.db), after    *)
(* which no RPC is served.                                                *)
SelfShutdown ==
    /\ leaving /\ ~stopped
    /\ stopped' = TRUE
    /\ UNCHANGED <<peerSet, addrs, cfgPeers, transport, leaving, proc, calls>>

---------------------------------------------------------------------------
HandlerStep(h) ==
    \/ AddCheck(h) \/ AddInsert(h) \/ AddAddrAndConfig(h) \/ AddConsensus(h)
    \/ RmCheck(h) \/ RmDelete(h) \/ RmAddrAndConfig(h) \/ RmConsensus(h)
    \/ FromReset(h) \/ FromEmptyConfig(h) \/ FromNext(h)

Next ==
    \/ \E h \in Handlers :
         \/ \E q \in Others : Call(h, "add", q, {})
         \/ \E p \in AllPeers : Call(h, "rm", p, {})
         \/ \E qs \in SUBSET Others : Call(h, "fromAddrs", Self, qs)
         \/ HandlerStep(h)
    \/ SelfShutdown

Spec == Init /\ [][Next]_vars

---------------------------------------------------------------------------
(* Properties *)

Idle == \A h \in Handlers : proc[h].pc = "idle"

(* Between calls, while this peer has not removed itself, the membership *)
(* views agree: the config's ClusterPeers (what a restart reads) is the  *)
(* peer set without this peer, and every peer in the set has an address  *)
(* in the peerstore and is a member of the consensus.  addPeer, rmPeer and *)
(* addFromMultiaddrs each update all of them.  (The peerstore and the     *)
(* consensus may hold more: addFromMultiaddrs resets only peerSet and the *)
(* config.)                                                                *)
MembershipConsistent ==
    (Idle /\ ~leaving) =>
        /\ cfgPeers = peerSet \ {Self}
        /\ peerSet \ {Self} \subseteq addrs
        /\ peerSet \subseteq transport

=============================================================================
