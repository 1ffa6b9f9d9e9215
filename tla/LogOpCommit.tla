---------------------------- MODULE LogOpCommit ----------------------------
(***************************************************************************)
(* Consensus.logOpCid, LogAddPeer and LogRmPeer (src/cluster/peerutils.go) *)
(* over an abstract raft.                                                  *)
(*                                                                         *)
(* Every invocation of one of these methods on a peer is a frame: a        *)
(* goroutine running the CommitRetries loop.  redirectToLeader forwards    *)
(* the same method over RPC to the leader, which runs it in a new frame    *)
(* (the child) while the caller's frame waits for the reply.  When Leader()*)
(* fails and WaitForLeader succeeds, the stale empty leader id is used,    *)
(* so the call goes to the local RPC server: a child frame on the same     *)
(* peer.  A frame whose caller stopped waiting (transport error) keeps     *)
(* running as an orphan.                                                   *)
(*                                                                         *)
(* Raft itself (leader election, CommitOp, AddPeer/RemovePeer of the       *)
(* transport configuration) is not in src/; it is modelled from spec       *)
(* section 4.2: one leader at a time, a single committed log, CommitOp     *)
(* that fails with NotLeader on a follower and, on leadership loss, may    *)
(* fail before or after the entry was appended.                            *)
(***************************************************************************)
EXTENDS Naturals, Sequences, FiniteSets

CONSTANTS
    Peers,          \* cluster peers running consensus
    Cids,           \* CIDs passed to LogPin / LogUnpin
    NewPeers,       \* peers passed to LogAddPeer / LogRmPeer
    CallIds,        \* calls made by the coordinator (bounds invocations)
    FrameIds,       \* handler goroutines that can run at once (a bound)
    OpTypes,        \* which of the four methods the coordinator calls
    CommitRetries,  \* the CommitRetries variable (2 in the code)
    MaxElections,   \* bound on leadership losses
    RaftFaults,     \* CommitOp / AddPeer may fail on leadership loss
    RpcFaults,      \* an RPC may fail before delivery or lose its reply
    NoPeer, NoFrame, NoCall

ASSUME /\ NoPeer \notin Peers \cup NewPeers
       /\ CommitRetries \in Nat \ {0}
       /\ NoFrame \notin FrameIds /\ NoCall \notin CallIds
       /\ OpTypes \subseteq {"pin", "unpin", "addPeer", "rmPeer"}

VARIABLES
    leader,     \* raft leader, NoPeer while there is none
    elections,  \* leadership losses so far
    log,        \* the committed op log (entries carry the call id as ghost)
    config,     \* raft transport configuration (peer set)
    call,       \* per call id: coordinator-side state and op
    frame       \* per frame id: a running logOpCid / LogAddPeer / LogRmPeer

vars == <<leader, elections, log, config, call, frame>>

CidOps  == [type : {"pin", "unpin"}, arg : Cids]
PeerOps == [type : {"addPeer", "rmPeer"}, arg : NewPeers]
Ops     == {op \in CidOps \cup PeerOps : op.type \in OpTypes}
NoOp    == [type |-> "none", arg |-> NoPeer]

FramePcs == {"free", "redirect", "waitLeader", "rpc", "commit", "member",
             "ok", "err"}

FreeFrame == [pc |-> "free", call |-> NoCall, peer |-> NoPeer, attempt |-> 0,
              root |-> FALSE, parent |-> NoFrame, child |-> NoFrame]

(* Consensus.op: the LogOp for a call's argument. *)
LogEntry(i) == [type |-> call[i].op.type, arg |-> call[i].op.arg, call |-> i]

Free == {f \in FrameIds : frame[f].pc = "free"}

---------------------------------------------------------------------------
(* Ending a frame with result r: a root frame answers the coordinator, a   *)
(* child leaves r for its waiting caller, an orphan just ends.             *)
Ended(fr, f, r) ==
    IF fr[f].root \/ fr[f].parent = NoFrame
    THEN [fr EXCEPT ![f] = FreeFrame]
    ELSE [fr EXCEPT ![f].pc = r]

Answer(f, r) ==
    IF frame[f].root THEN [call EXCEPT ![frame[f].call].st = r] ELSE call

(* The loop condition with the last iteration counted twice. *)
ContinueOffByOne(f) == frame[f].attempt + 1 <= CommitRetries

(* for i := 0; i < CommitRetries; i++ : is there another iteration? *)
Continue(f) == frame[f].attempt + 1 < CommitRetries

(* finalErr = err; continue: the next iteration, or return finalErr.      *)
(* fr is the frame map with the step's other frame changes applied.       *)
Retry(fr, f) ==
    IF Continue(f)
    THEN /\ frame' = [fr EXCEPT ![f].pc = "redirect", ![f].attempt = @ + 1]
         /\ UNCHANGED call
    ELSE /\ frame' = Ended(fr, f, "err")
         /\ call' = Answer(f, "err")

(* return nil / return err from the method. *)
Return(fr, f, r) ==
    /\ frame' = Ended(fr, f, r)
    /\ call' = Answer(f, r)

(* rpcClient.Call(target, "Cluster", method, arg): the same method runs in *)
(* a new frame on target; with no frame left the call fails in transport. *)
Forward(f, target) ==
    IF Free = {}
    THEN Retry(frame, f)
    ELSE \/ RpcFaults /\ Retry(frame, f)
         \/ \E g \in Free :
              /\ frame' = [frame EXCEPT
                   ![g] = [pc |-> "redirect", call |-> frame[f].call,
                           peer |-> target, attempt |-> 0, root |-> FALSE,
                           parent |-> f, child |-> NoFrame],
                   ![f].pc = "rpc", ![f].child = g]
              /\ UNCHANGED call

---------------------------------------------------------------------------
Init ==
    /\ leader \in Peers
    /\ elections = 0
    /\ log = <<>>
    /\ config = Peers
    /\ call = [i \in CallIds |-> [st |-> "idle", op |-> NoOp]]
    /\ frame = [f \in FrameIds |-> FreeFrame]

(* The coordinator calls LogPin / LogUnpin / LogAddPeer / LogRmPeer on p. *)
Invoke(i, p, op) ==
    /\ call[i].st = "idle"
    /\ Free # {}
    /\ \E f \in Free :
         frame' = [frame EXCEPT ![f] = [pc |-> "redirect", call |-> i,
                                       peer |-> p, attempt |-> 0,
                                       root |-> TRUE, parent |-> NoFrame,
                                       child |-> NoFrame]]
    /\ call' = [call EXCEPT ![i] = [st |-> "running", op |-> op]]
    /\ UNCHANGED <<leader, elections, log, config>>

(* redirectToLeader, first half: Leader(); commit locally if we lead,     *)
(* forward to the leader otherwise, wait for one if there is none.        *)
RedirectToLeader(f) ==
    /\ frame[f].pc = "redirect"
    /\ CASE leader = NoPeer ->
              /\ frame' = [frame EXCEPT ![f].pc = "waitLeader"]
              /\ UNCHANGED call
         [] leader = frame[f].peer ->
              /\ frame' = [frame EXCEPT ![f].pc = "commit"]
              /\ UNCHANGED call
         [] OTHER -> Forward(f, leader)
    /\ UNCHANGED <<leader, elections, log, config>>

(* WaitForLeader without the LeaderTimeout deadline. *)
WaitForLeaderNoTimeout(f) ==
    /\ frame[f].pc = "waitLeader"
    /\ leader # NoPeer
    /\ Forward(f, frame[f].peer)
    /\ UNCHANGED <<leader, elections, log, config>>

(* redirectToLeader, WaitForLeader: on timeout the attempt fails; once a  *)
(* leader exists the call goes to the stale leader value "" (local).       *)
WaitForLeader(f) ==
    /\ frame[f].pc = "waitLeader"
    /\ \/ Retry(frame, f)
       \/ /\ leader # NoPeer
          /\ Forward(f, frame[f].peer)
    /\ UNCHANGED <<leader, elections, log, config>>

(* The reply handled as "if redirected { return nil }" before the error. *)
RpcReplyIgnoringErr(f) ==
    LET g == frame[f].child IN
    /\ frame[f].pc = "rpc"
    /\ frame[g].pc \in {"ok", "err"}
    /\ Return([frame EXCEPT ![g] = FreeFrame], f, "ok")
    /\ UNCHANGED <<leader, elections, log, config>>

(* The reply of the forwarded call: ok returns nil (redirected), an error *)
(* is finalErr.  With RpcFaults the reply may be lost after the remote    *)
(* frame finished, or the caller may stop waiting while it still runs.    *)
RpcReply(f) ==
    LET g == frame[f].child IN
    /\ frame[f].pc = "rpc"
    /\ \/ /\ frame[g].pc = "ok"
          /\ Return([frame EXCEPT ![g] = FreeFrame], f, "ok")
       \/ /\ frame[g].pc = "err" \/ (RpcFaults /\ frame[g].pc = "ok")
          /\ Retry([frame EXCEPT ![g] = FreeFrame], f)
       \/ /\ RpcFaults
          /\ frame[g].pc \notin {"ok", "err"}
          /\ Retry([frame EXCEPT ![g].parent = NoFrame], f)
    /\ UNCHANGED <<leader, elections, log, config>>

(* CommitOp with its error dropped: the method goes on as if committed. *)
CommitOpIgnoringErr(f) ==
    LET i == frame[f].call IN
    /\ frame[f].pc = "commit"
    /\ \/ /\ leader = frame[f].peer
          /\ log' = Append(log, LogEntry(i))
       \/ /\ leader # frame[f].peer \/ RaftFaults
          /\ UNCHANGED log
    /\ IF call[i].op \in CidOps
       THEN Return(frame, f, "ok")
       ELSE /\ frame' = [frame EXCEPT ![f].pc = "member"]
            /\ UNCHANGED call
    /\ UNCHANGED <<leader, elections, config>>

(* CommitOp on this peer.  On the leader the op is appended; LogPin and    *)
(* LogUnpin then return, LogAddPeer / LogRmPeer go on to the transport.   *)
(* A follower gets NotLeader.  On leadership loss raft may report an error *)
(* whether or not the entry made it into the log.                         *)
CommitOp(f) ==
    LET i == frame[f].call IN
    /\ frame[f].pc = "commit"
    /\ \/ /\ leader = frame[f].peer
          /\ log' = Append(log, LogEntry(i))
          /\ IF call[i].op \in CidOps
             THEN Return(frame, f, "ok")
             ELSE /\ frame' = [frame EXCEPT ![f].pc = "member"]
                  /\ UNCHANGED call
       \/ /\ RaftFaults
          /\ leader = frame[f].peer
          /\ log' = Append(log, LogEntry(i))
          /\ Retry(frame, f)
       \/ /\ leader # frame[f].peer \/ RaftFaults
          /\ UNCHANGED log
          /\ Retry(frame, f)
    /\ UNCHANGED <<leader, elections, config>>

(* raft.AddPeer / raft.RemovePeer after the op was committed. *)
RaftMember(f) ==
    LET op == call[frame[f].call].op IN
    /\ frame[f].pc = "member"
    /\ \/ /\ leader = frame[f].peer
          /\ config' = IF op.type = "addPeer" THEN config \cup {op.arg}
                                              ELSE config \ {op.arg}
          /\ Return(frame, f, "ok")
       \/ /\ leader # frame[f].peer \/ RaftFaults
          /\ UNCHANGED config
          /\ Retry(frame, f)
    /\ UNCHANGED <<leader, elections, log>>

(* Raft elects a leader among the cluster peers. *)
Elect(p) ==
    /\ leader = NoPeer
    /\ leader' = p
    /\ UNCHANGED <<elections, log, config, call, frame>>

(* The leader loses leadership. *)
StepDown ==
    /\ leader # NoPeer
    /\ elections < MaxElections
    /\ leader' = NoPeer
    /\ elections' = elections + 1
    /\ UNCHANGED <<log, config, call, frame>>

FrameStep(f) ==
    \/ RedirectToLeader(f)
    \/ WaitForLeader(f)
    \/ RpcReply(f)
    \/ CommitOp(f)
    \/ RaftMember(f)

Next ==
    \/ \E i \in CallIds, p \in Peers, op \in Ops : Invoke(i, p, op)
    \/ \E f \in FrameIds : FrameStep(f)
    \/ \E p \in Peers : Elect(p)
    \/ StepDown

(* Every handler goroutine keeps running; WaitForLeader has a deadline.   *)
(* Elections are not assumed to happen.                                    *)
Fairness == \A f \in FrameIds : WF_vars(FrameStep(f))

Spec == Init /\ [][Next]_vars /\ Fairness

---------------------------------------------------------------------------
(* Properties *)

TypeOK ==
    /\ leader \in Peers \cup {NoPeer}
    /\ elections \in 0..MaxElections
    /\ log \in Seq([type : {"pin", "unpin", "addPeer", "rmPeer"},
                    arg : Cids \cup NewPeers, call : CallIds])
    /\ config \subseteq Peers \cup NewPeers
    /\ call \in [CallIds -> [st : {"idle", "running", "ok", "err"},
                             op : Ops \cup {NoOp}]]
    /\ \A f \in FrameIds :
         /\ frame[f].pc \in FramePcs
         /\ frame[f].attempt \in 0..(CommitRetries - 1)
         /\ frame[f].call \in CallIds \cup {NoCall}
         /\ frame[f].parent \in FrameIds \cup {NoFrame}
         /\ frame[f].child \in FrameIds \cup {NoFrame}

Committed(i) == \E k \in 1..Len(log) : log[k].call = i

Abs == INSTANCE OpLog WITH callState <- [i \in CallIds |-> call[i].st],
                           callOp <- [i \in CallIds |-> call[i].op]

(* The retry/redirect loop implements the log's promise (module OpLog): a *)
(* call's op enters the log only while that LogPin/LogUnpin/LogAddPeer/   *)
(* LogRmPeer call is running, and a call returns nil only after its op is *)
(* in the log, whichever frame on whichever peer committed it.            *)
ImplementsOpLog == Abs!Spec

(* Every LogPin/LogUnpin/LogAddPeer/LogRmPeer call eventually returns:    *)
(* the CommitRetries loop, WaitForLeader's deadline and the forwarded    *)
(* calls all end, even when no leader is ever elected again.              *)
CallsReturn ==
    \A i \in CallIds : call[i].st = "running" ~> call[i].st \in {"ok", "err"}

(* A call that returned an error did not commit its op (the comment "This *)
(* means the op did not make it to the log" after CommitOp, and the spec  *)
(* law "Commit(op) returns ok iff the op is in the log").                 *)
ErrMeansNotCommitted ==
    \A i \in CallIds : call[i].st = "err" => ~Committed(i)

=============================================================================
