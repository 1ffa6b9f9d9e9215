--------------------------- MODULE MapPinTracker ---------------------------
(***************************************************************************)
(* The local pin tracker of one cluster peer (src/tracker/map_pin.go,      *)
(* mapPinTracker).  It keeps a map CID -> PinInfo guarded by one mutex,    *)
(* two bounded channels (pinCh, unpinCh) each drained by one worker        *)
(* goroutine, and answers Track / Untrack / Sync / SyncAll / Recover       *)
(* calls arriving on RPC goroutines.  Every call to the IPFS daemon is a   *)
(* suspension point: the mutex is NOT held across it, so any other         *)
(* goroutine may read or write the status map while a call is in flight.  *)
(*                                                                         *)
(* Granularity: one locked helper (set, get, setError) is atomic; a run of *)
(* locked helpers with no daemon call between them is one step; a daemon   *)
(* call is split into "request applied by the daemon" and "reply seen by   *)
(* the caller", so that a reply can be an error although the daemon did   *)
(* the work (a timed-out HTTP request).                                    *)
(***************************************************************************)
EXTENDS Naturals, Sequences, FiniteSets

CONSTANTS
    Cids,           \* CIDs the environment may name (model values)
    Peers,          \* cluster peers that may appear in allocations
    Self,           \* this peer (mpt.peerID)
    Handlers,       \* RPC goroutines that may be blocked in a daemon call at once
    PinQueueSize,   \* capacity of pinCh and of unpinCh
    MaxCalls,       \* bound on calls issued by the environment
    DaemonFaults,   \* TRUE: daemon calls may fail (before or after the effect)
    ExternalChanges,\* TRUE: someone pins/unpins on the daemon behind cluster's back
    NoCid           \* no CID (an idle goroutine's argument)

ASSUME Self \in Peers /\ PinQueueSize \in Nat \ {0} /\ MaxCalls \in Nat
ASSUME DaemonFaults \in BOOLEAN /\ ExternalChanges \in BOOLEAN /\ NoCid \notin Cids

VARIABLES
    status,     \* api.TrackerStatus of each CID; "unpinned" = not in the map
    expired,    \* time.Since(TS) exceeds the (un)pinning timeout
    queue,      \* queue["pin"] = pinCh, queue["unpin"] = unpinCh
    worker,     \* pinWorker / unpinWorker goroutines
    rpc,        \* RPC goroutines blocked inside a multi-step call
    ipfs,       \* CIDs recursively pinned on the IPFS daemon
    ctxDone,    \* mpt.ctx cancelled by Shutdown
    calls,      \* calls issued by the environment so far (bounded)
    intent,     \* ghost: last Track/Untrack asked of this CID
    requested   \* ghost: CIDs some Track asked this peer to host

vars == <<status, expired, queue, worker, rpc, ipfs, ctxDone, calls,
          intent, requested>>

-----------------------------------------------------------------------------
(* api.TrackerStatus values *)
Statuses == {"pinned", "pinning", "unpinning", "unpinned",
             "pin_error", "unpin_error", "remote"}
PinSide   == {"pinned", "pinning", "pin_error"}
UnpinSide == {"unpinned", "unpinning", "unpin_error"}
Errors    == {"pin_error", "unpin_error"}

Kinds == {"pin", "unpin"}

(* api.CidArg as far as isRemote reads it *)
CidArgs == [everywhere : {TRUE}, allocations : {{}}]
           \cup [everywhere : {FALSE}, allocations : SUBSET Peers \ {{}}]

(* The operations an RPC goroutine may be blocked in *)
RpcOps == {"none", "trackRemote", "recoverPin", "recoverUnpin", "sync", "syncAll"}
Idle == [op |-> "none", cid |-> NoCid, stage |-> "none", seen |-> {}, todo |-> {}]

-----------------------------------------------------------------------------
(* unsafeSetError: the error state of the polarity of the current status;  *)
(* a Remote entry is left as it is.                                        *)
ErrorOf(s) ==
    CASE s \in PinSide   -> "pin_error"
      [] s \in UnpinSide -> "unpin_error"
      [] OTHER           -> s

(* isRemote: neither an everywhere pin nor allocated to this peer.  A      *)
(* plausible faulty variant treats only an empty allocation as remote.     *)
IsRemoteOnlyUnallocated(arg) == ~arg.everywhere /\ arg.allocations = {}

IsRemote(arg) == ~arg.everywhere /\ Self \notin arg.allocations

(* syncStatus: the status a CID moves to given whether IPFS reports it     *)
(* pinned and whether the entry is older than its timeout.                 *)
SyncStatus(s, exp, isPinned) ==
    IF isPinned
    THEN CASE s \in {"pinning", "pin_error"} -> "pinned"
           [] s = "unpinning" /\ exp         -> ErrorOf(s)   \* errUnpinningTimeout
           [] s = "unpinned"                 -> ErrorOf(s)   \* errPinned
           [] OTHER                          -> s
    ELSE CASE s = "pinned"                       -> ErrorOf(s) \* errUnpinned
           [] s = "pinning" /\ exp               -> ErrorOf(s) \* errPinningTimeout
           [] s \in {"unpinning", "unpin_error"} -> "unpinned"
           [] OTHER                              -> s

(* set / setError on a set of CIDs: every write refreshes the timestamp *)
Write(newStatus, cs) ==
    /\ status'  = [c \in Cids |-> IF c \in cs THEN newStatus[c] ELSE status[c]]
    /\ expired' = [c \in Cids |-> IF c \in cs THEN FALSE ELSE expired[c]]

Set(c, s)    == Write([x \in Cids |-> s], {c})
SetError(c)  == Write([x \in Cids |-> ErrorOf(status[x])], {c})

DaemonDo(kind, c) == IF kind = "pin" THEN ipfs \cup {c} ELSE ipfs \ {c}

Tracked == {c \in Cids : status[c] # "unpinned"}

-----------------------------------------------------------------------------
(* NewMapPin, after SetClient: empty map, empty queues, workers running *)
Init ==
    /\ status  = [c \in Cids |-> "unpinned"]
    /\ expired = [c \in Cids |-> FALSE]
    /\ queue   = [k \in Kinds |-> <<>>]
    /\ worker  = [k \in Kinds |-> [pc |-> "idle", cid |-> NoCid]]
    /\ rpc     = [h \in Handlers |-> Idle]
    /\ ipfs    = {}
    /\ ctxDone = FALSE
    /\ calls   = 0
    /\ intent  = [c \in Cids |-> "none"]
    /\ requested = {}

EnvCall(c, what) ==
    /\ calls < MaxCalls
    /\ calls' = calls + 1
    /\ intent' = IF what = "keep" THEN intent ELSE [intent EXCEPT ![c] = what]

-----------------------------------------------------------------------------
(* Track of a CID allocated here: set Pinning, then a non-blocking send on *)
(* pinCh; when the channel is full, setError(ErrPinQueueFull).  A         *)
(* plausible faulty variant comes first: the error forgotten after the     *)
(* failed send.                                                            *)
TrackLocalNoFullError(c) ==
    /\ Set(c, "pinning")
    /\ IF Len(queue["pin"]) < PinQueueSize
       THEN queue' = [queue EXCEPT !["pin"] = Append(@, c)]
       ELSE UNCHANGED queue

TrackLocal(c) ==
    IF Len(queue["pin"]) < PinQueueSize
    THEN /\ Set(c, "pinning")
         /\ queue' = [queue EXCEPT !["pin"] = Append(@, c)]
    ELSE /\ Set(c, "pin_error")                      \* ErrPinQueueFull
         /\ UNCHANGED queue

(* Track: a remote CID is marked Remote (after a synchronous unpin if it   *)
(* was Pinned); a local one is set Pinning and queued, or PinError when    *)
(* pinCh is full.                                                          *)
Track(c, arg) ==
    /\ EnvCall(c, IF IsRemote(arg) THEN "remote" ELSE "pin")
    /\ IF IsRemote(arg)
       THEN /\ UNCHANGED queue
            /\ \/ /\ status[c] # "pinned"
                  /\ Set(c, "remote")
                  /\ UNCHANGED rpc
               \/ /\ status[c] = "pinned"
                  /\ \E h \in Handlers :
                       /\ rpc[h].op = "none"
                       /\ rpc' = [rpc EXCEPT ![h] = [Idle EXCEPT !.op = "trackRemote",
                                                      !.cid = c, !.stage = "call"]]
                  /\ UNCHANGED <<status, expired>>
       ELSE /\ UNCHANGED rpc
            /\ TrackLocal(c)
    /\ requested' = IF arg.everywhere \/ Self \in arg.allocations
                    THEN requested \cup {c} ELSE requested
    /\ UNCHANGED <<worker, ipfs, ctxDone>>

(* Untrack: set Unpinning and queue, or UnpinError when unpinCh is full *)
Untrack(c) ==
    /\ EnvCall(c, "unpin")
    /\ IF Len(queue["unpin"]) < PinQueueSize
       THEN /\ Set(c, "unpinning")
            /\ queue' = [queue EXCEPT !["unpin"] = Append(@, c)]
       ELSE /\ Set(c, "unpin_error")                 \* ErrUnpinQueueFull
            /\ UNCHANGED queue
    /\ UNCHANGED <<worker, rpc, ipfs, ctxDone, requested>>

-----------------------------------------------------------------------------
(* pinWorker / unpinWorker: take the next CID off the channel.  pin()      *)
(* sets Pinning before calling IPFSPin; unpin() writes nothing before      *)
(* IPFSUnpin.  Go's select may still pick a queued item after ctx is done. *)
WorkerDequeue(k) ==
    /\ worker[k].pc = "idle"
    /\ queue[k] # <<>>
    /\ LET c == Head(queue[k]) IN
         /\ worker' = [worker EXCEPT ![k] = [pc |-> "call", cid |-> c]]
         /\ IF k = "pin" THEN Set(c, "pinning") ELSE UNCHANGED <<status, expired>>
    /\ queue' = [queue EXCEPT ![k] = Tail(@)]
    /\ UNCHANGED <<rpc, ipfs, ctxDone, calls, intent, requested>>

(* The daemon performs the request *)
WorkerDaemonApplies(k) ==
    /\ worker[k].pc = "call"
    /\ ipfs' = DaemonDo(k, worker[k].cid)
    /\ worker' = [worker EXCEPT ![k].pc = "applied"]
    /\ UNCHANGED <<status, expired, queue, rpc, ctxDone, calls, intent, requested>>

(* The call returns ok: pin() sets Pinned, unpin() sets Unpinned.  A      *)
(* plausible faulty variant forgets unpin()'s final set(Unpinned).         *)
WorkerReturnsNoUnpinSet(k) ==
    /\ worker[k].pc = "applied"
    /\ IF k = "pin" THEN Set(worker[k].cid, "pinned") ELSE UNCHANGED <<status, expired>>
    /\ worker' = [worker EXCEPT ![k] = [pc |-> "idle", cid |-> NoCid]]
    /\ UNCHANGED <<queue, rpc, ipfs, ctxDone, calls, intent, requested>>

WorkerReturns(k) ==
    /\ worker[k].pc = "applied"
    /\ Set(worker[k].cid, IF k = "pin" THEN "pinned" ELSE "unpinned")
    /\ worker' = [worker EXCEPT ![k] = [pc |-> "idle", cid |-> NoCid]]
    /\ UNCHANGED <<queue, rpc, ipfs, ctxDone, calls, intent, requested>>

(* The call returns an error, with or without the daemon having acted *)
WorkerFails(k) ==
    /\ DaemonFaults
    /\ worker[k].pc \in {"call", "applied"}
    /\ SetError(worker[k].cid)
    /\ worker' = [worker EXCEPT ![k] = [pc |-> "idle", cid |-> NoCid]]
    /\ UNCHANGED <<queue, rpc, ipfs, ctxDone, calls, intent, requested>>

(* A faulty variant whose select has no <-ctx.Done() case *)
WorkerExitNoCtxCase(k) == FALSE

(* The select picks <-ctx.Done() and the goroutine returns *)
WorkerExit(k) ==
    /\ ctxDone
    /\ worker[k].pc = "idle"
    /\ worker' = [worker EXCEPT ![k].pc = "exited"]
    /\ UNCHANGED <<status, expired, queue, rpc, ipfs, ctxDone, calls, intent, requested>>

WorkerStep(k) ==
    \/ WorkerDequeue(k) \/ WorkerDaemonApplies(k) \/ WorkerReturns(k)
    \/ WorkerFails(k) \/ WorkerExit(k)

-----------------------------------------------------------------------------
(* Recover: only an error entry is retried, synchronously and bypassing    *)
(* the queues: PinError -> pin() (sets Pinning first), UnpinError ->       *)
(* unpin().  Any other entry is returned unchanged.                        *)
Recover(c) ==
    /\ EnvCall(c, "keep")
    /\ \/ /\ status[c] \notin Errors
          /\ UNCHANGED <<status, expired, rpc>>
       \/ /\ status[c] \in Errors
          /\ \E h \in Handlers :
               /\ rpc[h].op = "none"
               /\ rpc' = [rpc EXCEPT ![h] = [Idle EXCEPT
                            !.op = IF status[c] = "pin_error" THEN "recoverPin"
                                                              ELSE "recoverUnpin",
                            !.cid = c, !.stage = "call"]]
          /\ IF status[c] = "pin_error" THEN Set(c, "pinning")
                                        ELSE UNCHANGED <<status, expired>>
    /\ UNCHANGED <<queue, worker, ipfs, ctxDone, requested>>

CallKind(op) == IF op = "recoverPin" THEN "pin" ELSE "unpin"
CallOps == {"trackRemote", "recoverPin", "recoverUnpin"}

(* The daemon performs the pin/unpin a blocked RPC goroutine asked for *)
HandlerDaemonApplies(h) ==
    /\ rpc[h].op \in CallOps
    /\ rpc[h].stage = "call"
    /\ ipfs' = DaemonDo(CallKind(rpc[h].op), rpc[h].cid)
    /\ rpc' = [rpc EXCEPT ![h].stage = "applied"]
    /\ UNCHANGED <<status, expired, queue, worker, ctxDone, calls, intent, requested>>

(* The call returns.  Track (remote) ends with set(Remote) whatever unpin  *)
(* returned; Recover leaves Pinned/Unpinned, or the error state.           *)
HandlerReturns(h) ==
    LET c == rpc[h].cid
        op == rpc[h].op
    IN /\ op \in CallOps
       /\ \/ /\ rpc[h].stage = "applied"
             /\ Set(c, CASE op = "trackRemote" -> "remote"
                         [] op = "recoverPin"  -> "pinned"
                         [] OTHER              -> "unpinned")
          \/ /\ DaemonFaults
             /\ rpc[h].stage \in {"call", "applied"}
             /\ IF op = "trackRemote" THEN Set(c, "remote") ELSE SetError(c)
       /\ rpc' = [rpc EXCEPT ![h] = Idle]
       /\ UNCHANGED <<queue, worker, ipfs, ctxDone, calls, intent, requested>>

-----------------------------------------------------------------------------
(* Sync: IPFSPinLsCid, then syncStatus on whatever the map holds by then.  *)
(* A failed daemon query sets the entry in error.                          *)
SyncStart(c) ==
    /\ EnvCall(c, "keep")
    /\ \E h \in Handlers :
         /\ rpc[h].op = "none"
         /\ rpc' = [rpc EXCEPT ![h] = [Idle EXCEPT !.op = "sync", !.cid = c,
                                                   !.stage = "call"]]
    /\ UNCHANGED <<status, expired, queue, worker, ipfs, ctxDone, requested>>

SyncRead(h) ==
    /\ rpc[h].op = "sync"
    /\ rpc[h].stage = "call"
    /\ \/ /\ rpc' = [rpc EXCEPT ![h].stage = "read", ![h].seen = ipfs \cap {rpc[h].cid}]
          /\ UNCHANGED <<status, expired>>
       \/ /\ DaemonFaults
          /\ SetError(rpc[h].cid)
          /\ rpc' = [rpc EXCEPT ![h] = Idle]
    /\ UNCHANGED <<queue, worker, ipfs, ctxDone, calls, intent, requested>>

SyncApply(h) ==
    LET c == rpc[h].cid IN
    /\ rpc[h].op = "sync"
    /\ rpc[h].stage = "read"
    /\ LET s == SyncStatus(status[c], expired[c], c \in rpc[h].seen) IN
         IF s = status[c] THEN UNCHANGED <<status, expired>> ELSE Set(c, s)
    /\ rpc' = [rpc EXCEPT ![h] = Idle]
    /\ UNCHANGED <<queue, worker, ipfs, ctxDone, calls, intent, requested>>

(* SyncAll: IPFSPinLs; on error every tracked entry is set in error at     *)
(* once under the lock; otherwise StatusAll() is taken and each entry of   *)
(* it gets syncStatus, one lock acquisition at a time, in map order.       *)
SyncAllStart ==
    /\ calls < MaxCalls
    /\ calls' = calls + 1
    /\ \E h \in Handlers :
         /\ rpc[h].op = "none"
         /\ rpc' = [rpc EXCEPT ![h] = [Idle EXCEPT !.op = "syncAll", !.stage = "call"]]
    /\ UNCHANGED <<status, expired, queue, worker, ipfs, ctxDone, intent, requested>>

SyncAllRead(h) ==
    /\ rpc[h].op = "syncAll"
    /\ rpc[h].stage = "call"
    /\ \/ /\ Tracked # {}
          /\ rpc' = [rpc EXCEPT ![h].stage = "read", ![h].seen = ipfs,
                                ![h].todo = Tracked]
          /\ UNCHANGED <<status, expired>>
       \/ /\ Tracked = {}
          /\ rpc' = [rpc EXCEPT ![h] = Idle]
          /\ UNCHANGED <<status, expired>>
       \/ /\ DaemonFaults
          /\ Write([x \in Cids |-> ErrorOf(status[x])], Tracked)
          /\ rpc' = [rpc EXCEPT ![h] = Idle]
    /\ UNCHANGED <<queue, worker, ipfs, ctxDone, calls, intent, requested>>

SyncAllApply(h) ==
    /\ rpc[h].op = "syncAll"
    /\ rpc[h].stage = "read"
    /\ \E c \in rpc[h].todo :
         /\ LET s == SyncStatus(status[c], expired[c], c \in rpc[h].seen) IN
              IF s = status[c] THEN UNCHANGED <<status, expired>> ELSE Set(c, s)
         /\ rpc' = IF rpc[h].todo = {c} THEN [rpc EXCEPT ![h] = Idle]
                   ELSE [rpc EXCEPT ![h].todo = @ \ {c}]
    /\ UNCHANGED <<queue, worker, ipfs, ctxDone, calls, intent, requested>>

HandlerStep(h) ==
    \/ HandlerDaemonApplies(h) \/ HandlerReturns(h)
    \/ SyncRead(h) \/ SyncApply(h) \/ SyncAllRead(h) \/ SyncAllApply(h)

-----------------------------------------------------------------------------
(* Shutdown: cancel the context (a second call returns at once) *)
Shutdown ==
    /\ ~ctxDone
    /\ ctxDone' = TRUE
    /\ UNCHANGED <<status, expired, queue, worker, rpc, ipfs, calls, intent, requested>>

(* Time passes: an in-progress entry becomes older than its timeout *)
Expire(c) ==
    /\ status[c] \in {"pinning", "unpinning"}
    /\ ~expired[c]
    /\ expired' = [expired EXCEPT ![c] = TRUE]
    /\ UNCHANGED <<status, queue, worker, rpc, ipfs, ctxDone, calls, intent, requested>>

(* Someone uses the IPFS daemon directly *)
ExternalPin(c) ==
    /\ ExternalChanges
    /\ calls < MaxCalls /\ calls' = calls + 1
    /\ ipfs' = ipfs \cup {c}
    /\ UNCHANGED <<status, expired, queue, worker, rpc, ctxDone, intent, requested>>

ExternalUnpin(c) ==
    /\ ExternalChanges
    /\ calls < MaxCalls /\ calls' = calls + 1
    /\ ipfs' = ipfs \ {c}
    /\ UNCHANGED <<status, expired, queue, worker, rpc, ctxDone, intent, requested>>

-----------------------------------------------------------------------------
Next ==
    \/ \E c \in Cids, arg \in CidArgs : Track(c, arg)
    \/ \E c \in Cids : Untrack(c) \/ Recover(c) \/ SyncStart(c) \/ Expire(c)
                       \/ ExternalPin(c) \/ ExternalUnpin(c)
    \/ SyncAllStart
    \/ Shutdown
    \/ \E k \in Kinds : WorkerStep(k)
    \/ \E h \in Handlers : HandlerStep(h)

(* The worker goroutines and the blocked RPC goroutines keep running, and  *)
(* the daemon eventually answers; callers, time and Shutdown are not fair. *)
Fairness ==
    /\ \A k \in Kinds : WF_vars(WorkerStep(k))
    /\ \A h \in Handlers : WF_vars(HandlerStep(h))

Spec == Init /\ [][Next]_vars /\ Fairness

-----------------------------------------------------------------------------
(***************************************************************************)
(* Properties                                                              *)
(***************************************************************************)
TypeOK ==
    /\ status \in [Cids -> Statuses]
    /\ expired \in [Cids -> BOOLEAN]
    /\ \A k \in Kinds : queue[k] \in Seq(Cids) /\ Len(queue[k]) <= PinQueueSize
    /\ worker \in [Kinds -> [pc : {"idle", "call", "applied", "exited"},
                             cid : Cids \cup {NoCid}]]
    /\ \A h \in Handlers : rpc[h].op \in RpcOps /\ rpc[h].seen \subseteq Cids
                                          /\ rpc[h].todo \subseteq Cids
    /\ ipfs \subseteq Cids
    /\ calls \in 0..MaxCalls
    /\ requested \subseteq Cids

(* Work for a CID that some goroutine still owes: queued, being executed   *)
(* by a worker, or being executed synchronously by Recover.                *)
InQueue(k, c) == \E i \in 1..Len(queue[k]) : queue[k][i] = c
PinPending(c) ==
    \/ InQueue("pin", c)
    \/ worker["pin"].cid = c /\ worker["pin"].pc \in {"call", "applied"}
    \/ \E h \in Handlers : rpc[h].op = "recoverPin" /\ rpc[h].cid = c
UnpinPending(c) ==
    \/ InQueue("unpin", c)
    \/ worker["unpin"].cid = c /\ worker["unpin"].pc \in {"call", "applied"}

(* An entry shown as Pinning (Unpinning) always has a pin (unpin) that a   *)
(* goroutine still owes it: Track/Untrack on a full channel, the workers,  *)
(* Recover and Sync never leave an in-progress status with nobody to       *)
(* finish it.  A stranded Pinning would never be timed out except by Sync. *)
InProgressHasPendingWork ==
    \A c \in Cids :
        /\ status[c] = "pinning"   => PinPending(c)
        /\ status[c] = "unpinning" => UnpinPending(c)

(* Nothing is in flight: queues empty, workers and RPC goroutines idle *)
Quiescent ==
    /\ \A k \in Kinds : queue[k] = <<>> /\ worker[k].pc \in {"idle", "exited"}
    /\ \A h \in Handlers : rpc[h].op = "none"

InProgress == {"pinning", "unpinning"}

(* As long as the tracker is not shut down, every CID eventually stops     *)
(* being Pinning or Unpinning for good: the workers drain both channels    *)
(* and every daemon call returns (pinWorker, unpinWorker, pin, unpin).     *)
Settles ==
    [](~ctxDone) => <>[](\A c \in Cids : status[c] \notin InProgress)

(* Once Shutdown has cancelled mpt.ctx, pinWorker and unpinWorker both   *)
(* return for good.  Nothing waits for them: Shutdown's wg.Wait waits for *)
(* no one (the tracker never calls wg.Add), Go's select may keep taking   *)
(* queued items over <-ctx.Done(), Track still enqueues after Shutdown,   *)
(* and a worker may be inside a daemon call when the context is cancelled. *)
WorkersExit ==
    ctxDone ~> [](\A k \in Kinds : worker[k].pc = "exited")

(* The tracker itself (a worker or a blocked RPC goroutine, i.e. not a     *)
(* caller and not someone using the daemon directly) only ever pins on     *)
(* the daemon a CID that some Track asked this peer to host: Remote        *)
(* tracks, Untrack, Sync, SyncAll and Recover never lead to a pin of a CID *)
(* this peer was not allocated.                                            *)
TrackerPinsOnlyRequested ==
    [][\A c \in Cids : (c \notin ipfs /\ c \in ipfs' /\ calls' = calls)
                        => c \in requested]_vars

(* After the calls have been handled (nothing queued or in flight), the    *)
(* daemon agrees with the last Track/Untrack of each CID, unless the entry *)
(* reports an error: "Pin(c); Unpin(c) ... all trackers converge to        *)
(* absent" (spec section 8), the tracker serialises the operations on one  *)
(* CID in the order they were enqueued (spec section 5), and a remote      *)
(* Track ensures the peer is not hosting the CID (spec 4.3).               *)
LastIntentHonoured ==
    Quiescent =>
        \A c \in Cids : status[c] \notin Errors =>
            /\ intent[c] = "pin"    => c \in ipfs
            /\ intent[c] = "unpin"  => c \notin ipfs
            /\ intent[c] = "remote" => c \notin ipfs

(* The tracker never unpins from the daemon a CID the cluster never asked  *)
(* it to track: content pinned directly on IPFS is left alone by Sync and  *)
(* Recover (spec 4.3: Unpinned + daemon Pinned -> PinError, and Recover of *)
(* a PinError pins).                                                       *)
UntrackedContentKept ==
    [][\A c \in Cids : (c \in ipfs /\ c \notin ipfs' /\ calls' = calls)
                        => intent[c] # "none"]_vars

=============================================================================
