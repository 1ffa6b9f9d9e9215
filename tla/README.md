# TLA+ models of ipfs-cluster

This directory holds TLA+ models of the ipfs-cluster sources under `src/`, the
TLC configurations that check them, and `PROJECT.json`. `PROJECT.json` lists
the components, the runs, the mutants, the map from each definition to its
source lines, the findings and the hazards.

## 1. Inventory

### Components, their state and operations

| Component | Source | State it keeps | Operations (state-changing in bold) |
|---|---|---|---|
| Pin tracker (C3) | `tracker/map_pin.go` | `status` map CID → PinInfo (status, timestamp, error) under one RWMutex; `pinCh`/`unpinCh` bounded channels (`PinQueueSize`); two worker goroutines; `ctx`; `shutdown` flag | **Track**, **Untrack**, **Sync**, **SyncAll**, **Recover**, **Shutdown**, **pinWorker/pin**, **unpinWorker/unpin**, Status, StatusAll, SetClient |
| Consensus (C2) | `cluster/peerutils.go` (second part) | libp2p-raft op log and FSM over the shared state; `readyCh`, `rpcReady`, `shutdownCh`; `shutdown` flag; `ctx` | **LogPin**, **LogUnpin**, **LogAddPeer**, **LogRmPeer** (all via `redirectToLeader` + `CommitRetries` loop), **run/finishBootstrap**, **Shutdown**, **SetClient**, Ready, State, Leader, **Rollback**, WaitForSync |
| Shared state (C1) | `state/mapstate.go`, interface in `state/mapstate_test.go` (second part) | `PinMap` CID → CidArgSerial under an RWMutex; `Version` | **Add** (upsert), **Rm**, Get, Has, List |
| Peer manager (C6) | `peer_manager.go` | `peerSet` under an RWMutex; peerstore addresses; config peer list; config file | **addPeer**, **rmPeer** (self-removal schedules shutdown and deletes `raft.db`), **resetPeerSet**, **addFromMultiaddrs**, peers |
| Allocator (C5) | `allocator/numpin.go`, `allocator/allocator.go` | none (pure) | Allocate: keep valid `numpin` metrics, sort ascending by value |
| Informer (C5) | `unnamed/part_001` (numpin informer), `informer/informer.go` | `rpcClient` | GetMetric (IPFSPinLs count, TTL), **SetClient**, **Shutdown** (nils the client) |
| RPC API (C7) | `api/rpc.go` | none | one forwarding method per component operation |
| REST API | `unnamed/part_003` | listener, server, `rpcReady`, `shutdown` flag | routes/handlers (HTTP glue), **run**, **Shutdown**, **SetClient** |
| IPFS connector (C4) | `connector/connector.go` (interface only) | the daemon's pin set | Pin, Unpin, PinLsCid, PinLs, ID |
| Coordinator (C8) | not in `src/` (only reached through `rpc.go`) | n/a | Pin, Unpin, Status*, Sync*, Recover, PeerAdd/Remove, Join |
| CLI (`cmd/`) | `cmd/request.go` | none | **request** (one HTTP request to the REST API) |
| Command setup, config, tests | `cmd/root.go`, `cmd/id.go`, `config/config_test.go`, `connector/httpconnector_test.go` | n/a | command-line glue and test fixtures |

### How the components interact

* Every component talks to the others through the go-libp2p-gorpc client
  (`rpc.go`). An empty destination is an in-process call.
* A pin flows as follows. The coordinator commits `LogPin` through
  `Consensus.logOpCid`. If this peer is not the leader, the call is
  redirected to the leader over RPC. The raft FSM applies the op to the
  shared state. The tracker of each allocated peer then gets `Track`
  (which is out of `src/`). The tracker's pin worker calls `IPFSPin` on
  the connector.
* The tracker calls the daemon through RPC (`IPFSPin`, `IPFSUnpin`,
  `IPFSPinLsCid`, `IPFSPinLs`). No tracker lock is held across these calls.
* The peer manager calls `consensus.AddPeer/RemovePeer`. On self-removal
  it calls `consensus.Shutdown` and `cluster.Shutdown` from a goroutine it
  spawns.
* The allocator ranks peers from the metrics that the informers produce.

### What is hard

* **Interleaving inside the tracker.** Four kinds of goroutine act on the
  status map with no lock held across daemon calls: the pin worker, the
  unpin worker, and the RPC goroutines running `Track`/`Untrack`,
  `Sync`/`SyncAll` and `Recover`. A pin and an unpin of the same CID run
  on different workers, so they are not ordered.
* **Stale reads.** `Sync` reads the daemon and then applies the answer to
  whatever the entry holds by then. `Track` (remote) reads `Pinned`,
  unpins, and then writes `Remote`.
* **Bounded queues.** A full channel turns a call into an error state.
* **Timeouts.** An entry that stays Pinning or Unpinning too long is
  turned into an error, but only when `Sync` runs.
* **Partial failure.** A daemon call can fail after the daemon did the
  work.
* **Consensus.** A commit can fail and then be retried, and a call can be
  forwarded to a leader that is stale. `LogAddPeer` and `LogRmPeer` do
  two steps (log commit, then raft membership), and either can fail.
  Shutdown can fail half-way and then be called again.
* **Self-removal.** The peer shuts itself down from a goroutine while it
  is still serving RPCs.

### Properties that make each component correct

* Tracker:
  * An in-progress status always has a worker or call that will finish it.
  * In-progress entries eventually settle.
  * When nothing is in flight, the daemon matches the last request for
    each CID (pin / unpin / remote), or the entry shows an error.
  * A `Pinned` status means the daemon holds the CID.
  * The tracker never pins a CID that was not allocated to this peer.
  * The tracker never unpins content the cluster never tracked.
* Consensus:
  * The applied state equals the fold of the committed ops.
  * A `LogPin` that returns ok is in the log.
  * Every peer applies the same prefix.
  * `Shutdown` is idempotent and safe to call twice.
  * `Ready` is signalled once.
* Peer manager:
  * The peer set, the config peer list and the consensus membership stay
    in agreement.
  * Adding the same peer concurrently notifies consensus once.
* Allocator: the output is the valid candidates sorted by ascending pin
  count, and it is deterministic for equal metrics (the spec says so).

## 2. Plan and status

| # | Module | Status |
|---|---|---|
| 1 | `MapPinTracker`: the tracker of one peer with its daemon, both workers, blocked RPC goroutines, timeouts, daemon faults, external daemon use and Shutdown | done (section 3) |
| 2 | `LogOpCommit` refining `OpLog`: `logOpCid`, `LogAddPeer`, `LogRmPeer` over a spec-modelled raft | done (section 4) |
| 3 | `ConsensusLifecycle`: `run`, `finishBootstrap`, `SetClient`, `Shutdown` | done (section 5) |
| 4 | `PeerManager`: concurrent `addPeer` / `rmPeer` / `addFromMultiaddrs`, and `selfShutdown` | done (section 6) |
| 5 | `NumPinAllocator`: `Allocate` against a reference ranking, with the informer's outputs as inputs | done (section 7) |
| 6 | `PinSet`: the shared state (`mapstate.go`) | not modelled (section 9) |
| 7 | `ClusterPin`: the coordinator's Pin/Unpin (spec-modelled) composing `LogOpCommit` and `MapPinTracker`, checking that trackers converge to the agreed state | later |
| 8 | `RestApi`: the REST API's `run`/`SetClient`/`Shutdown` and the CLI's `request`, composed with `ConsensusLifecycle` in `ComponentLifecycles` | done (section 8) |
| 9 | Informer `GetMetric` racing `SetClient`/`Shutdown` | not modelled (section 9) |

Each module has one MC module that gives its constants model values, one cfg
per question, and one mutant per property of a passing run (see
`PROJECT.json`).

## 3. Module `MapPinTracker` (src/tracker/map_pin.go)

### State

| Variable | Code |
|---|---|
| `status[c]` | `mpt.status[c].Status`. The value `"unpinned"` stands for "not in the map": `unsafeSet` deletes the key and `unsafeGet` answers Unpinned. |
| `expired[c]` | `time.Since(TS) > PinningTimeout / UnpinningTimeout`. It is reset by every write (`TS: time.Now()`). |
| `queue["pin"]`, `queue["unpin"]` | `pinCh`, `unpinCh` (capacity `PinQueueSize`). |
| `worker[k]` | The pin / unpin worker: idle, daemon request sent, daemon applied it, or exited. |
| `rpc[h]` | An RPC goroutine blocked inside a multi-step call: `Track` (remote, unpinning synchronously), `Recover` (pin or unpin), `Sync` (read done, apply pending), or `SyncAll` (read done, entries left to apply). |
| `ipfs` | The daemon's recursive pin set. |
| `ctxDone` | `mpt.ctx` cancelled. |
| `calls`, `intent`, `requested` | Bound counter and ghost variables, used only by the properties. |

### Actions

| Action | Code |
|---|---|
| `Track` / `TrackLocal` | `Track`. A remote CID becomes `Remote`. If it was `Pinned`, a synchronous unpin runs first on the calling goroutine (`rpc[h]`). A local CID is set Pinning and sent on the channel without blocking; if the channel is full, it becomes PinError. |
| `Untrack` | `Untrack` |
| `WorkerDequeue`, `WorkerDaemonApplies`, `WorkerReturns`, `WorkerFails`, `WorkerExit` | `pinWorker`/`pin` and `unpinWorker`/`unpin`. `pin()` writes Pinning before calling the daemon. A reply may be an error after the daemon acted. Go's `select` may still take a queued item after cancellation. |
| `Recover`, `HandlerDaemonApplies`, `HandlerReturns` | `Recover`, which runs a synchronous `pin`/`unpin` for an error entry and leaves any other entry as it is. |
| `SyncStart`, `SyncRead`, `SyncApply` | `Sync`: `IPFSPinLsCid`, then `syncStatus` on the current entry. |
| `SyncAllStart`, `SyncAllRead`, `SyncAllApply` | `SyncAll`: `IPFSPinLs`. On error, every entry is set to error under the lock. Otherwise a `StatusAll` snapshot is taken and `syncStatus` runs entry by entry. |
| `Shutdown` | `Shutdown` (cancel). |
| `Expire` | Time passing beyond the timeout. |
| `ExternalPin`/`ExternalUnpin` | Someone using the daemon directly (spec scenario 4). |

Granularity: each locked helper is atomic, and so is a run of helpers with no
daemon call between them. Every daemon call is a suspension point, and so
is every step between a daemon read and its use.

### Runs

All runs use 2 CIDs, 2 peers (this peer and one other), 1 RPC goroutine that
can block in a daemon call, and `PinQueueSize = 1`. `MaxCalls` bounds the
calls made by the environment (4).

| Run | Result | What it shows |
|---|---|---|
| `tracker_safety` | pass | `InProgressHasPendingWork` and `TrackerPinsOnlyRequested` hold under daemon faults, external daemon use and every interleaving of callers, workers and the blocked goroutine; `Settles`: unless Shutdown is called, every Pinning/Unpinning entry eventually settles. `WorkersExit`: once Shutdown has cancelled the context, both workers return for good. Nothing waits for them: `Shutdown`'s `wg.Wait` waits for no one because the tracker never calls `wg.Add`. Their `select` may still take queued items, and `Track` still enqueues after Shutdown, so it is the bounded queues draining that ends them. The module's `TypeOK` documents the variables' types but is not checked. Its one non-trivial conjunct, the channel bound, is Go's channel capacity, which no send can exceed. About 470k states. |
| `tracker_last_intent` | violation | `LastIntentHonoured` fails. See finding 1. |
| `tracker_foreign_content` | violation | `UntrackedContentKept` fails. See finding 3. |

Why these bounds are enough:

* A queue of 1 with 2 CIDs is enough to reach the full-queue path.
* One blocked RPC goroutine is enough for every stale read: `Sync`,
  `SyncAll`, `Recover` and a remote `Track` each hold it.
* With four calls, Track, Untrack, Sync and Recover can all be combined
  on one CID while the other CID fills the queue.

### Fairness

Weak fairness is assumed only for the two worker goroutines and for the
blocked RPC goroutines, meaning the daemon eventually answers. The code
justifies this: the workers loop forever on `select`, and the calls have no
other exit. The callers, the passage of time and `Shutdown` are not fair.

### Findings

1. **Pin and unpin of one CID are not ordered** (`map_pin.go:77-98`).
   They go to different channels and run on different goroutines. Two
   shortest traces:
   * `Track(c local)` then `Track(c remote)`: the queued pin still runs,
     and the peer ends up `Pinned` for content allocated elsewhere.
   * `Track(c)` then `Untrack(c)`: the unpin can finish first, and the
     later pin leaves the content pinned.

   The spec says the opposite: "Pin(c); Unpin(c) … all trackers converge
   to absent", and "operations on the same CID are handled in the order
   they were enqueued". A later `Sync` does not repair this, because the
   status and the daemon agree with each other.
2. **`Pinned` status without the content** (`map_pin.go:215`). The pin
   worker sets Pinned when `IPFSPin` returns, even if the unpin worker
   removed the pin meanwhile, or had already set the entry Unpinned.
   `Sync` can do the same with a stale daemon read (`map_pin.go:302/362`).
   The model reaches this state; it has the same cause as finding 1 and
   is listed as a hazard rather than checked as a property of its own.
3. **Sync + Recover unpin content the cluster never tracked**
   (`map_pin.go:372-373`, `167-187`). `syncStatus` of an untracked CID
   that the daemon holds calls `setError`, which turns Unpinned into
   UnpinError. The spec table and scenario 4 say PinError. `Recover` then
   unpins content that was pinned directly on IPFS.


## 4. Modules `OpLog` and `LogOpCommit` (src/cluster/peerutils.go)

`OpLog` is the abstract promise of the replicated log to the callers of
`LogPin`, `LogUnpin`, `LogAddPeer` and `LogRmPeer`:
* an op enters the log only while the call that submitted it runs;
* a call returns ok only once its op is in the log;
* a call may fail at any time.

A commit that returns in the same step is allowed (`Commit` may set the call
ok or err at once).

`LogOpCommit` is the code.

### State

| Variable | Code |
|---|---|
| `leader` | `cc.raft` leadership. The raft library is not in `src/`, so this is spec-modelled. |
| `log`, `config` | The committed op log, with the call id as a ghost field, and the raft transport configuration. |
| `call[i]` | The coordinator-side call: idle, running, ok or err, and its op. |
| `frame[f]` | One running invocation of the method on some peer. Its fields: `pc`, `attempt` of the `CommitRetries` loop, the peer it runs on, and the parent frame waiting on its RPC reply (or `root`, a coordinator call). |

### Actions

| Action | Code |
|---|---|
| `Invoke` | `LogPin` / `LogUnpin` / `LogAddPeer` / `LogRmPeer` called by the coordinator. |
| `RedirectToLeader`, `WaitForLeader`, `Forward` | `redirectToLeader`. If there is no leader, it calls `WaitForLeader`. On success it reuses the stale empty leader id, which is a call to the local RPC server, a new frame on the same peer. A remote leader gets a child frame. |
| `RpcReply` | The `rpcClient.Call` result. A child ok ends the loop. An error is a retry. If `RpcFaults` is set, the reply can be lost and the child runs on as an orphan. |
| `CommitOp` | `cc.raft.CommitOp`. A follower gets an error without an append. On leadership loss, the error can come after the append. |
| `RaftMember` | `cc.raft.AddPeer` / `RemovePeer` after a committed peer op. Its failure re-enters the loop. |
| `Retry`, `Continue`, `Return` | The `for i := 0; i < CommitRetries; i++` loop and its final error. |
| `Elect`, `StepDown` | Raft leadership (spec-modelled). `StepDown` is bounded by `MaxElections`. |

### Runs

All runs use 2 peers, 1 CID, 1 new peer, 3 frame slots and
`CommitRetries = 2` (the code's value).

| Run | Result | What it shows |
|---|---|---|
| `logop_refines_oplog` | pass | All four methods, 2 calls, raft commit faults and one change of leader. `TypeOK` holds, and `ImplementsOpLog` (the `OpLog` spec instantiated with `callState` and `callOp` mapped from `call`) holds. A call that returns ok has its op in the log, including when a nested local frame or the leader's frame committed it. 1.3M states, symmetry over frames and calls. |
| `logop_calls_return` | pass | `CallsReturn`: every call returns, even with both raft and RPC faults and no further election. Fairness is WF per frame, because each frame is a goroutine that is always scheduled eventually. No fairness is assumed for elections or the coordinator. |
| `logop_lost_reply` | violation | `ErrMeansNotCommitted` fails. See finding 4. |

Why these bounds are enough:
* Three frame slots allow a root call, a child on the leader, and an orphan
  at the same time.
* One change of leader is enough for a stale leader and a NotLeader error.
* Two calls are enough for two ops to interleave in the log.

### Finding 4

**A lost RPC reply makes a committed LogPin return an error**
(`peerutils.go:259`, `283-294`). `logOpCid` reads any `Call` error as "the op
did not make it to the log". When the reply from the leader is lost, the
leader's frame still commits. The caller then retries, which commits the op
twice, or returns an error for an op that is in the log. The spec's law is
"Commit returns ok iff the op is in the log".

## 5. Module `ConsensusLifecycle` (src/cluster/peerutils.go)

### State and actions

| Name | Code |
|---|---|
| `runPc` | The `run()` goroutine. |
| `RunStart`, `RunExit` | `run()` starts `finishBootstrap`, waits on `shutdownCh`, then cancels the context. |
| `bootPc` | `finishBootstrap`. |
| `WaitForLeader`, `WaitForUpdates` | `WaitForSync`, each with its timeout or ctx exit. `WaitForLeader`'s timeout sets the history variable `leaderTimedOut`. |
| `CheckClient`, `SelectReady` | The nil-client `select` on ctx or `rpcReady`. |
| `StateSyncAndReady` | The `StateSync` call and `readyCh`. A nil client there is a panic. |
| `SetClient` | `SetClient`: the client and a buffered `rpcReady` send. |
| `shut[s]` | A goroutine calling `Shutdown`. |
| `ShutdownLock` | The lock and the flag check. |
| `CloseRpcReady` | `close(rpcReady)`. Closing it a second time panics. |
| `SignalRun` | `shutdownCh <-`. |
| `RaftShutdown` | Snapshot and raft shutdown. Either may fail (`SnapshotFaults`), and then Shutdown returns an error with the flag unset. |
| `ShutdownWait` | `wg.Wait`, then set the flag. |
| `ElectLeader`, `CatchUp` | Raft (spec-modelled). |

The environment calls `SetClient` once, before any `Shutdown`, as the
coordinator does.

### Runs

| Run | Result | What it shows |
|---|---|---|
| `lifecycle_no_panic` | pass | `NoPanic` holds when raft shuts down cleanly, with two Shutdown callers racing bootstrap and elections. The run uses `MC_ComponentLifecycles` (section 8), so the REST API's goroutines interleave too. |
| `lifecycle_shutdown_stops` | pass | `ShutdownStops`: after any Shutdown returns, ok or err, `run()` and `finishBootstrap` exit, wherever bootstrap was waiting. `ReadyUnlessTimedOut`: if raft catches up, `SetClient` runs and no Shutdown is called, `Ready` fires unless `WaitForLeader` timed out first, in every order of `SetClient` against the bootstrap steps (the buffered `rpcReady` send is not lost). Fairness is WF on the goroutines' own steps. None is assumed for raft, which may never elect a leader. This run also uses `MC_ComponentLifecycles`. It enables `ServeFaults` and checks one more property. `ShutdownAnswersRequests`: a `Shutdown` that takes the lock ends every CLI request still waiting at the listener. After a `Serve` failure, closing the listener is the only thing that ends such a request (30,012 states). |
| `lifecycle_double_shutdown` | violation | `NoPanic` fails with snapshot faults. See finding 5. |

### Finding 5

**Shutdown is not idempotent after a failure** (`peerutils.go:191`,
`197-205`). Shutdown closes `rpcReady` before the snapshot. The flag is set
only on success. After a raft error, a second Shutdown closes `rpcReady`
again and panics. This happens for example when the cluster's Shutdown
follows the peer manager's self-removal. The spec (section 5) says Shutdown
is safe to call twice.

A related divergence is reachable. If `WaitForLeader` times out before the
election, `finishBootstrap` returns and `Ready` never fires
(`peerutils.go:143`): nothing retries it. This is the code's design, so
`ReadyUnlessTimedOut` takes the timeout as its premise and checks every
other path; the hazard list records the give-up itself.

## 6. Module `PeerManager` (src/peer_manager.go)

### State

The module keeps four views of membership:

| Variable | Code |
|---|---|
| `peerSet` | `pm.peerSet`, under `peerSetMux`. |
| `addrs` | Peerstore addresses. |
| `cfgPeers` | The config's `ClusterPeers`. |
| `transport` | Consensus membership. |

It also keeps `leaving`, which is set by `rmPeer(self)`, `stopped`, set
when `selfShutdown` has shut the cluster down (no RPC is served after it),
and one `proc[h]` per RPC handler goroutine.

### Actions

Each action is one locked section or one unlocked call:
* `AddCheck` (RLock lookup), `AddInsert`, `AddAddrAndConfig`,
  `AddConsensus` (with `config.Save`);
* `RmCheck`, `RmDelete`, `RmAddrAndConfig`, `RmConsensus` (with the
  self-removal branch);
* `addFromMultiaddrs`: `FromReset` (`resetPeerSet`: the set is just this
  peer), `FromEmptyConfig` (`ClusterPeers` emptied), then `FromNext`, which
  runs the `addPeer` steps for each address in turn (`AddReturn` sends
  `addPeer`'s return back to the loop);
* `SelfShutdown`: the goroutine `rmPeer(self)` starts, which after its grace
  period shuts the cluster down.

`Init` is the state `addFromMultiaddrs` leaves at start-up.

### Runs

The runs use this peer, 2 other peers and 4 calls, so there is no fairness
(safety only). The property, `MembershipConsistent`, says that whenever no
handler is running and this peer is not leaving, the config lists exactly
the other members of `peerSet`, each of them has an address, and each is a
consensus member. It does not ask the converse: `resetPeerSet` clears
`peerSet` but leaves the consensus and peerstore entries of dropped peers
(a stale-state hazard in `PROJECT.json`).

| Run | Result | What it shows |
|---|---|---|
| `peers_sequential` | pass | `MembershipConsistent` holds with one handler goroutine running add, rm and addFromMultiaddrs calls. |
| `peers_race` | violation | `MembershipConsistent` fails with two. See finding 6. |

### Finding 6

**Concurrent addPeer and rmPeer of one peer leave the views disagreeing**
(`peer_manager.go:37-59`). The trace:
1. `addPeer(q)` inserts q and sets its address and config entry.
2. `rmPeer(q)` runs completely.
3. `addPeer` then calls `consensus.AddPeer(q)`.

The consensus now has q as a member while `peerSet`, the peerstore and the
config do not. Each step holds the lock only around its own map access.

With `addFromMultiaddrs` in the model, TLC's shortest counterexample (9
steps) races it against `addPeer(q)`:
1. `addPeer(q)` inserts q into `peerSet`.
2. `addFromMultiaddrs` runs `resetPeerSet`, which drops q, and empties the
   config.
3. `addPeer` then writes q's address and config entry and makes q a
   consensus member.

The config and the consensus now list q, but `peerSet` does not.

## 7. Module `NumPinAllocator` (src/allocator/numpin.go)

The allocator is pure, so the module is operators with one step:
* `Init` picks a candidates map over 3 peers and an order in which Go's
  `range` visits it.
* `AllocateStep` computes `Allocate`.

The inputs are exactly what `numpinInformer.GetMetric` returns
(`GetMetric`):
* the zero metric, from a nil client (before `SetClient` or after
  `Shutdown`);
* a `numpin` metric with value `ToString(n)`, valid or not;
* either one expired or not.

The operators:
* `NewMetricsSorter` filters on the metric name, `Discard` and `Atoi`.
* `SortPeers` is the insertion sort that `sort.Sort` runs for fewer than 7
  elements. It is written as the RECURSIVE `SiftDown` / `InsertFrom` over
  `Less` and `Swap`.

| Run | Result | What it shows |
|---|---|---|
| `allocator_reference` | pass | `AllocateMatchesReference`: for every map and iteration order, the result is one of the sorted permutations of the eligible peers (checked with `SetToSeqs` and `IsSorted`). Pin counts run 0..2, so ties and all orders occur. |

Ties keep map order, which Go randomises, so equal metrics give different
allocations on different runs. Spec scenario 2 says the choice is
deterministic. This is recorded as a hazard. It does not matter for
replicas, because the allocation is committed to the log.

## 8. Modules `RestApi` and `ComponentLifecycles` (src/unnamed/part_003, src/cmd/request.go)

`NewREST` opens the TCP listener and starts `run()`. The goroutine
`run()` starts blocks on `rpcReady` and only then calls
`server.Serve(listener)`. So between `NewREST` and `SetClient` the port
accepts connections that nobody serves. The CLI's `request()` builds a
context with the `--timeout` deadline, but it attaches it with
`r.WithContext(ctx)` and throws the result away. Its `http.Client` has no
timeout either, so a CLI request waits until the server answers or the
connection is reset.

| Name | Code |
|---|---|
| `Init` | `NewREST` after `net.Listen` succeeded; `run()` has done `wg.Add(1)`. |
| `RunServe` | `<-rest.rpcReady` (the item `SetClient` sent, or the closed channel), then `Serve`. |
| `ServeReturn` | `Serve` returns once the listener is closed; `wg.Done`. |
| `ServeFails` | `Serve` returns another accept error while the listener is still open (only when `ServeFaults`). The goroutine logs the error and calls `wg.Done`. Nothing serves the open listener after that. |
| `Accept`, `Handle` | `Serve` accepts a queued connection; the handler calls `rpcClient.Call` and sends a response (`Returned`). All handlers have this shape, so one action stands for all of them. |
| `Request` | The CLI's `request()`: it queues at an open listener, or gets a refused connection and a nil response. |
| `SetClient` | `rest.rpcClient = c; rest.rpcReady <- struct{}{}`. |
| `ShutdownLock` | The lock and the flag check. |
| `CloseRpcReady` | `close(rest.rpcReady)`. |
| `CloseListener` | `listener.Close()`: connections still in the accept backlog are reset. |
| `ShutdownWait` | `wg.Wait()` while holding the lock, then the flag. |

`ComponentLifecycles` puts the two lifecycle components side by side: the
coordinator gives both a client and calls `Shutdown` on both, and a panic in
either stops the whole process (they share `panicked`). Apart from that they
share no state, so each component's step leaves the other's variables
unchanged. The coordinator calls `SetClient` once, before any `Shutdown`, as
for the Consensus. Fairness is WF on the server's goroutines and on a
`Shutdown` call in progress. The CLI user, `SetClient` and `Shutdown` calls
are not assumed to happen.

| Run | Result | What it shows |
|---|---|---|
| `lifecycle_no_panic` | pass | `RestShutdownReturns`: a REST `Shutdown` that takes the lock returns, and `run()` has exited by then. This is because closing the listener ends `Serve`, which `wg.Wait` waits for under the lock. `RequestsReturn`: once `SetClient` has been called, every CLI request that reached the listener gets a response or a reset. This holds in every order of `SetClient`, `Serve`, the accept and the listener's close. Two Shutdown callers and two CLI requests are used (63,840 states). |

If the coordinator never calls `SetClient` (a start-up that stalls), a
request sent in that window waits for ever, because the CLI's deadline
reaches nothing. `RequestsReturn` takes `SetClient` as its premise for that
reason. The hazard is listed in `PROJECT.json` (`cmd/request.go:37`).

## 9. Not modelled (and why)

* REST handlers, CLI, JSON and multiaddr parsing: these are pure I/O and
  formatting.
* The CLI commands (`cmd/root.go`, `cmd/id.go`): these are flag
  registration and one `request("GET", "/id", nil)` call. `request` is
  modelled as `Request`. As written, `cmd/id.go` does not compile:
  `resp` is declared and not used, and `fmt` is imported and not used.
  So the command line cannot be built from `src/` as it stands.
* The RPC API (`api/rpc.go`): each method forwards to one component
  method. The ones whose target is in `src/` are the callers the models
  already have: `PeerManagerAddPeer` and `PeerManagerRmPeer` are
  `PeerManager`'s `Call`, and `Track`, `Untrack`, `Recover` and `Sync`
  are `MapPinTracker`'s actions. The rest call `cluster.go` or the
  monitor, which are not in `src/`.
* The IPFS HTTP connector: only its contract is modelled, as the `ipfs`
  set with failures that may come before or after the effect.
* The coordinator (`cluster.go`): it is not in `src/`. It is planned as a
  spec-modelled composition (plan item 7).
* Shared state (`mapstate.go`): a map upsert and delete, each under one
  `RWMutex` section, so every operation is atomic and there is nothing to
  interleave inside it. Its only concurrent user, the raft FSM's apply, is
  in the consensus library, not in `src/`. Modelling the FSM state as a
  fold of the committed log with these operators would only restate the
  operators: the log itself is already checked against `OpLog`.
* The informer's `SetClient` / `Shutdown` racing `GetMetric`. Its caller,
  the peer monitor's metric loop, and the order in which the cluster stops
  that loop and shuts the informer down are not in `src/`. Without them
  the model cannot tell whether the race happens.
* `Consensus.Rollback`: it delegates to the raft library's snapshot
  rollback, which is not in `src/`.
* The one-second grace of `selfShutdown` is not timed. It is the
  interleaving of `RmConsensus` for this peer with later handler calls
  before `SelfShutdown`, and the model reaches it: an `addPeer` served
  then refills the config that was just emptied. No property states that
  a removed peer's saved config is empty. Whether other peers still send
  it `PeerManagerAddPeer` depends on raft and the coordinator, which are
  not in `src/`. The hazard is listed in `PROJECT.json`.
* REST API routing, JSON decoding and encoding, and the per-method RPC
  calls of the handlers: these are formatting and forwarding. `Handle`
  stands for all of them.
* `Status` and `StatusAll`: they are read-only and change nothing.
* Timestamps beyond the one "older than the timeout" bit.
* Error strings: the spec's error kinds are told apart only by polarity
  (PinError / UnpinError).
