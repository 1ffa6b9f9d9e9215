------------------------- MODULE ConsensusLifecycle -------------------------
(***************************************************************************)
(* The lifecycle of the Consensus component (src/cluster/peerutils.go):    *)
(* NewConsensus starts run(), whose goroutine spawns finishBootstrap and   *)
(* waits on shutdownCh; finishBootstrap waits for a leader and for the    *)
(* log to catch up, waits for SetClient through rpcReady, asks the        *)
(* cluster for a StateSync and signals readyCh; Shutdown closes rpcReady, *)
(* signals shutdownCh, snapshots and stops raft, and waits for run().     *)
(*                                                                         *)
(* Raft (leader election, catching up, Snapshot, Shutdown) is modelled    *)
(* from spec section 4.2.  The coordinator calls SetClient once, before   *)
(* any Shutdown; Shutdown may be called by several goroutines (the        *)
(* cluster's Shutdown and the peer manager's self-removal).               *)
(***************************************************************************)
EXTENDS Naturals

CONSTANTS
    ShutdownCalls,   \* goroutines that call Shutdown (each at most once)
    SnapshotFaults   \* raft.Snapshot / raft.Shutdown may return an error

VARIABLES
    runPc,       \* the goroutine started by run()
    bootPc,      \* the finishBootstrap goroutine
    ctxDone,     \* the context run() created, cancelled when it returns
    leader,      \* raft has a leader
    caughtUp,    \* the local FSM caught up with the leader
    rpcClient,   \* "nil" until SetClient
    rpcReady,    \* [buf : 0..1, closed : BOOLEAN], capacity 1
    shutdownCh,  \* buffered items, capacity 1
    ready,       \* readyCh has been signalled
    shutdown,    \* the shutdown flag
    lockHolder,  \* holder of shutdownLock, or "none"
    shut,        \* per Shutdown caller: where it is
    panicked,    \* the process panicked (close of a closed channel, nil use)
    leaderTimedOut \* WaitForLeader returned on its LeaderTimeout deadline

vars == <<runPc, bootPc, ctxDone, leader, caughtUp, rpcClient, rpcReady,
          shutdownCh, ready, shutdown, lockHolder, shut, panicked,
          leaderTimedOut>>

Init ==
    /\ runPc = "start"
    /\ bootPc = "none"
    /\ ctxDone = FALSE
    /\ leader = FALSE
    /\ caughtUp = FALSE
    /\ rpcClient = "nil"
    /\ rpcReady = [buf |-> 0, closed |-> FALSE]
    /\ shutdownCh = 0
    /\ ready = FALSE
    /\ shutdown = FALSE
    /\ lockHolder = "none"
    /\ shut = [s \in ShutdownCalls |-> "idle"]
    /\ panicked = FALSE
    /\ leaderTimedOut = FALSE

Alive == ~panicked

---------------------------------------------------------------------------
(* run(): the goroutine starts finishBootstrap, then blocks on shutdownCh; *)
(* on return its deferred cancel() ends the context and wg.Done() fires.  *)
RunStart ==
    /\ Alive /\ runPc = "start"
    /\ runPc' = "waiting"
    /\ bootPc' = "waitLeader"
    /\ UNCHANGED <<ctxDone, leader, caughtUp, rpcClient, rpcReady, shutdownCh,
                   ready, shutdown, lockHolder, shut, panicked,
                   leaderTimedOut>>

RunExit ==
    /\ Alive /\ runPc = "waiting"
    /\ shutdownCh = 1
    /\ shutdownCh' = 0
    /\ runPc' = "exited"
    /\ ctxDone' = TRUE
    /\ UNCHANGED <<bootPc, leader, caughtUp, rpcClient, rpcReady, ready,
                   shutdown, lockHolder, shut, panicked,
                   leaderTimedOut>>

BootUnchanged == UNCHANGED <<runPc, ctxDone, leader, caughtUp, rpcClient,
                             shutdownCh, shutdown, lockHolder, shut,
                             leaderTimedOut>>

(* WaitForSync, WaitForLeader(leaderCtx): a leader, or, while there is    *)
(* none, the LeaderTimeout deadline (or cancellation), after which         *)
(* finishBootstrap just returns.                                           *)
WaitForLeader ==
    /\ Alive /\ bootPc = "waitLeader"
    /\ \/ leader /\ bootPc' = "waitUpdates" /\ UNCHANGED leaderTimedOut
       \/ /\ ~leader \/ ctxDone
          /\ bootPc' = "exited"
          /\ leaderTimedOut' = ~ctxDone
    /\ UNCHANGED <<rpcReady, ready, panicked>>
    /\ UNCHANGED <<runPc, ctxDone, leader, caughtUp, rpcClient, shutdownCh,
                   shutdown, lockHolder, shut>>

(* WaitForUpdates bounded by the context passed in. *)
WaitForUpdatesNoCtx ==
    /\ Alive /\ bootPc = "waitUpdates"
    /\ caughtUp /\ bootPc' = "checkClient"
    /\ UNCHANGED <<rpcReady, ready, panicked>>
    /\ BootUnchanged

(* WaitForSync, WaitForUpdates(cc.ctx): caught up, or the context ended.  *)
WaitForUpdates ==
    /\ Alive /\ bootPc = "waitUpdates"
    /\ \/ caughtUp /\ bootPc' = "checkClient"
       \/ ctxDone /\ bootPc' = "exited"
    /\ UNCHANGED <<rpcReady, ready, panicked>>
    /\ BootUnchanged

(* if cc.rpcClient == nil { select { <-ctx.Done(): return; <-rpcReady } } *)
CheckClient ==
    /\ Alive /\ bootPc = "checkClient"
    /\ bootPc' = IF rpcClient = "nil" THEN "select" ELSE "sync"
    /\ UNCHANGED <<rpcReady, ready, panicked>>
    /\ BootUnchanged

SelectReadyNoBuffer ==
    /\ Alive /\ bootPc = "select"
    /\ \/ ctxDone /\ bootPc' = "exited" /\ UNCHANGED rpcReady
       \/ /\ rpcReady.closed
          /\ rpcReady' = [rpcReady EXCEPT !.buf = 0]
          /\ bootPc' = "sync"
    /\ UNCHANGED <<ready, panicked>>
    /\ BootUnchanged

(* A receive from rpcReady takes the buffered item, or succeeds at once  *)
(* when the channel is closed and empty.                                    *)
SelectReady ==
    /\ Alive /\ bootPc = "select"
    /\ \/ ctxDone /\ bootPc' = "exited" /\ UNCHANGED rpcReady
       \/ /\ rpcReady.buf > 0 \/ rpcReady.closed
          /\ rpcReady' = [rpcReady EXCEPT !.buf = 0]
          /\ bootPc' = "sync"
    /\ UNCHANGED <<ready, panicked>>
    /\ BootUnchanged

(* cc.rpcClient.Go("", "Cluster", "StateSync", ...) when a state exists,  *)
(* then readyCh <- struct{}{} (capacity 1, sent once).  A nil client is   *)
(* a nil pointer dereference.                                              *)
StateSyncAndReady ==
    /\ Alive /\ bootPc = "sync"
    /\ IF rpcClient = "nil"
       THEN panicked' = TRUE /\ UNCHANGED ready
       ELSE ready' = TRUE /\ UNCHANGED panicked
    /\ bootPc' = "exited"
    /\ UNCHANGED rpcReady
    /\ BootUnchanged

---------------------------------------------------------------------------
(* SetClient: rpcClient = c; rpcReady <- struct{}{}. *)
SetClient ==
    /\ Alive /\ rpcClient = "nil"
    /\ \A s \in ShutdownCalls : shut[s] = "idle"
    /\ rpcReady.buf = 0
    /\ rpcClient' = "set"
    /\ rpcReady' = [rpcReady EXCEPT !.buf = 1]
    /\ UNCHANGED <<runPc, bootPc, ctxDone, leader, caughtUp, shutdownCh,
                   ready, shutdown, lockHolder, shut, panicked,
                   leaderTimedOut>>

ShutUnchanged == UNCHANGED <<runPc, bootPc, ctxDone, leader, caughtUp,
                             rpcClient, ready, leaderTimedOut>>

(* A goroutine calls Shutdown and takes shutdownLock; if already shut     *)
(* down it returns nil at once.                                            *)
ShutdownLock(s) ==
    /\ Alive /\ rpcClient # "nil"
    /\ shut[s] = "idle" /\ lockHolder = "none"
    /\ IF shutdown
       THEN /\ shut' = [shut EXCEPT ![s] = "ok"]
            /\ UNCHANGED lockHolder
       ELSE /\ shut' = [shut EXCEPT ![s] = "close"]
            /\ lockHolder' = s
    /\ UNCHANGED <<rpcReady, shutdownCh, shutdown, panicked>>
    /\ ShutUnchanged

(* close(cc.rpcReady): closing a closed channel panics. *)
CloseRpcReady(s) ==
    /\ Alive /\ shut[s] = "close"
    /\ IF rpcReady.closed
       THEN /\ panicked' = TRUE
            /\ UNCHANGED <<rpcReady, shut>>
       ELSE /\ rpcReady' = [rpcReady EXCEPT !.closed = TRUE]
            /\ shut' = [shut EXCEPT ![s] = "send"]
            /\ UNCHANGED panicked
    /\ UNCHANGED <<shutdownCh, shutdown, lockHolder>>
    /\ ShutUnchanged

(* cc.shutdownCh <- struct{}{} (capacity 1). *)
SignalRun(s) ==
    /\ Alive /\ shut[s] = "send"
    /\ shutdownCh = 0
    /\ shutdownCh' = 1
    /\ shut' = [shut EXCEPT ![s] = "raft"]
    /\ UNCHANGED <<rpcReady, shutdown, lockHolder, panicked>>
    /\ ShutUnchanged

(* raft.Snapshot() and raft.Shutdown(); any error is returned without     *)
(* setting the shutdown flag.                                              *)
RaftShutdown(s) ==
    /\ Alive /\ shut[s] = "raft"
    /\ \/ shut' = [shut EXCEPT ![s] = "wait"] /\ UNCHANGED lockHolder
       \/ /\ SnapshotFaults
          /\ shut' = [shut EXCEPT ![s] = "err"]
          /\ lockHolder' = "none"
    /\ UNCHANGED <<rpcReady, shutdownCh, shutdown, panicked>>
    /\ ShutUnchanged

(* The last step with the flag left unset. *)
ShutdownWaitNoFlag(s) ==
    /\ Alive /\ shut[s] = "wait"
    /\ runPc = "exited"
    /\ shut' = [shut EXCEPT ![s] = "ok"]
    /\ lockHolder' = "none"
    /\ UNCHANGED <<rpcReady, shutdownCh, shutdown, panicked>>
    /\ ShutUnchanged

(* cc.wg.Wait() for run(); cc.shutdown = true; unlock; return nil. *)
ShutdownWait(s) ==
    /\ Alive /\ shut[s] = "wait"
    /\ runPc = "exited"
    /\ shutdown' = TRUE
    /\ shut' = [shut EXCEPT ![s] = "ok"]
    /\ lockHolder' = "none"
    /\ UNCHANGED <<rpcReady, shutdownCh, panicked>>
    /\ ShutUnchanged

ShutdownStep(s) ==
    \/ ShutdownLock(s)
    \/ CloseRpcReady(s)
    \/ SignalRun(s)
    \/ RaftShutdown(s)
    \/ ShutdownWait(s)

---------------------------------------------------------------------------
(* Raft, from the spec: a leader is elected, the log catches up. *)
ElectLeader ==
    /\ Alive /\ ~leader
    /\ leader' = TRUE
    /\ UNCHANGED <<runPc, bootPc, ctxDone, caughtUp, rpcClient, rpcReady,
                   shutdownCh, ready, shutdown, lockHolder, shut, panicked,
                   leaderTimedOut>>

CatchUp ==
    /\ Alive /\ leader /\ ~caughtUp
    /\ caughtUp' = TRUE
    /\ UNCHANGED <<runPc, bootPc, ctxDone, leader, rpcClient, rpcReady,
                   shutdownCh, ready, shutdown, lockHolder, shut, panicked,
                   leaderTimedOut>>

BootStep ==
    \/ WaitForLeader
    \/ WaitForUpdates
    \/ CheckClient
    \/ SelectReady
    \/ StateSyncAndReady

Next ==
    \/ RunStart \/ RunExit
    \/ BootStep
    \/ SetClient
    \/ \E s \in ShutdownCalls : ShutdownStep(s)
    \/ ElectLeader \/ CatchUp

(* The goroutines run; raft, SetClient and the Shutdown calls are not     *)
(* assumed to happen.                                                      *)
Fairness ==
    /\ WF_vars(RunStart) /\ WF_vars(RunExit)
    /\ WF_vars(BootStep)
    /\ \A s \in ShutdownCalls : WF_vars(ShutdownStep(s) /\ shut[s] # "idle")

Spec == Init /\ [][Next]_vars /\ Fairness

---------------------------------------------------------------------------
(* Properties *)

(* Shutdown is idempotent and safe to call twice (spec section 5): no     *)
(* interleaving of Shutdown calls, run() and finishBootstrap closes       *)
(* rpcReady twice or calls StateSync through a nil client.                *)
NoPanic == ~panicked

(* Once a Shutdown call has returned, with or without an error, the run() *)
(* goroutine and finishBootstrap eventually exit, wherever finishBootstrap *)
(* was waiting (spec section 5: all tasks exit after cancellation).        *)
ShutdownStops ==
    (\E s \in ShutdownCalls : shut[s] \in {"ok", "err"})
        ~> (runPc = "exited" /\ bootPc = "exited")

(* finishBootstrap reaches readyCh whenever raft elects a leader and      *)
(* catches up, SetClient is called and nobody shuts the component down,   *)
(* unless WaitForLeader gave up on its LeaderTimeout first: in that case  *)
(* finishBootstrap returns and nothing retries it, which is why the       *)
(* timeout is part of the premise.  Whatever order SetClient and the      *)
(* bootstrap steps interleave in, the rpcReady handshake must not lose    *)
(* the wake-up.                                                           *)
ReadyUnlessTimedOut ==
    ( /\ <>caughtUp
      /\ <>(rpcClient # "nil")
      /\ [](\A s \in ShutdownCalls : shut[s] = "idle")
      /\ []~leaderTimedOut )
    => <>ready

=============================================================================
