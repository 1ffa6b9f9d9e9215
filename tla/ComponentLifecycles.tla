------------------------- MODULE ComponentLifecycles -------------------------
(***************************************************************************)
(* The Consensus component and the REST API side by side, as the cluster  *)
(* runs them: the coordinator gives each its RPC client with SetClient    *)
(* and calls Shutdown on each, and both live in one process, so a panic   *)
(* in either (the shared variable panicked) stops every goroutine.  Each  *)
(* component's steps leave the other's variables alone.                   *)
(***************************************************************************)
EXTENDS Naturals

CONSTANTS ShutdownCalls, SnapshotFaults, Requests, ServeFaults

VARIABLES
    runPc, bootPc, ctxDone, leader, caughtUp, rpcClient, rpcReady,
    shutdownCh, ready, shutdown, lockHolder, shut, leaderTimedOut,
    restRunPc, restRpcClient, restRpcReady, listener, restShutdown,
    restLockHolder, restShut, req,
    panicked

Consensus == INSTANCE ConsensusLifecycle

Rest == INSTANCE RestApi
        WITH runPc <- restRunPc, rpcClient <- restRpcClient,
             rpcReady <- restRpcReady, shutdown <- restShutdown,
             lockHolder <- restLockHolder, shut <- restShut

consensusVars == <<runPc, bootPc, ctxDone, leader, caughtUp, rpcClient,
                   rpcReady, shutdownCh, ready, shutdown, lockHolder, shut,
                   leaderTimedOut>>

restVars == <<restRunPc, restRpcClient, restRpcReady, listener, restShutdown,
              restLockHolder, restShut, req>>

vars == <<consensusVars, restVars, panicked>>

Init == Consensus!Init /\ Rest!Init

Next ==
    \/ Consensus!Next /\ UNCHANGED restVars
    \/ Rest!Next /\ UNCHANGED consensusVars

Spec == Init /\ [][Next]_vars /\ Consensus!Fairness /\ Rest!Fairness

---------------------------------------------------------------------------
(* Properties *)

(* No Shutdown of either component, in any interleaving with the other's *)
(* goroutines, closes a closed channel or calls through a nil client.     *)
NoPanic == Consensus!NoPanic

(* After a Consensus Shutdown returns, run() and finishBootstrap exit. *)
ShutdownStops == Consensus!ShutdownStops

(* finishBootstrap signals Ready unless WaitForLeader timed out or the    *)
(* component was shut down.                                               *)
ReadyUnlessTimedOut == Consensus!ReadyUnlessTimedOut

(* A REST API Shutdown that takes the lock returns after run() exits. *)
RestShutdownReturns == Rest!ShutdownReturns

(* A CLI request queued at the REST listener is answered once SetClient   *)
(* has been called.                                                        *)
RequestsReturn == Rest!RequestsReturn

(* A REST Shutdown ends every CLI request still waiting at the listener, *)
(* also after Serve failed.                                               *)
ShutdownAnswersRequests == Rest!ShutdownAnswersRequests

=============================================================================
