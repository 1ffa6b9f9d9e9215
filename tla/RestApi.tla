------------------------------ MODULE RestApi ------------------------------
(***************************************************************************)
(* The lifecycle of the REST API component (restAPI in src/unnamed/       *)
(* part_003) and the requests the CLI sends it (src/cmd/request.go).      *)
(*                                                                         *)
(* NewREST opens the TCP listener and calls run(), whose goroutine blocks *)
(* on rpcReady and only then calls server.Serve(listener).  SetClient     *)
(* stores the client and sends on rpcReady.  Shutdown, under              *)
(* shutdownLock, closes rpcReady and the listener, waits for run() and    *)
(* sets the shutdown flag.  A CLI request that connects while the         *)
(* listener is open waits in the accept backlog until Serve accepts it or *)
(* the listener is closed: request() builds a deadline but attaches it to *)
(* a copy of the request it throws away (r.WithContext), and its          *)
(* http.Client has no timeout, so nothing else ends the wait.             *)
(*                                                                         *)
(* The coordinator calls SetClient once, before any Shutdown, as it does  *)
(* for the other components.                                              *)
(***************************************************************************)
EXTENDS Naturals

CONSTANTS
    ShutdownCalls,   \* goroutines that call Shutdown
    Requests,        \* CLI requests (each sent at most once)
    ServeFaults      \* Serve may fail with an accept error of its own

VARIABLES
    runPc,       \* run()'s goroutine: "wait" (on rpcReady), "serve", "exited"
    rpcClient,   \* "nil" until SetClient
    rpcReady,    \* [buf : 0..1, closed : BOOLEAN], capacity 1
    listener,    \* the net.Listener NewREST opened: "open" or "closed"
    shutdown,    \* the shutdown flag
    lockHolder,  \* holder of shutdownLock, or "none"
    shut,        \* per Shutdown caller: where it is
    req,         \* per CLI request: "idle", "queued", "handling", "ok", "err"
    panicked     \* the process panicked

vars == <<runPc, rpcClient, rpcReady, listener, shutdown, lockHolder, shut,
          req, panicked>>

Returned == {"ok", "err"}

(* NewREST after net.Listen succeeded: run() has done wg.Add(1) and its   *)
(* goroutine waits on rpcReady.                                            *)
Init ==
    /\ runPc = "wait"
    /\ rpcClient = "nil"
    /\ rpcReady = [buf |-> 0, closed |-> FALSE]
    /\ listener = "open"
    /\ shutdown = FALSE
    /\ lockHolder = "none"
    /\ shut = [s \in ShutdownCalls |-> "idle"]
    /\ req = [r \in Requests |-> "idle"]
    /\ panicked = FALSE

Alive == ~panicked

---------------------------------------------------------------------------
(* <-rest.rpcReady: takes the item SetClient sent, or passes at once once *)
(* the channel is closed; then Serve(listener).                           *)
RunServe ==
    /\ Alive /\ runPc = "wait"
    /\ rpcReady.buf > 0 \/ rpcReady.closed
    /\ rpcReady' = [rpcReady EXCEPT !.buf = 0]
    /\ runPc' = "serve"
    /\ UNCHANGED <<rpcClient, listener, shutdown, lockHolder, shut, req,
                   panicked>>

(* Serve returns the accept error of the closed listener; the goroutine   *)
(* logs it unless it is "closed network connection" and calls wg.Done.    *)
ServeReturn ==
    /\ Alive /\ runPc = "serve" /\ listener = "closed"
    /\ runPc' = "exited"
    /\ UNCHANGED <<rpcClient, rpcReady, listener, shutdown, lockHolder, shut,
                   req, panicked>>

(* Serve returns another accept error while the listener is open; the    *)
(* goroutine logs it and calls wg.Done, and nobody serves the listener.   *)
ServeFails ==
    /\ Alive /\ ServeFaults
    /\ runPc = "serve" /\ listener = "open"
    /\ runPc' = "exited"
    /\ UNCHANGED <<rpcClient, rpcReady, listener, shutdown, lockHolder, shut,
                   req, panicked>>

(* Serve accepts a connection from the backlog and starts its handler. *)
Accept(r) ==
    /\ Alive /\ runPc = "serve" /\ listener = "open"
    /\ req[r] = "queued"
    /\ req' = [req EXCEPT ![r] = "handling"]
    /\ UNCHANGED <<runPc, rpcClient, rpcReady, listener, shutdown, lockHolder,
                   shut, panicked>>

(* A handler calls rest.rpcClient.Call and sends the response, an error   *)
(* response included.  Through a nil client the call panics in the        *)
(* handler's goroutine; net/http recovers it and drops the connection.    *)
Handle(r) ==
    /\ Alive /\ req[r] = "handling"
    /\ req' = [req EXCEPT ![r] = IF rpcClient = "nil" THEN "err" ELSE "ok"]
    /\ UNCHANGED <<runPc, rpcClient, rpcReady, listener, shutdown, lockHolder,
                   shut, panicked>>

---------------------------------------------------------------------------
(* The CLI's request(): http.Client.Do connects; a closed listener        *)
(* refuses the connection and request() returns a nil response.           *)
Request(r) ==
    /\ Alive /\ req[r] = "idle"
    /\ req' = [req EXCEPT ![r] = IF listener = "open" THEN "queued" ELSE "err"]
    /\ UNCHANGED <<runPc, rpcClient, rpcReady, listener, shutdown, lockHolder,
                   shut, panicked>>

SetClientNoSend ==
    /\ Alive /\ rpcClient = "nil"
    /\ \A s \in ShutdownCalls : shut[s] = "idle"
    /\ rpcClient' = "set"
    /\ UNCHANGED <<runPc, rpcReady, listener, shutdown, lockHolder, shut, req,
                   panicked>>

(* SetClient: rest.rpcClient = c; rest.rpcReady <- struct{}{}. *)
SetClient ==
    /\ Alive /\ rpcClient = "nil"
    /\ \A s \in ShutdownCalls : shut[s] = "idle"
    /\ rpcReady.buf = 0
    /\ rpcClient' = "set"
    /\ rpcReady' = [rpcReady EXCEPT !.buf = 1]
    /\ UNCHANGED <<runPc, listener, shutdown, lockHolder, shut, req, panicked>>

---------------------------------------------------------------------------
(* Shutdown takes shutdownLock; if already shut down it returns nil. *)
ShutdownLock(s) ==
    /\ Alive /\ rpcClient # "nil"
    /\ shut[s] = "idle" /\ lockHolder = "none"
    /\ IF shutdown
       THEN shut' = [shut EXCEPT ![s] = "done"] /\ UNCHANGED lockHolder
       ELSE shut' = [shut EXCEPT ![s] = "close"] /\ lockHolder' = s
    /\ UNCHANGED <<runPc, rpcClient, rpcReady, listener, shutdown, req,
                   panicked>>

(* close(rest.rpcReady): closing a closed channel panics. *)
CloseRpcReady(s) ==
    /\ Alive /\ shut[s] = "close"
    /\ IF rpcReady.closed
       THEN panicked' = TRUE /\ UNCHANGED <<rpcReady, shut>>
       ELSE /\ rpcReady' = [rpcReady EXCEPT !.closed = TRUE]
            /\ shut' = [shut EXCEPT ![s] = "listener"]
            /\ UNCHANGED panicked
    /\ UNCHANGED <<runPc, rpcClient, listener, shutdown, lockHolder, req>>

ShutdownNoListenerClose(s) ==
    /\ Alive /\ shut[s] = "listener"
    /\ shut' = [shut EXCEPT ![s] = "wait"]
    /\ UNCHANGED <<runPc, rpcClient, rpcReady, listener, shutdown, lockHolder,
                   req, panicked>>

(* SetKeepAlivesEnabled(false); listener.Close(): connections still in    *)
(* the accept backlog are reset, so their requests fail.                  *)
CloseListener(s) ==
    /\ Alive /\ shut[s] = "listener"
    /\ listener' = "closed"
    /\ req' = [r \in Requests |-> IF req[r] = "queued" THEN "err" ELSE req[r]]
    /\ shut' = [shut EXCEPT ![s] = "wait"]
    /\ UNCHANGED <<runPc, rpcClient, rpcReady, shutdown, lockHolder, panicked>>

(* rest.wg.Wait() for run(), still holding the lock; rest.shutdown = true. *)
ShutdownWait(s) ==
    /\ Alive /\ shut[s] = "wait" /\ runPc = "exited"
    /\ shutdown' = TRUE
    /\ shut' = [shut EXCEPT ![s] = "done"]
    /\ lockHolder' = "none"
    /\ UNCHANGED <<runPc, rpcClient, rpcReady, listener, req, panicked>>

ShutdownStep(s) ==
    \/ ShutdownLock(s)
    \/ CloseRpcReady(s)
    \/ CloseListener(s)
    \/ ShutdownWait(s)

ServerStep ==
    \/ RunServe
    \/ ServeReturn
    \/ ServeFails
    \/ \E r \in Requests : Accept(r) \/ Handle(r)

Next ==
    \/ ServerStep
    \/ SetClient
    \/ \E r \in Requests : Request(r)
    \/ \E s \in ShutdownCalls : ShutdownStep(s)

(* The server's goroutines and a Shutdown call in progress run; the       *)
(* coordinator's SetClient, the Shutdown calls and the CLI user are not   *)
(* assumed to act.                                                         *)
Fairness ==
    /\ WF_vars(RunServe) /\ WF_vars(ServeReturn)
    /\ \A r \in Requests : WF_vars(Accept(r)) /\ WF_vars(Handle(r))
    /\ \A s \in ShutdownCalls : WF_vars(ShutdownStep(s) /\ shut[s] # "idle")

Spec == Init /\ [][Next]_vars /\ Fairness

---------------------------------------------------------------------------
(* Properties *)

(* Every Shutdown call that takes the lock returns, and run()'s goroutine *)
(* has exited by then: wg.Wait, done while holding shutdownLock, ends     *)
(* only because closing the listener makes Serve return, wherever run()   *)
(* was when Shutdown began (spec section 5: the serving task exits after  *)
(* cancellation).                                                          *)
ShutdownReturns ==
    \A s \in ShutdownCalls :
        (shut[s] = "close") ~> (shut[s] = "done" /\ runPc = "exited")

(* A CLI request that reached the listener gets an answer, a response or  *)
(* a reset connection, provided the coordinator calls SetClient at some   *)
(* point.  Since request() sets no deadline, the premise is what ends the *)
(* wait of a request sent before the API is serving.                      *)
RequestsReturn ==
    <>(rpcClient = "set") =>
        \A r \in Requests : (req[r] = "queued") ~> (req[r] \in Returned)

(* Whatever happened to Serve, a Shutdown call that takes the lock ends   *)
(* every request still waiting at the listener: closing it resets the    *)
(* backlog, which is all that ends a request after Serve failed.          *)
ShutdownAnswersRequests ==
    \A s \in ShutdownCalls, r \in Requests :
        (shut[s] = "close" /\ req[r] = "queued") ~> (req[r] \in Returned)

=============================================================================
