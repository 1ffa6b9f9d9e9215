------------------------------- MODULE OpLog -------------------------------
(***************************************************************************)
(* What the replicated log promises to the callers of LogPin, LogUnpin,    *)
(* LogAddPeer and LogRmPeer (spec section 4.2 and the testable property    *)
(* "Commit(op) returns ok iff the op is in every peer's applied log"):     *)
(* an operation enters the log only while the call that submitted it is   *)
(* running, and a call returns ok only once its operation is in the log.  *)
(* A call may give up with an error at any time.                           *)
(***************************************************************************)
EXTENDS Naturals, Sequences

CONSTANTS CallIds, Ops, NoOp

VARIABLES log, callState, callOp

Entry(i) == [type |-> callOp[i].type, arg |-> callOp[i].arg, call |-> i]

InLog(i) == \E k \in 1..Len(log) : log[k].call = i

Init ==
    /\ log = <<>>
    /\ callState = [i \in CallIds |-> "idle"]
    /\ callOp = [i \in CallIds |-> NoOp]

Invoke(i, op) ==
    /\ callState[i] = "idle"
    /\ callState' = [callState EXCEPT ![i] = "running"]
    /\ callOp' = [callOp EXCEPT ![i] = op]
    /\ UNCHANGED log

(* The op is appended; a synchronous commit may return in the same step. *)
Commit(i) ==
    /\ callState[i] = "running"
    /\ log' = Append(log, Entry(i))
    /\ \E r \in {"running", "ok", "err"} :
         callState' = [callState EXCEPT ![i] = r]
    /\ UNCHANGED callOp

ReturnOk(i) ==
    /\ callState[i] = "running"
    /\ InLog(i)
    /\ callState' = [callState EXCEPT ![i] = "ok"]
    /\ UNCHANGED <<log, callOp>>

ReturnErr(i) ==
    /\ callState[i] = "running"
    /\ callState' = [callState EXCEPT ![i] = "err"]
    /\ UNCHANGED <<log, callOp>>

Next == \E i \in CallIds :
          \/ \E op \in Ops : Invoke(i, op)
          \/ Commit(i)
          \/ ReturnOk(i)
          \/ ReturnErr(i)

Spec == Init /\ [][Next]_<<log, callState, callOp>>
=============================================================================
