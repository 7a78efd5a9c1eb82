---------------------------- MODULE GatewayDrain ----------------------------
(***************************************************************************)
(* The SQL gateway server: accepting client connections, the sessions they  *)
(* run in, and a shutdown that drains them.                                  *)
(*                                                                           *)
(*   - the serve loop starts one goroutine per accepted connection;          *)
(*   - startSession registers the connection with the timedWaitGroup         *)
(*     (Add) and, when its context ends, closes it and deregisters (Done);   *)
(*   - the shutdown hook closes the listeners and, on a graceful shutdown,   *)
(*     waits for the group (Wait); the session contexts end after the hook.  *)
(*                                                                           *)
(* A step is what happens between two acquisitions of the group's mutex or   *)
(* accesses to its atomic counter.                                           *)
(***************************************************************************)
EXTENDS Integers, FiniteSets

CONSTANTS
    Conns,             \* client connections
    DrainingTimeouts   \* the drainingTimeouts that are configured

ASSUME ConnsAssumption == IsFiniteSet(Conns)
ASSUME DrainingAssumption == DrainingTimeouts \subseteq {"zero", "positive", "negative"}

VARIABLES
    conn,       \* the goroutine of each connection
    count,      \* timedWaitGroup.connectionCount
    closed,     \* timedWaitGroup.closed
    complete,   \* timedWaitGroup.completeChan is closed
    hook,       \* the shutdown hook
    result,     \* what Wait returned to the hook
    run,        \* runWithListeners
    cause,      \* why the run context was cancelled, if it was
    draining    \* the sign of the drainingTimeout of this server

vars == <<conn, count, closed, complete, hook, result, run, cause, draining>>

(* "zero": Done has decremented the counter to 0, and not yet locked. *)
ConnPC == {"client", "accepted", "active", "ending", "zero", "ended"}
HookPC == {"armed", "closing", "wait", "load", "select", "done"}

TypeOK ==
    /\ conn \in [Conns -> ConnPC]
    /\ count \in Nat
    /\ closed \in BOOLEAN
    /\ complete \in BOOLEAN
    /\ hook \in HookPC
    /\ result \in {"none", "nil", "timeout"}
    /\ run \in {"serving", "draining", "returned", "failed"}
    /\ cause \in {"none", "shutdown", "sibling"}
    /\ draining \in DrainingTimeouts

Init ==
    /\ conn = [c \in Conns |-> "client"]
    /\ count = 0
    /\ closed = FALSE
    /\ complete = FALSE
    /\ hook = "armed"
    /\ result = "none"
    /\ run = "serving"
    /\ cause = "none"
    /\ draining \in DrainingTimeouts

-----------------------------------------------------------------------------
(* Connections *)

(* The context of the sessions ends only once the shutdown hook has returned. *)
ContextEnded == hook = "done"

(* server.serve accepts a connection while its listener is open. *)
Accept(c) ==
    /\ conn[c] = "client"
    /\ hook \in {"armed", "closing"}
    /\ conn' = [conn EXCEPT ![c] = "accepted"]
    /\ UNCHANGED <<count, closed, complete, hook, result, run, cause, draining>>

(* Mutant of StartSession: Add does not look at closed. *)
StartSessionAlways(c) ==
    /\ conn[c] = "accepted"
    /\ conn' = [conn EXCEPT ![c] = "active"]
    /\ count' = count + 1
    /\ UNCHANGED <<closed, complete, hook, result, run, cause, draining>>

(* startSession: Add registers the connection, or the connection is refused. *)
StartSession(c) ==
    /\ conn[c] = "accepted"
    /\ \/ /\ closed
          /\ conn' = [conn EXCEPT ![c] = "ended"]
          /\ UNCHANGED count
       \/ /\ ~closed
          /\ conn' = [conn EXCEPT ![c] = "active"]
          /\ count' = count + 1
    /\ UNCHANGED <<closed, complete, hook, result, run, cause, draining>>

(* The session ends on its own, with or without an error, or because its      *)
(* context has ended; the client connection is closed.                         *)
EndSession(c) ==
    /\ conn[c] = "active"
    /\ conn' = [conn EXCEPT ![c] = "ending"]
    /\ UNCHANGED <<count, closed, complete, hook, result, run, cause, draining>>

(* Mutant of Done: the counter is compared with 0 before it is decremented. *)
DoneEarly(c) ==
    /\ conn[c] = "ending"
    /\ count' = count - 1
    /\ conn' = [conn EXCEPT ![c] = IF count = 0 THEN "zero" ELSE "ended"]
    /\ UNCHANGED <<closed, complete, hook, result, run, cause, draining>>

(* Done, up to the mutex: only the decrement that reaches 0 goes on. *)
Done(c) ==
    /\ conn[c] = "ending"
    /\ count' = count - 1
    /\ conn' = [conn EXCEPT ![c] = IF count' = 0 THEN "zero" ELSE "ended"]
    /\ UNCHANGED <<closed, complete, hook, result, run, cause, draining>>

(* Done, under the mutex: signal completion if Wait has been called. *)
DoneSignal(c) ==
    /\ conn[c] = "zero"
    /\ complete' = (complete \/ closed)
    /\ conn' = [conn EXCEPT ![c] = "ended"]
    /\ UNCHANGED <<count, closed, hook, result, run, cause, draining>>

-----------------------------------------------------------------------------
(* Shutdown *)

(* The run context is cancelled by a failing sibling, or the shutdown signal   *)
(* arrives, which may also happen after a sibling has failed.                  *)
CancelRun ==
    /\ \/ cause = "none" /\ cause' \in {"shutdown", "sibling"}
       \/ cause = "sibling" /\ cause' = "shutdown"
    /\ UNCHANGED <<conn, count, closed, complete, hook, result, run, draining>>

ShuttingDown == cause = "shutdown"

(* The hook runs when the run context is cancelled, or when runWithListeners  *)
(* returns on an error of its own.  It closes the listeners.                   *)
HookStart ==
    /\ hook = "armed"
    /\ cause # "none" \/ run = "failed"
    /\ hook' = "closing"
    /\ UNCHANGED <<conn, count, closed, complete, result, run, cause, draining>>

(* Without a graceful shutdown the hook skips draining. *)
HookDecide ==
    /\ hook = "closing"
    /\ hook' = IF ShuttingDown THEN "wait" ELSE "done"
    /\ UNCHANGED <<conn, count, closed, complete, result, run, cause, draining>>

(* Wait: further calls of Add are refused. *)
WaitClose ==
    /\ hook = "wait"
    /\ closed' = TRUE
    /\ hook' = "load"
    /\ UNCHANGED <<conn, count, complete, result, run, cause, draining>>

(* Wait returns at once when there is nothing to wait for. *)
WaitLoad ==
    /\ hook = "load"
    /\ \/ /\ count = 0 \/ draining = "zero"
          /\ complete' = TRUE
          /\ hook' = "done"
          /\ result' = "nil"
       \/ /\ count # 0 /\ draining # "zero"
          /\ hook' = "select"
          /\ UNCHANGED <<complete, result>>
    /\ UNCHANGED <<conn, count, closed, run, cause, draining>>

(* Wait returns when completion is signalled, or after a positive timeout. *)
WaitSelect ==
    /\ hook = "select"
    /\ \/ complete /\ result' = "nil"
       \/ draining = "positive" /\ result' = "timeout"
    /\ hook' = "done"
    /\ UNCHANGED <<conn, count, closed, complete, run, cause, draining>>

(* runWithListeners: a serve loop has returned, because its listener was      *)
(* closed or failed.  A graceful shutdown waits for the hook.                  *)
ServeReturns ==
    /\ run = "serving"
    /\ run' = IF ShuttingDown THEN "draining" ELSE "failed"
    /\ UNCHANGED <<conn, count, closed, complete, hook, result, cause, draining>>

RunReturns ==
    /\ run = "draining"
    /\ hook = "done"
    /\ run' = "returned"
    /\ UNCHANGED <<conn, count, closed, complete, hook, result, cause, draining>>

Terminated ==
    /\ run \in {"returned", "failed"}
    /\ hook = "done"
    /\ \A c \in Conns : conn[c] \in {"client", "ended"}
    /\ UNCHANGED vars

ConnStep(c) == Accept(c) \/ StartSession(c) \/ EndSession(c) \/ Done(c) \/ DoneSignal(c)

HookStep == HookStart \/ HookDecide \/ WaitClose \/ WaitLoad \/ WaitSelect

Next ==
    \/ \E c \in Conns : ConnStep(c)
    \/ CancelRun \/ HookStep
    \/ ServeReturns \/ RunReturns \/ Terminated

Spec == Init /\ [][Next]_vars

(* Goroutines run; the listener's Accept returns once the hook has closed it; *)
(* a session ends once its context has.                                        *)
Fairness ==
    /\ WF_vars(HookStep)
    /\ WF_vars(RunReturns)
    /\ WF_vars(hook # "armed" /\ ServeReturns)
    /\ \A c \in Conns : /\ WF_vars(StartSession(c))
                        /\ WF_vars(Done(c))
                        /\ WF_vars(DoneSignal(c))
                        /\ WF_vars(ContextEnded /\ EndSession(c))

FairSpec == Spec /\ Fairness

-----------------------------------------------------------------------------
(* The connections between their Add and the decrement of their Done. *)
Registered == {c \in Conns : conn[c] \in {"active", "ending"}}

(* The counter never drifts from the connections that are registered, so it   *)
(* reaches 0 exactly when the last of them is done.                            *)
CountIsRegistered == count = Cardinality(Registered)

(* Completion cannot be lost: while Wait blocks on an empty group, completion *)
(* has been signalled, or the Done that emptied the group is about to signal   *)
(* it.                                                                         *)
NoLostCompletion ==
    hook = "select" /\ count = 0 => complete \/ \E c \in Conns : conn[c] = "zero"

(* Once Wait has been called the group only shrinks. *)
ClosedGroupShrinks == [][closed => closed' /\ count' <= count]_vars

(* A graceful shutdown ends once the sessions have, even without a limit on   *)
(* the draining time.                                                          *)
DrainEnds ==
    (ShuttingDown /\ run \notin {"returned", "failed"}) ~>
        \/ run \in {"returned", "failed"}
        \/ \E c \in Conns : conn[c] = "active"

=============================================================================
