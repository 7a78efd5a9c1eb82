----------------------------- MODULE Coalescer -----------------------------
(***************************************************************************)
(* internal/coalesce: concurrent calls of Do for the same key share one      *)
(* running fn, the flight of that key.  Every call may give up when its own  *)
(* context ends; the last one to leave cancels the flight.                    *)
(*                                                                           *)
(* A caller calls Do at most once, so the flight that a caller starts is      *)
(* named after the caller.  A step is one critical section of the mutex, or   *)
(* what a goroutine does between two of them.                                 *)
(***************************************************************************)
EXTENDS Naturals, FiniteSets

CONSTANTS
    Callers,    \* calls of Do
    Keys,       \* keys
    NoFlight    \* no flight is registered for the key

ASSUME CallersAssumption == IsFiniteSet(Callers) /\ NoFlight \notin Callers

VARIABLES
    flights,    \* Coalescer.flights: the registered flight of each key
    flight,     \* every flight ever started, by the caller that started it
    call        \* every caller, inside Do

coalescerVars == <<flights, flight, call>>

(* "running": inside fn; "returned": before it unregisters; "unregistered":   *)
(* before it closes done.                                                      *)
FlightState == {"none", "running", "returned", "unregistered", "done"}

(* What fn returns: a value, an error of its own, or the error of its context. *)
Result == {"none", "value", "error", "canceled"}

Flight == [state : FlightState, key : Keys, cancelled : BOOLEAN,
           numWaiters : Nat, result : Result]

(* "leaving": its context has ended and it is about to lock. *)
Call == [pc : {"idle", "waiting", "leaving", "returned"},
         on : Callers \cup {NoFlight}, result : Result]

CoalescerTypeOK ==
    /\ flights \in [Keys -> Callers \cup {NoFlight}]
    /\ flight \in [Callers -> Flight]
    /\ call \in [Callers -> Call]

CoalescerInit ==
    /\ flights = [k \in Keys |-> NoFlight]
    /\ \E k \in Keys :
           flight = [f \in Callers |-> [state |-> "none", key |-> k, cancelled |-> FALSE,
                                        numWaiters |-> 0, result |-> "none"]]
    /\ call = [c \in Callers |-> [pc |-> "idle", on |-> NoFlight, result |-> "none"]]

-----------------------------------------------------------------------------

(* start: register and launch a new flight, with this caller waiting on it. *)
StartFlight(c, k) ==
    /\ flight' = [flight EXCEPT ![c] = [state |-> "running", key |-> k,
                                        cancelled |-> FALSE, numWaiters |-> 1,
                                        result |-> "none"]]
    /\ flights' = [flights EXCEPT ![k] = c]
    /\ call' = [call EXCEPT ![c].pc = "waiting", ![c].on = c]

JoinFlight(c, f) ==
    /\ flight' = [flight EXCEPT ![f].numWaiters = @ + 1]
    /\ call' = [call EXCEPT ![c].pc = "waiting", ![c].on = f]
    /\ UNCHANGED flights

(* Mutant of Do: a registered flight is joined although it was cancelled. *)
DoJoinsCancelled(c, k) ==
    /\ call[c].pc = "idle"
    /\ \/ flights[k] = NoFlight /\ StartFlight(c, k)
       \/ flights[k] # NoFlight /\ JoinFlight(c, flights[k])

(* Do, up to the select: join the registered flight unless it was cancelled. *)
Do(c, k) ==
    /\ call[c].pc = "idle"
    /\ LET f == flights[k]
           joinable == f # NoFlight /\ ~flight[f].cancelled
       IN  \/ ~joinable /\ StartFlight(c, k)
           \/ joinable /\ JoinFlight(c, f)

(* The select sees that the flight is done. *)
Receive(c) ==
    /\ call[c].pc = "waiting"
    /\ flight[call[c].on].state = "done"
    /\ call' = [call EXCEPT ![c].pc = "returned",
                            ![c].result = flight[call[c].on].result]
    /\ UNCHANGED <<flights, flight>>

(* The select sees that the caller's own context has ended. *)
GiveUp(c) ==
    /\ call[c].pc = "waiting"
    /\ call' = [call EXCEPT ![c].pc = "leaving"]
    /\ UNCHANGED <<flights, flight>>

(* Mutant of Leave: the last one is recognised before it is counted out. *)
LeaveOffByOne(c) ==
    /\ call[c].pc = "leaving"
    /\ LET f == call[c].on
       IN  flight' = [flight EXCEPT ![f].numWaiters = @ - 1,
                                    ![f].cancelled = @ \/ flight[f].numWaiters = 0]
    /\ call' = [call EXCEPT ![c].pc = "returned"]
    /\ UNCHANGED flights

(* leave: the last waiter cancels the flight. *)
Leave(c) ==
    /\ call[c].pc = "leaving"
    /\ LET f == call[c].on
       IN  flight' = [flight EXCEPT ![f].numWaiters = @ - 1,
                                    ![f].cancelled = @ \/ flight[f].numWaiters = 1]
    /\ call' = [call EXCEPT ![c].pc = "returned"]
    /\ UNCHANGED flights

(* fn returns; it sees the error of its context only when that was cancelled. *)
FnReturns(f, r) ==
    /\ flight[f].state = "running"
    /\ r \in {"value", "error"} \/ (r = "canceled" /\ flight[f].cancelled)
    /\ flight' = [flight EXCEPT ![f].state = "returned", ![f].result = r]
    /\ UNCHANGED <<flights, call>>

(* The flight removes itself, unless a replacement has taken its key. *)
Unregister(f) ==
    /\ flight[f].state = "returned"
    /\ flights' = [flights EXCEPT ![flight[f].key] = IF @ = f THEN NoFlight ELSE @]
    /\ flight' = [flight EXCEPT ![f].state = "unregistered"]
    /\ UNCHANGED call

(* cancel() and close(f.done). *)
Close(f) ==
    /\ flight[f].state = "unregistered"
    /\ flight' = [flight EXCEPT ![f].state = "done", ![f].cancelled = TRUE]
    /\ UNCHANGED <<flights, call>>

CallerStep(c) ==
    \/ \E k \in Keys : Do(c, k)
    \/ Receive(c) \/ GiveUp(c) \/ Leave(c)

FlightStep(f) ==
    \/ \E r \in Result : FnReturns(f, r)
    \/ Unregister(f) \/ Close(f)

(* Every call has returned and every flight is done. *)
Quiet ==
    /\ \A c \in Callers : call[c].pc \in {"idle", "returned"}
    /\ \A f \in Callers : flight[f].state \in {"none", "done"}
    /\ UNCHANGED coalescerVars

CoalescerNext == Quiet \/ \E c \in Callers : CallerStep(c) \/ FlightStep(c)

CoalescerSpec == CoalescerInit /\ [][CoalescerNext]_coalescerVars

(* Goroutines run, and fn "must respect ctx": cancelled, it returns.  Nothing *)
(* makes an uncancelled fn return or ends the context of a caller.            *)
CoalescerFairness(f) ==
    /\ WF_coalescerVars(Receive(f))
    /\ WF_coalescerVars(Leave(f))
    /\ WF_coalescerVars(\E r \in Result : flight[f].cancelled /\ FnReturns(f, r))
    /\ WF_coalescerVars(Unregister(f))
    /\ WF_coalescerVars(Close(f))

CoalescerFairSpec == CoalescerSpec /\ \A f \in Callers : CoalescerFairness(f)

-----------------------------------------------------------------------------
(* The callers that are between their numWaiters++ and their numWaiters-- or  *)
(* the receipt of the result.                                                  *)
WaitersOf(f) == {c \in Callers : call[c].on = f /\ call[c].pc \in {"waiting", "leaving"}}

(* A flight that somebody still wants is the one that later calls for its key *)
(* join, until fn has returned.  So two flights of a key are never both live.  *)
LiveIsRegistered ==
    \A f \in Callers :
        flight[f].state \in {"running", "returned"} /\ ~flight[f].cancelled
            => flights[flight[f].key] = f

(* numWaiters counts the callers inside the select, while that matters. *)
WaitersCounted ==
    \A f \in Callers :
        flight[f].state \in {"running", "returned", "unregistered"}
            => flight[f].numWaiters = Cardinality(WaitersOf(f))

(* "Leaving does not stop fn unless this was the last waiter": a call that    *)
(* stays never gets the cancellation that another caller's leaving caused.     *)
NoForeignCancel == \A c \in Callers : call[c].result # "canceled"

(* A flight nobody waits for is cancelled, ends, and releases its goroutine. *)
AbandonedFlightEnds ==
    \A f \in Callers :
        (flight[f].state # "none" /\ WaitersOf(f) = {}) ~> flight[f].state = "done"
=============================================================================
