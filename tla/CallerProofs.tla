----------------------------- MODULE CallerProofs -----------------------------
(*****************************************************************************)
(* What those who call get.  Dialling a cluster: for any finite set of callers*)
(* and any keys, a flight that is wanted is the one that later calls join,   *)
(* waiters are counted exactly while it matters, and nobody who stays receives*)
(* a cancellation (Coalescer); the dialers of the gateway use it as it may be*)
(* used, so that the same holds for them, and a dial is refused for a crash only*)
(* (ClusterDialer).  API keys: no chain of keys grants more than its creator *)
(* has, for any number of calls and keys (Access).                           *)
(*****************************************************************************)
EXTENDS ClusterDialer, Access, FiniteSetTheorems, TLAPS

(* A registered flight is a flight of its key that has not unregistered. *)
RegisteredIsCurrent ==
    \A k \in Keys :
        flights[k] # NoFlight =>
            /\ flight[flights[k]].key = k
            /\ flight[flights[k]].state \in {"running", "returned"}

(* A caller waits on a flight that was started; an idle one has started none. *)
CallsOnFlights ==
    \A c \in Callers :
        /\ call[c].pc \in {"waiting", "leaving"} =>
               call[c].on \in Callers /\ flight[call[c].on].state # "none"
        /\ call[c].pc = "idle" => flight[c].state = "none"

(* numWaiters never falls below the number of waiters, and is that number     *)
(* until waiters return without decrementing it.                               *)
WaitersBounded ==
    \A f \in Callers :
        flight[f].state # "none" => flight[f].numWaiters >= Cardinality(WaitersOf(f))

(* Nobody is left on a flight that was cancelled before it was done, nor on   *)
(* one whose fn returned the error of its context.                             *)
CancelledIsEmpty ==
    \A f \in Callers :
        /\ flight[f].cancelled /\ flight[f].state # "done" => WaitersOf(f) = {}
        /\ flight[f].result = "canceled" =>
               flight[f].cancelled /\ flight[f].state # "none" /\ WaitersOf(f) = {}

Inv ==
    /\ CoalescerTypeOK
    /\ RegisteredIsCurrent
    /\ CallsOnFlights
    /\ LiveIsRegistered
    /\ WaitersCounted
    /\ WaitersBounded
    /\ CancelledIsEmpty
    /\ NoForeignCancel

LEMMA WaitersFinite ==
    ASSUME NEW f
    PROVE  /\ IsFiniteSet(WaitersOf(f))
           /\ Cardinality(WaitersOf(f)) \in Nat
           /\ Cardinality(WaitersOf(f)) = 0 => WaitersOf(f) = {}
<1>1. WaitersOf(f) \subseteq Callers
  BY DEF WaitersOf
<1>2. IsFiniteSet(WaitersOf(f))
  BY <1>1, CallersAssumption, FS_Subset
<1> QED
  BY <1>2, FS_CardinalityType, FS_EmptySet

LEMMA InitInv == CoalescerInit => Inv
<1> SUFFICES ASSUME CoalescerInit PROVE Inv
  OBVIOUS
<1>1. CoalescerTypeOK
  <2>2. flight \in [Callers -> Flight]
    BY DEF CoalescerInit, Flight, FlightState, Result
  <2>3. [pc |-> "idle", on |-> NoFlight, result |-> "none"] \in Call
    BY DEF Call, Result
  <2> QED
    BY ZenonT(60), <2>2, <2>3 DEF CoalescerInit, CoalescerTypeOK
<1>2. \A f \in Callers : flight[f].state = "none" /\ ~flight[f].cancelled
                            /\ flight[f].result = "none"
  BY DEF CoalescerInit
<1>3. RegisteredIsCurrent /\ CallsOnFlights /\ NoForeignCancel
  BY <1>2 DEF CoalescerInit, RegisteredIsCurrent, CallsOnFlights, NoForeignCancel
<1>4. LiveIsRegistered /\ WaitersCounted /\ WaitersBounded /\ CancelledIsEmpty
  BY <1>2 DEF LiveIsRegistered, WaitersCounted, WaitersBounded, CancelledIsEmpty
<1> QED
  BY <1>1, <1>3, <1>4 DEF Inv

-----------------------------------------------------------------------------
(* What the steps do to the waiters *)

(* A caller that was not inside the select enters it on flight f. *)
LEMMA Enters ==
    ASSUME CoalescerTypeOK, NEW c \in Callers, NEW f \in Callers,
           call[c].pc = "idle",
           call' = [call EXCEPT ![c].pc = "waiting", ![c].on = f]
    PROVE  /\ c \notin WaitersOf(f)
           /\ WaitersOf(f)' = WaitersOf(f) \cup {c}
           /\ \A g : g # f => WaitersOf(g)' = WaitersOf(g)
           /\ Cardinality(WaitersOf(f)') = Cardinality(WaitersOf(f)) + 1
<1>1. /\ call'[c].pc = "waiting" /\ call'[c].on = f
      /\ \A d \in Callers \ {c} : call'[d] = call[d]
  BY DEF CoalescerTypeOK, Call
<1>2. c \notin WaitersOf(f)
  BY DEF WaitersOf
<1>3. WaitersOf(f)' = WaitersOf(f) \cup {c}
  BY <1>1, Zenon DEF WaitersOf
<1>4. \A g : g # f => WaitersOf(g)' = WaitersOf(g)
  BY ZenonT(60), <1>1 DEF WaitersOf
<1>5. IsFiniteSet(WaitersOf(f))
  BY WaitersFinite
<1>6. Cardinality(WaitersOf(f) \cup {c}) = Cardinality(WaitersOf(f)) + 1
  BY ZenonT(60), <1>2, <1>5, FS_AddElement
<1>7. Cardinality(WaitersOf(f)') = Cardinality(WaitersOf(f)) + 1
  BY <1>3, <1>6
<1> QED
  BY <1>2, <1>3, <1>4, <1>7

(* A caller leaves the select. *)
LEMMA Exits ==
    ASSUME CoalescerTypeOK, NEW c \in Callers, NEW f,
           call[c].pc \in {"waiting", "leaving"}, call[c].on = f,
           call'[c].pc = "returned",
           \A d \in Callers \ {c} : call'[d] = call[d]
    PROVE  /\ c \in WaitersOf(f)
           /\ WaitersOf(f)' = WaitersOf(f) \ {c}
           /\ \A g : g # f => WaitersOf(g)' = WaitersOf(g)
           /\ Cardinality(WaitersOf(f)') = Cardinality(WaitersOf(f)) - 1
           /\ Cardinality(WaitersOf(f)) >= 1
<1>1. c \in WaitersOf(f)
  BY DEF WaitersOf
<1>2. WaitersOf(f)' = WaitersOf(f) \ {c}
  BY DEF WaitersOf
<1>3. \A g : g # f => WaitersOf(g)' = WaitersOf(g)
  BY DEF WaitersOf
<1>4. /\ Cardinality(WaitersOf(f)') = Cardinality(WaitersOf(f)) - 1
      /\ Cardinality(WaitersOf(f)') \in Nat
      /\ Cardinality(WaitersOf(f)) \in Nat
  BY <1>1, <1>2, WaitersFinite, FS_RemoveElement, FS_CardinalityType
<1> QED
  BY <1>1, <1>2, <1>3, <1>4

(* The count of one flight is right, and nothing else changes. *)
LEMMA Counting ==
    ASSUME CoalescerTypeOK', WaitersCounted, WaitersBounded, NEW f \in Callers,
           flight'[f].numWaiters = Cardinality(WaitersOf(f)'),
           \A g \in Callers \ {f} :
               flight'[g] = flight[g] /\ WaitersOf(g)' = WaitersOf(g)
    PROVE  WaitersCounted' /\ WaitersBounded'
<1> SUFFICES ASSUME NEW g \in Callers
             PROVE  /\ flight'[g].state \in {"running", "returned", "unregistered"}
                          => flight'[g].numWaiters = Cardinality(WaitersOf(g)')
                    /\ flight'[g].state # "none"
                          => flight'[g].numWaiters >= Cardinality(WaitersOf(g)')
  BY DEF WaitersCounted, WaitersBounded
<1>1. CASE g = f
  <2>1. flight'[f].numWaiters \in Nat
    BY DEF CoalescerTypeOK, Flight
  <2> QED
    BY <1>1, <2>1
<1>2. CASE g # f
  <2>1. flight'[g] = flight[g] /\ Cardinality(WaitersOf(g)') = Cardinality(WaitersOf(g))
    BY <1>2
  <2> QED
    BY <2>1 DEF WaitersCounted, WaitersBounded
<1> QED
  BY <1>1, <1>2

-----------------------------------------------------------------------------
LEMMA StartStep ==
    ASSUME Inv, NEW c \in Callers, NEW k \in Keys, call[c].pc = "idle",
           flights[k] = NoFlight \/ flight[flights[k]].cancelled, StartFlight(c, k)
    PROVE  Inv'
<1> USE DEF Inv
<1>1. /\ flight'[c] = [state |-> "running", key |-> k, cancelled |-> FALSE,
                       numWaiters |-> 1, result |-> "none"]
      /\ \A g \in Callers \ {c} : flight'[g] = flight[g]
      /\ flights'[k] = c
      /\ \A l \in Keys \ {k} : flights'[l] = flights[l]
      /\ call'[c].pc = "waiting" /\ call'[c].on = c /\ call'[c].result = call[c].result
      /\ \A d \in Callers \ {c} : call'[d] = call[d]
  BY DEF StartFlight, CoalescerTypeOK, Call
<1>2. CoalescerTypeOK'
  <2>1. flight' \in [Callers -> Flight]
    BY DEF StartFlight, CoalescerTypeOK, Flight, FlightState, Result
  <2>2. [call[c] EXCEPT !.pc = "waiting", !.on = c] \in Call
    BY ZenonT(60) DEF CoalescerTypeOK, Call
  <2>3. call' \in [Callers -> Call]
    BY <2>2 DEF StartFlight, CoalescerTypeOK
  <2> QED
    BY <2>1, <2>3 DEF StartFlight, CoalescerTypeOK
<1>3. /\ WaitersOf(c)' = WaitersOf(c) \cup {c}
      /\ \A g : g # c => WaitersOf(g)' = WaitersOf(g)
      /\ Cardinality(WaitersOf(c)') = Cardinality(WaitersOf(c)) + 1
  BY ZenonT(60), Enters DEF StartFlight
<1>4. flight[c].state = "none" /\ WaitersOf(c) = {}
  BY DEF CallsOnFlights, WaitersOf
<1>5. Cardinality(WaitersOf(c)') = 1
  BY <1>3, <1>4, FS_EmptySet
<1>6. RegisteredIsCurrent'
  <2>1. \A l \in Keys : flights[l] # c
    BY <1>4, CallersAssumption DEF RegisteredIsCurrent
  <2> QED
    BY <1>1, <2>1 DEF RegisteredIsCurrent, CoalescerTypeOK
<1>7. CallsOnFlights'
  BY <1>1 DEF CallsOnFlights
<1>8. LiveIsRegistered'
  <2> SUFFICES ASSUME NEW g \in Callers, flight'[g].state \in {"running", "returned"},
                      ~flight'[g].cancelled
               PROVE  flights'[flight'[g].key] = g
    BY DEF LiveIsRegistered
  <2>1. CASE g = c
    BY <1>1, <2>1
  <2>2. CASE g # c
    <3>1. flight'[g] = flight[g] /\ flights[flight[g].key] = g
      BY <1>1, <2>2 DEF LiveIsRegistered
    <3>2. flight[g].key # k
      BY <1>1, <3>1, CallersAssumption
    <3> QED
      BY <1>1, <3>1, <3>2 DEF CoalescerTypeOK, Flight
  <2> QED
    BY <2>1, <2>2
<1>9. WaitersCounted' /\ WaitersBounded'
  <2>1. flight'[c].numWaiters = Cardinality(WaitersOf(c)')
    BY <1>1, <1>5
  <2> QED
    BY ZenonT(60), <1>1, <1>2, <1>3, <2>1, Counting
<1>10. CancelledIsEmpty'
  BY <1>1, <1>3 DEF CancelledIsEmpty
<1>11. NoForeignCancel'
  BY <1>1 DEF NoForeignCancel
<1> QED
  BY <1>2, <1>6, <1>7, <1>8, <1>9, <1>10, <1>11

LEMMA JoinStep ==
    ASSUME Inv, NEW c \in Callers, NEW k \in Keys, call[c].pc = "idle",
           NEW f, f = flights[k], f # NoFlight, ~flight[f].cancelled, JoinFlight(c, f)
    PROVE  Inv'
<1> USE DEF Inv
<1>1. f \in Callers /\ flight[f].state \in {"running", "returned"}
  BY DEF CoalescerTypeOK, RegisteredIsCurrent
<1>2. /\ flight'[f].numWaiters = flight[f].numWaiters + 1
      /\ \A g \in Callers : /\ flight'[g].state = flight[g].state
                            /\ flight'[g].key = flight[g].key
                            /\ flight'[g].cancelled = flight[g].cancelled
                            /\ flight'[g].result = flight[g].result
      /\ \A g \in Callers \ {f} : flight'[g] = flight[g]
  BY <1>1 DEF JoinFlight, CoalescerTypeOK, Flight
<1>3. /\ call'[c].pc = "waiting" /\ call'[c].on = f /\ call'[c].result = call[c].result
      /\ \A d \in Callers \ {c} : call'[d] = call[d]
  BY <1>1 DEF JoinFlight, CoalescerTypeOK, Call
<1>4. flights' = flights
  BY DEF JoinFlight
<1>5. CoalescerTypeOK'
  <2>1. [flight[f] EXCEPT !.numWaiters = @ + 1] \in Flight
    BY <1>1 DEF CoalescerTypeOK, Flight
  <2>2. flight' \in [Callers -> Flight]
    BY <1>1, <2>1 DEF JoinFlight, CoalescerTypeOK
  <2>3. [call[c] EXCEPT !.pc = "waiting", !.on = f] \in Call
    BY ZenonT(60), <1>1 DEF CoalescerTypeOK, Call
  <2>4. call' \in [Callers -> Call]
    BY <2>3 DEF JoinFlight, CoalescerTypeOK
  <2> QED
    BY <1>4, <2>2, <2>4 DEF CoalescerTypeOK
<1>6. /\ WaitersOf(f)' = WaitersOf(f) \cup {c}
      /\ \A g : g # f => WaitersOf(g)' = WaitersOf(g)
      /\ Cardinality(WaitersOf(f)') = Cardinality(WaitersOf(f)) + 1
  BY ZenonT(60), <1>1, Enters DEF JoinFlight
<1>7. RegisteredIsCurrent' /\ LiveIsRegistered'
  BY <1>2, <1>4 DEF RegisteredIsCurrent, LiveIsRegistered, CoalescerTypeOK
<1>8. CallsOnFlights'
  BY <1>1, <1>2, <1>3 DEF CallsOnFlights
<1>9. flight[f].numWaiters \in Nat /\ Cardinality(WaitersOf(f)) \in Nat
  BY <1>1, WaitersFinite DEF CoalescerTypeOK, Flight
<1>10. WaitersCounted' /\ WaitersBounded'
  <2>1. \A g \in Callers \ {f} :
            flight'[g] = flight[g] /\ WaitersOf(g)' = WaitersOf(g)
    BY <1>2, <1>6
  <2>2. flight'[f].numWaiters = Cardinality(WaitersOf(f)')
    BY <1>1, <1>2, <1>6 DEF WaitersCounted
  <2> QED
    BY <1>1, <1>5, <2>1, <2>2, Counting
<1>11. CancelledIsEmpty'
  BY <1>1, <1>2, <1>6 DEF CancelledIsEmpty
<1>12. NoForeignCancel'
  BY <1>3 DEF NoForeignCancel
<1> QED
  BY <1>5, <1>7, <1>8, <1>10, <1>11, <1>12

LEMMA ReceiveStep == ASSUME Inv, NEW c \in Callers, Receive(c) PROVE Inv'
<1> USE DEF Inv
<1>0. PICK f : f = call[c].on
  OBVIOUS
<1>1. f \in Callers /\ flight[f].state = "done"
  BY <1>0 DEF Receive, CallsOnFlights
<1>2. flights' = flights /\ flight' = flight
  BY DEF Receive
<1>3. /\ call'[c] = [call[c] EXCEPT !.pc = "returned", !.result = flight[f].result]
      /\ \A d \in Callers \ {c} : call'[d] = call[d]
  BY <1>0 DEF Receive, CoalescerTypeOK
<1>4. CoalescerTypeOK'
  <2>1. [call[c] EXCEPT !.pc = "returned", !.result = flight[f].result] \in Call
    BY ZenonT(60), <1>1 DEF CoalescerTypeOK, Call, Flight
  <2> QED
    BY <1>0, <1>2, <2>1 DEF Receive, CoalescerTypeOK
<1>5. call'[c].pc = "returned" /\ call'[c].result = flight[f].result
  BY <1>3 DEF CoalescerTypeOK, Call
<1>6. /\ c \in WaitersOf(f)
      /\ WaitersOf(f)' = WaitersOf(f) \ {c}
      /\ \A g : g # f => WaitersOf(g)' = WaitersOf(g)
      /\ Cardinality(WaitersOf(f)') = Cardinality(WaitersOf(f)) - 1
      /\ Cardinality(WaitersOf(f)) >= 1
  <2>1. call[c].pc \in {"waiting", "leaving"}
    BY DEF Receive
  <2>2. call'[c].pc = "returned" /\ \A d \in Callers \ {c} : call'[d] = call[d]
    BY <1>3, <1>5
  <2>3. CoalescerTypeOK
    OBVIOUS
  <2> HIDE DEF Inv
  <2> QED
    BY <1>0, <2>1, <2>2, <2>3, Exits
<1>7. RegisteredIsCurrent' /\ LiveIsRegistered'
  BY <1>2 DEF RegisteredIsCurrent, LiveIsRegistered
<1>8. CallsOnFlights'
  BY ZenonT(60), <1>2, <1>3, <1>5 DEF CallsOnFlights
<1>9. WaitersCounted'
  BY <1>1, <1>2, <1>6 DEF WaitersCounted
<1>10. WaitersBounded'
  <2>1. /\ flight[f].numWaiters \in Nat
        /\ Cardinality(WaitersOf(f)) \in Nat
    BY <1>1, WaitersFinite DEF CoalescerTypeOK, Flight
  <2>2. flight[f].numWaiters >= Cardinality(WaitersOf(f)')
    BY <1>1, <1>6, <2>1 DEF WaitersBounded
  <2> SUFFICES ASSUME NEW g \in Callers, flight[g].state # "none"
               PROVE  flight[g].numWaiters >= Cardinality(WaitersOf(g)')
    BY <1>2 DEF WaitersBounded
  <2>3. CASE g = f
    BY <2>2, <2>3
  <2>4. CASE g # f
    <3>1. Cardinality(WaitersOf(g)') = Cardinality(WaitersOf(g))
      BY <1>6, <2>4
    <3> QED
      BY <3>1 DEF WaitersBounded
  <2> QED
    BY <2>3, <2>4
<1>11. CancelledIsEmpty'
  BY <1>1, <1>2, <1>6 DEF CancelledIsEmpty
<1>12. NoForeignCancel'
  <2>1. flight[f].result # "canceled"
    BY <1>1, <1>6 DEF CancelledIsEmpty
  <2> QED
    BY ZenonT(60), <1>3, <1>5, <2>1 DEF NoForeignCancel
<1> QED
  BY <1>4, <1>7, <1>8, <1>9, <1>10, <1>11, <1>12

LEMMA GiveUpStep == ASSUME Inv, NEW c \in Callers, GiveUp(c) PROVE Inv'
<1> USE DEF Inv
<1>1. flights' = flights /\ flight' = flight
  BY DEF GiveUp
<1>2. /\ call'[c].pc = "leaving" /\ call'[c].on = call[c].on
      /\ call'[c].result = call[c].result
      /\ \A d \in Callers \ {c} : call'[d] = call[d]
  BY DEF GiveUp, CoalescerTypeOK, Call
<1>3. CoalescerTypeOK'
  <2>1. [call[c] EXCEPT !.pc = "leaving"] \in Call
    BY DEF CoalescerTypeOK, Call
  <2> QED
    BY <1>1, <2>1 DEF GiveUp, CoalescerTypeOK
<1>4. \A f : WaitersOf(f)' = WaitersOf(f)
  BY <1>2 DEF GiveUp, WaitersOf
<1>5. RegisteredIsCurrent' /\ LiveIsRegistered'
  BY <1>1 DEF RegisteredIsCurrent, LiveIsRegistered
<1>6. CallsOnFlights' /\ NoForeignCancel'
  BY <1>1, <1>2 DEF GiveUp, CallsOnFlights, NoForeignCancel
<1>7. WaitersCounted' /\ WaitersBounded' /\ CancelledIsEmpty'
  BY <1>1, <1>4 DEF WaitersCounted, WaitersBounded, CancelledIsEmpty
<1> QED
  BY <1>3, <1>5, <1>6, <1>7

LEMMA LeaveStep == ASSUME Inv, NEW c \in Callers, Leave(c) PROVE Inv'
<1> USE DEF Inv
<1>0. PICK f : f = call[c].on
  OBVIOUS
<1>1. f \in Callers /\ flight[f].state # "none"
  BY <1>0 DEF Leave, CallsOnFlights
<1>2. flights' = flights
  BY DEF Leave
<1>3. /\ call'[c].pc = "returned" /\ call'[c].result = call[c].result
      /\ \A d \in Callers \ {c} : call'[d] = call[d]
  BY DEF Leave, CoalescerTypeOK, Call
<1>4. /\ flight' = [flight EXCEPT ![f].numWaiters = @ - 1,
                                  ![f].cancelled = @ \/ flight[f].numWaiters = 1]
      /\ flight[f] \in Flight
  BY <1>0, <1>1 DEF Leave, CoalescerTypeOK
<1>5. /\ flight'[f].numWaiters = flight[f].numWaiters - 1
      /\ flight'[f].cancelled <=> flight[f].cancelled \/ flight[f].numWaiters = 1
      /\ \A g \in Callers : /\ flight'[g].state = flight[g].state
                            /\ flight'[g].key = flight[g].key
                            /\ flight'[g].result = flight[g].result
      /\ \A g \in Callers \ {f} : flight'[g] = flight[g]
  BY <1>1, <1>4 DEF CoalescerTypeOK, Flight
<1>6. /\ c \in WaitersOf(f)
      /\ WaitersOf(f)' = WaitersOf(f) \ {c}
      /\ \A g : g # f => WaitersOf(g)' = WaitersOf(g)
      /\ Cardinality(WaitersOf(f)') = Cardinality(WaitersOf(f)) - 1
      /\ Cardinality(WaitersOf(f)) >= 1
  <2>1. call[c].pc \in {"waiting", "leaving"}
    BY DEF Leave
  <2> QED
    BY <1>0, <1>3, <2>1, Exits
<1>7. /\ flight[f].numWaiters \in Nat
      /\ Cardinality(WaitersOf(f)) \in Nat
      /\ flight[f].numWaiters >= Cardinality(WaitersOf(f))
      /\ flight[f].numWaiters - 1 \in Nat
  BY <1>1, <1>4, <1>6, WaitersFinite DEF Flight, WaitersBounded
<1>8. CoalescerTypeOK'
  <2>1. [flight[f] EXCEPT !.numWaiters = @ - 1,
                          !.cancelled = @ \/ flight[f].numWaiters = 1] \in Flight
    BY ZenonT(60), <1>4, <1>7 DEF Flight
  <2>2. flight' \in [Callers -> Flight]
    BY <1>1, <1>4, <2>1 DEF CoalescerTypeOK
  <2>3. [call[c] EXCEPT !.pc = "returned"] \in Call
    BY DEF CoalescerTypeOK, Call
  <2> QED
    BY <1>2, <2>2, <2>3 DEF Leave, CoalescerTypeOK
<1>9. flight'[f].cancelled /\ flight[f].state # "done" => WaitersOf(f)' = {}
  <2>1. CASE flight[f].cancelled
    BY <1>1, <1>6, <2>1 DEF CancelledIsEmpty
  <2>2. CASE flight[f].numWaiters = 1
    <3>1. Cardinality(WaitersOf(f)) = 1
      BY <1>6, <1>7, <2>2
    <3>2. Cardinality(WaitersOf(f)') = 0
      BY <1>6, <3>1
    <3>3. IsFiniteSet(WaitersOf(f)')
      BY <1>6, WaitersFinite, FS_RemoveElement
    <3> QED
      BY <3>2, <3>3, FS_EmptySet
  <2> QED
    BY <1>5, <2>1, <2>2
<1>10. RegisteredIsCurrent'
  BY <1>2, <1>5 DEF RegisteredIsCurrent, CoalescerTypeOK
<1>11. LiveIsRegistered'
  <2>1. \A g \in Callers : ~flight'[g].cancelled => ~flight[g].cancelled
    BY <1>5
  <2> QED
    BY <1>2, <1>5, <2>1 DEF LiveIsRegistered
<1>12. CallsOnFlights' /\ NoForeignCancel'
  BY <1>3, <1>5 DEF CallsOnFlights, NoForeignCancel
<1>13. WaitersCounted' /\ WaitersBounded'
  <2> SUFFICES ASSUME NEW g \in Callers
               PROVE  /\ flight'[g].state \in {"running", "returned", "unregistered"}
                            => flight'[g].numWaiters = Cardinality(WaitersOf(g)')
                      /\ flight'[g].state # "none"
                            => flight'[g].numWaiters >= Cardinality(WaitersOf(g)')
    BY DEF WaitersCounted, WaitersBounded
  <2>1. CASE g = f
    <3>1. flight[f].state \in {"running", "returned", "unregistered"}
             => flight[f].numWaiters = Cardinality(WaitersOf(f))
      BY <1>1 DEF WaitersCounted
    <3>2. flight'[f].state = flight[f].state
      BY <1>1, <1>5
    <3>3. flight'[f].numWaiters >= Cardinality(WaitersOf(f)')
      BY <1>5, <1>6, <1>7
    <3>4. flight[f].numWaiters = Cardinality(WaitersOf(f))
             => flight'[f].numWaiters = Cardinality(WaitersOf(f)')
      BY <1>5, <1>6
    <3> QED
      BY <2>1, <3>1, <3>2, <3>3, <3>4
  <2>2. CASE g # f
    <3>1. flight'[g] = flight[g] /\ Cardinality(WaitersOf(g)') = Cardinality(WaitersOf(g))
      BY <1>5, <1>6, <2>2
    <3> QED
      BY <3>1 DEF WaitersCounted, WaitersBounded
  <2> QED
    BY <2>1, <2>2
<1>14. CancelledIsEmpty'
  <2> SUFFICES ASSUME NEW g \in Callers
               PROVE  /\ flight'[g].cancelled /\ flight'[g].state # "done"
                            => WaitersOf(g)' = {}
                      /\ flight'[g].result = "canceled" =>
                            /\ flight'[g].cancelled /\ flight'[g].state # "none"
                            /\ WaitersOf(g)' = {}
    BY DEF CancelledIsEmpty
  <2>1. CASE g = f
    <3>1. flight[f].result # "canceled"
      BY <1>1, <1>6 DEF CancelledIsEmpty
    <3>2. flight'[f].result = flight[f].result /\ flight'[f].state = flight[f].state
      BY <1>1, <1>5
    <3> QED
      BY <1>9, <2>1, <3>1, <3>2
  <2>2. CASE g # f
    BY <1>5, <1>6, <2>2 DEF CancelledIsEmpty
  <2> QED
    BY <2>1, <2>2
<1> QED
  BY <1>8, <1>10, <1>11, <1>12, <1>13, <1>14

(* A flight advances, and nobody enters or leaves. *)
LEMMA FlightFrame ==
    ASSUME Inv, call' = call
    PROVE  NoForeignCancel' /\ \A g : WaitersOf(g)' = WaitersOf(g)
  BY DEF Inv, NoForeignCancel, WaitersOf

LEMMA FnReturnsStep ==
    ASSUME Inv, NEW f \in Callers, NEW r \in Result, FnReturns(f, r) PROVE Inv'
<1> USE DEF Inv
<1>1. flights' = flights /\ call' = call
  BY DEF FnReturns
<1>2. NoForeignCancel' /\ \A g : WaitersOf(g)' = WaitersOf(g)
  BY <1>1, FlightFrame
<1>3. /\ flight'[f].state = "returned" /\ flight'[f].result = r
      /\ \A g \in Callers : /\ flight'[g].key = flight[g].key
                            /\ flight'[g].cancelled = flight[g].cancelled
                            /\ flight'[g].numWaiters = flight[g].numWaiters
      /\ \A g \in Callers \ {f} : flight'[g] = flight[g]
  BY DEF FnReturns, CoalescerTypeOK, Flight
<1>4. CoalescerTypeOK'
  <2>1. [flight[f] EXCEPT !.state = "returned", !.result = r] \in Flight
    BY ZenonT(60) DEF CoalescerTypeOK, Flight, FlightState
  <2> QED
    BY <1>1, <2>1 DEF FnReturns, CoalescerTypeOK
<1>5. flight[f].state = "running" /\ (r = "canceled" => flight[f].cancelled)
  BY DEF FnReturns
<1>6. RegisteredIsCurrent' /\ LiveIsRegistered' /\ CallsOnFlights'
  BY <1>1, <1>3, <1>5 DEF RegisteredIsCurrent, LiveIsRegistered, CallsOnFlights,
                          CoalescerTypeOK
<1>7. WaitersCounted' /\ WaitersBounded'
  BY <1>2, <1>3, <1>5 DEF WaitersCounted, WaitersBounded
<1>8. CancelledIsEmpty'
  BY <1>2, <1>3, <1>5 DEF CancelledIsEmpty
<1> QED
  BY <1>2, <1>4, <1>6, <1>7, <1>8

LEMMA UnregisterStep == ASSUME Inv, NEW f \in Callers, Unregister(f) PROVE Inv'
<1> USE DEF Inv
<1>1. call' = call
  BY DEF Unregister
<1>2. NoForeignCancel' /\ \A g : WaitersOf(g)' = WaitersOf(g)
  BY <1>1, FlightFrame
<1>3. /\ flight'[f].state = "unregistered"
      /\ \A g \in Callers : /\ flight'[g].key = flight[g].key
                            /\ flight'[g].cancelled = flight[g].cancelled
                            /\ flight'[g].numWaiters = flight[g].numWaiters
                            /\ flight'[g].result = flight[g].result
      /\ \A g \in Callers \ {f} : flight'[g] = flight[g]
  BY DEF Unregister, CoalescerTypeOK, Flight
<1>4. flight[f].state = "returned" /\ flight[f].key \in Keys
  BY DEF Unregister, CoalescerTypeOK, Flight
<1>5. \A k \in Keys : flights'[k] = IF flights[k] = f /\ k = flight[f].key
                                    THEN NoFlight ELSE flights[k]
  BY DEF Unregister, CoalescerTypeOK
<1>6. CoalescerTypeOK'
  <2>1. [flight[f] EXCEPT !.state = "unregistered"] \in Flight
    BY DEF CoalescerTypeOK, Flight, FlightState
  <2>2. flights' \in [Keys -> Callers \cup {NoFlight}]
    BY ZenonT(60) DEF Unregister, CoalescerTypeOK
  <2> QED
    BY <1>1, <2>1, <2>2 DEF Unregister, CoalescerTypeOK
<1>7. RegisteredIsCurrent'
  <2> SUFFICES ASSUME NEW k \in Keys, flights'[k] # NoFlight
               PROVE  /\ flight'[flights'[k]].key = k
                      /\ flight'[flights'[k]].state \in {"running", "returned"}
    BY DEF RegisteredIsCurrent
  <2>1. flights'[k] = flights[k] /\ flights[k] # NoFlight /\ flights[k] \in Callers
    BY <1>5 DEF CoalescerTypeOK
  <2>2. flight[flights[k]].key = k /\ flight[flights[k]].state \in {"running", "returned"}
    BY <2>1 DEF RegisteredIsCurrent
  <2>3. flights[k] # f
    BY <1>5, <2>1, <2>2
  <2> QED
    BY <1>3, <2>1, <2>2, <2>3
<1>8. LiveIsRegistered'
  <2> SUFFICES ASSUME NEW g \in Callers, flight'[g].state \in {"running", "returned"},
                      ~flight'[g].cancelled
               PROVE  flights'[flight'[g].key] = g
    BY DEF LiveIsRegistered
  <2>1. g # f
    BY <1>3
  <2>2. flight'[g] = flight[g] /\ flights[flight[g].key] = g /\ flight[g].key \in Keys
    BY <1>3, <2>1 DEF LiveIsRegistered, CoalescerTypeOK, Flight
  <2> QED
    BY <1>5, <2>1, <2>2
<1>9. CallsOnFlights'
  BY <1>1, <1>3, <1>4 DEF CallsOnFlights
<1>10. WaitersCounted' /\ WaitersBounded'
  BY <1>2, <1>3, <1>4 DEF WaitersCounted, WaitersBounded
<1>11. CancelledIsEmpty'
  BY <1>2, <1>3, <1>4 DEF CancelledIsEmpty
<1> QED
  BY <1>2, <1>6, <1>7, <1>8, <1>9, <1>10, <1>11

LEMMA CloseStep == ASSUME Inv, NEW f \in Callers, Close(f) PROVE Inv'
<1> USE DEF Inv
<1>1. flights' = flights /\ call' = call
  BY DEF Close
<1>2. NoForeignCancel' /\ \A g : WaitersOf(g)' = WaitersOf(g)
  BY <1>1, FlightFrame
<1>3. /\ flight'[f].state = "done" /\ flight'[f].cancelled
      /\ \A g \in Callers : /\ flight'[g].key = flight[g].key
                            /\ flight'[g].numWaiters = flight[g].numWaiters
                            /\ flight'[g].result = flight[g].result
      /\ \A g \in Callers \ {f} : flight'[g] = flight[g]
  BY DEF Close, CoalescerTypeOK, Flight
<1>4. flight[f].state = "unregistered"
  BY DEF Close
<1>5. CoalescerTypeOK'
  <2>1. [flight[f] EXCEPT !.state = "done", !.cancelled = TRUE] \in Flight
    BY ZenonT(60) DEF CoalescerTypeOK, Flight, FlightState
  <2> QED
    BY <1>1, <2>1 DEF Close, CoalescerTypeOK
<1>6. RegisteredIsCurrent' /\ LiveIsRegistered' /\ CallsOnFlights'
  BY <1>1, <1>3, <1>4 DEF RegisteredIsCurrent, LiveIsRegistered, CallsOnFlights,
                          CoalescerTypeOK
<1>7. WaitersCounted' /\ WaitersBounded'
  BY <1>2, <1>3, <1>4 DEF WaitersCounted, WaitersBounded
<1>8. CancelledIsEmpty'
  BY <1>2, <1>3, <1>4 DEF CancelledIsEmpty
<1> QED
  BY <1>2, <1>5, <1>6, <1>7, <1>8

LEMMA QuietStep == ASSUME Inv, UNCHANGED coalescerVars PROVE Inv'
<1>1. \A g : WaitersOf(g)' = WaitersOf(g)
  BY DEF coalescerVars, WaitersOf
<1> QED
  BY <1>1 DEF Inv, coalescerVars, CoalescerTypeOK, RegisteredIsCurrent, CallsOnFlights,
              LiveIsRegistered, WaitersCounted, WaitersBounded, CancelledIsEmpty,
              NoForeignCancel

LEMMA StepInv == Inv /\ [CoalescerNext]_coalescerVars => Inv'
<1> SUFFICES ASSUME Inv, [CoalescerNext]_coalescerVars PROVE Inv'
  OBVIOUS
<1>1. ASSUME NEW c \in Callers, NEW k \in Keys, Do(c, k) PROVE Inv'
  <2>1. CASE flights[k] # NoFlight /\ ~flight[flights[k]].cancelled
    BY <1>1, <2>1, JoinStep DEF Do
  <2>2. CASE ~(flights[k] # NoFlight /\ ~flight[flights[k]].cancelled)
    BY <1>1, <2>2, StartStep DEF Do
  <2> QED
    BY <2>1, <2>2
<1>2. ASSUME NEW c \in Callers, CallerStep(c) PROVE Inv'
  BY <1>1, <1>2, ReceiveStep, GiveUpStep, LeaveStep DEF CallerStep
<1>3. ASSUME NEW f \in Callers, FlightStep(f) PROVE Inv'
  BY <1>3, FnReturnsStep, UnregisterStep, CloseStep DEF FlightStep
<1>4. CASE UNCHANGED coalescerVars
  BY <1>4, QuietStep
<1> QED
  BY <1>2, <1>3, <1>4 DEF CoalescerNext, Quiet

LEMMA Invariance == CoalescerSpec => []Inv
  BY InitInv, StepInv, PTL DEF CoalescerSpec

(* The state of the Coalescer is well formed; numWaiters is never negative. *)
THEOREM CoalescerTypes == CoalescerSpec => []CoalescerTypeOK
  BY Invariance, PTL DEF Inv

(* A flight that somebody wants is the one later calls for its key join, so   *)
(* that two live flights of a key cannot exist.                                *)
THEOREM LiveFlightsAreRegistered == CoalescerSpec => []LiveIsRegistered
  BY Invariance, PTL DEF Inv

(* numWaiters is the number of callers inside the select until done is closed. *)
THEOREM WaitersAreCounted == CoalescerSpec => []WaitersCounted
  BY Invariance, PTL DEF Inv

(* A call that stays is never answered with the cancellation of the flight.  *)
THEOREM NobodyIsCancelledByOthers == CoalescerSpec => []NoForeignCancel
  BY Invariance, PTL DEF Inv

-----------------------------------------------------------------------------
(* Dialing *)

(* What the cluster is like in every window of its creation, hibernation and    *)
(* wakeup.                                                                      *)
ClusterForm ==
    cluster # NoCluster =>
        /\ branch.name
        /\ cluster.instancesStatus # NoPods => cluster.instances = 1
        /\ cluster.instances = 1 => cluster.instanceNames = {Primary}
        /\ cluster.ready = IF cluster.instancesStatus = PodWith("healthy") THEN 1 ELSE 0
        /\ cluster.instancesStatus = PodWith("healthy") => cluster.currentPrimary = Primary
        /\ cluster.instancesStatus = PodWith("replicating")
              => cluster.phase = "waiting_for_instances"
        /\ crashes = 0 => cluster.instancesStatus # PodWith("failed")

DialerInv ==
    /\ branch \in BranchObject
    /\ ~branch.pool => branch.name
    /\ cluster \in ClusterObject \cup {NoCluster}
    /\ crashes \in Nat
    /\ ClusterForm

(* The states of the instance are told apart by its pod. *)
LEMMA Pods ==
    /\ DOMAIN NoPods = {}
    /\ \A s : DOMAIN PodWith(s) = {Primary} /\ PodWith(s)[Primary] = s /\ PodWith(s) # NoPods
    /\ \A s, t : PodWith(s) = PodWith(t) => s = t
<1>1. DOMAIN NoPods = {}
  BY DEF NoPods
<1>2. \A s : DOMAIN PodWith(s) = {Primary} /\ PodWith(s)[Primary] = s
  BY DEF PodWith
<1>3. \A s : PodWith(s) # NoPods
  BY <1>1, <1>2
<1>4. \A s, t : PodWith(s) = PodWith(t) => s = t
  BY <1>2
<1> QED
  BY <1>1, <1>2, <1>3, <1>4

LEMMA WithPodIs ==
    ASSUME NEW c \in ClusterObject, NEW s \in PodStatus
    PROVE  /\ WithPod(c, s) \in ClusterObject
           /\ WithPod(c, s).instancesStatus = PodWith(s)
           /\ WithPod(c, s).ready = IF s = "healthy" THEN 1 ELSE 0
           /\ WithPod(c, s).hibernation = c.hibernation
           /\ WithPod(c, s).phase = c.phase
           /\ WithPod(c, s).instances = c.instances
           /\ WithPod(c, s).instanceNames = c.instanceNames
           /\ WithPod(c, s).currentPrimary = c.currentPrimary
           /\ WithPod(c, s).targetPrimary = c.targetPrimary
  BY ZenonT(60) DEF WithPod, ClusterObject

LEMMA WithoutPodIs ==
    ASSUME NEW c \in ClusterObject
    PROVE  /\ WithoutPod(c) \in ClusterObject
           /\ WithoutPod(c).instancesStatus = NoPods
           /\ WithoutPod(c).ready = 0
           /\ WithoutPod(c).hibernation = c.hibernation
           /\ WithoutPod(c).phase = c.phase
           /\ WithoutPod(c).instances = c.instances
           /\ WithoutPod(c).instanceNames = c.instanceNames
           /\ WithoutPod(c).currentPrimary = c.currentPrimary
           /\ WithoutPod(c).targetPrimary = c.targetPrimary
  BY ZenonT(60) DEF WithoutPod, ClusterObject

LEMMA DialerInit == Init => DialerInv
<1> SUFFICES ASSUME Init PROVE DialerInv
  OBVIOUS
<1>1. branch \in BranchObject /\ (~branch.pool => branch.name) /\ crashes = 0
  <2>1. PICK p \in BOOLEAN, z \in ScaleToZero, h \in BOOLEAN :
               branch = [exists |-> TRUE, pool |-> p, scaleToZero |-> z,
                         name |-> ~(p /\ h), hibernation |-> h /\ ~p,
                         awaiting |-> FALSE, request |-> "none"]
    BY DEF Init
  <2>2. z \in BOOLEAN /\ (~(p /\ h)) \in BOOLEAN /\ (h /\ ~p) \in BOOLEAN
    BY DialerAssumption
  <2>3. branch.pool = p /\ branch.name = ~(p /\ h)
    BY <2>1
  <2>4. branch \in BranchObject
    BY <2>1, <2>2 DEF BranchObject
  <2> QED
    BY ZenonT(60), <2>3, <2>4 DEF Init
<1>2. /\ RunningCluster \in ClusterObject
      /\ RunningCluster.instancesStatus = PodWith("healthy")
      /\ RunningCluster.ready = 1 /\ RunningCluster.instances = 1
      /\ RunningCluster.instanceNames = {Primary}
      /\ RunningCluster.currentPrimary = Primary
  BY DEF RunningCluster, ClusterObject, PodStatus
<1>3. CASE cluster = NoCluster
  BY <1>1, <1>3 DEF DialerInv, ClusterForm
<1>4. CASE cluster = RunningCluster /\ branch.name
  BY <1>1, <1>2, <1>4, Pods DEF DialerInv, ClusterForm
<1>5. CASE /\ cluster = [WithoutPod(RunningCluster) EXCEPT !.hibernation = TRUE]
           /\ branch.name
  <2> PICK w : w = WithoutPod(RunningCluster)
    OBVIOUS
  <2>1. /\ w \in ClusterObject /\ w.instancesStatus = NoPods /\ w.ready = 0
        /\ w.instanceNames = {Primary} /\ w.instances = 1
    BY <1>2, WithoutPodIs
  <2>2. /\ cluster \in ClusterObject /\ cluster.instancesStatus = NoPods /\ cluster.ready = 0
        /\ cluster.instanceNames = {Primary} /\ cluster.instances = 1
    BY ZenonT(60), <1>5, <2>1 DEF ClusterObject
  <2> QED
    BY <1>1, <1>5, <2>2, Pods DEF DialerInv, ClusterForm
<1> QED
  BY <1>1, <1>3, <1>4, <1>5 DEF Init

LEMMA DialerStep == DialerInv /\ [Next]_vars => DialerInv'
<1> SUFFICES ASSUME DialerInv, [Next]_vars PROVE DialerInv'
  OBVIOUS
<1>a. CASE UNCHANGED <<branch, cluster, crashes>>
  BY <1>a DEF DialerInv, ClusterForm
<1>1. CASE Hibernate
  <2>1. CASE branch.pool
    BY ZenonT(60), <1>1, <2>1 DEF Hibernate, DialerInv, ClusterForm, BranchObject
  <2>2. CASE ~branch.pool
    BY ZenonT(60), <1>1, <2>2 DEF Hibernate, DialerInv, ClusterForm, BranchObject
  <2> QED
    BY <2>1, <2>2
<1>2. CASE DeleteBranch
  BY ZenonT(60), <1>2 DEF DeleteBranch, DialerInv, ClusterForm, BranchObject
<1>3. CASE Reconcile
  <2>1. CASE cluster = NoCluster /\ cluster' = NewCluster
    <3>1. /\ NewCluster \in ClusterObject /\ NewCluster.instancesStatus = NoPods
          /\ NewCluster.ready = 0 /\ NewCluster.instances = 0
      BY DEF NewCluster, ClusterObject
    <3> QED
      BY <1>3, <2>1, <3>1, Pods DEF Reconcile, DialerInv, ClusterForm
  <2>2. CASE /\ cluster # NoCluster
             /\ cluster' = [cluster EXCEPT !.hibernation = branch.hibernation]
    BY ZenonT(60), <1>3, <2>2 DEF Reconcile, DialerInv, ClusterForm, ClusterObject, BranchObject
  <2> QED
    BY <1>3, <2>1, <2>2 DEF Reconcile
<1>4. CASE PoolWake
  <2>1. CASE cluster' = cluster
    BY ZenonT(60), <1>4, <2>1 DEF PoolWake, DialerInv, ClusterForm, BranchObject
  <2>2. CASE /\ branch' = [branch EXCEPT !.name = TRUE, !.awaiting = FALSE, !.request = "none"]
             /\ cluster' = RunningCluster
    <3>1. /\ RunningCluster \in ClusterObject
          /\ RunningCluster.instancesStatus = PodWith("healthy")
          /\ RunningCluster.ready = 1 /\ RunningCluster.instances = 1
          /\ RunningCluster.instanceNames = {Primary}
          /\ RunningCluster.currentPrimary = Primary
      BY DEF RunningCluster, ClusterObject, PodStatus
    <3>2. branch' \in BranchObject /\ branch'.name
      BY ZenonT(60), <2>2 DEF DialerInv, BranchObject
    <3> QED
      BY <1>4, <2>2, <3>1, <3>2, Pods DEF PoolWake, DialerInv, ClusterForm
  <2> QED
    BY <1>4, <2>1, <2>2 DEF PoolWake
<1>5. CASE Cnpg
  <2>0. /\ cluster \in ClusterObject /\ UNCHANGED <<branch, crashes>> /\ cluster # NoCluster
    BY <1>5 DEF Cnpg, DialerInv
  <2>1. CASE /\ cluster.instances = 0
             /\ cluster' = [cluster EXCEPT !.phase = "first_primary", !.instances = 1,
                                           !.instanceNames = {Primary},
                                           !.targetPrimary = Primary]
    <3>1. /\ cluster' \in ClusterObject
          /\ cluster'.instancesStatus = cluster.instancesStatus
          /\ cluster'.ready = cluster.ready /\ cluster'.instances = 1
          /\ cluster'.instanceNames = {Primary}
      BY ZenonT(60), <2>0, <2>1 DEF ClusterObject
    <3>2. cluster.instancesStatus = NoPods
      BY <2>0, <2>1 DEF DialerInv, ClusterForm
    <3> QED
      BY <2>0, <3>1, <3>2, Pods DEF DialerInv, ClusterForm
  <2>2. CASE /\ cluster.instances = 1
             /\ cluster' = [WithPod(cluster, "replicating")
                              EXCEPT !.phase = "waiting_for_instances"]
    <3> PICK w : w = WithPod(cluster, "replicating")
      OBVIOUS
    <3>1. /\ w \in ClusterObject /\ w.instancesStatus = PodWith("replicating")
          /\ w.ready = 0 /\ w.instances = 1 /\ w.instanceNames = cluster.instanceNames
      BY <2>0, <2>2, WithPodIs DEF PodStatus
    <3>2. /\ cluster' \in ClusterObject /\ cluster'.instancesStatus = PodWith("replicating")
          /\ cluster'.ready = 0 /\ cluster'.instances = 1
          /\ cluster'.instanceNames = cluster.instanceNames
          /\ cluster'.phase = "waiting_for_instances"
      BY ZenonT(60), <2>2, <3>1 DEF ClusterObject
    <3> QED
      BY <2>0, <2>2, <3>2, Pods DEF DialerInv, ClusterForm
  <2>3. CASE /\ DOMAIN cluster.instancesStatus # {}
             /\ cluster' = [WithPod(cluster, "healthy")
                              EXCEPT !.phase = "healthy", !.currentPrimary = Primary]
    <3> PICK w : w = WithPod(cluster, "healthy")
      OBVIOUS
    <3>1. /\ w \in ClusterObject /\ w.instancesStatus = PodWith("healthy")
          /\ w.ready = 1 /\ w.instances = cluster.instances
          /\ w.instanceNames = cluster.instanceNames
      BY <2>0, <2>3, WithPodIs DEF PodStatus
    <3>2. /\ cluster' \in ClusterObject /\ cluster'.instancesStatus = PodWith("healthy")
          /\ cluster'.ready = 1 /\ cluster'.instances = cluster.instances
          /\ cluster'.instanceNames = cluster.instanceNames
          /\ cluster'.currentPrimary = Primary
      BY ZenonT(60), <2>3, <3>1 DEF ClusterObject
    <3> QED
      BY <2>0, <2>3, <3>2, Pods DEF DialerInv, ClusterForm
  <2>4. CASE cluster' = [WithoutPod(cluster) EXCEPT !.phase = "healthy"]
    <3> PICK w : w = WithoutPod(cluster)
      OBVIOUS
    <3>1. /\ w \in ClusterObject /\ w.instancesStatus = NoPods
          /\ w.ready = 0 /\ w.instances = cluster.instances
          /\ w.instanceNames = cluster.instanceNames
      BY <2>0, <2>4, WithoutPodIs
    <3>2. /\ cluster' \in ClusterObject /\ cluster'.instancesStatus = NoPods
          /\ cluster'.ready = 0 /\ cluster'.instances = cluster.instances
          /\ cluster'.instanceNames = cluster.instanceNames
      BY ZenonT(60), <2>4, <3>1 DEF ClusterObject
    <3> QED
      BY <2>0, <2>4, <3>2, Pods DEF DialerInv, ClusterForm
  <2> QED
    BY <1>5, <2>1, <2>2, <2>3, <2>4 DEF Cnpg
<1>6. CASE Crash
  <2>0. /\ cluster \in ClusterObject /\ UNCHANGED branch /\ cluster # NoCluster
        /\ crashes' = crashes + 1 /\ cluster' = WithPod(cluster, "failed") /\ cluster.ready = 1
    BY <1>6 DEF Crash, DialerInv
  <2>1. /\ cluster' \in ClusterObject /\ cluster'.instancesStatus = PodWith("failed")
        /\ cluster'.ready = 0 /\ cluster'.instances = cluster.instances
        /\ cluster'.instanceNames = cluster.instanceNames
    BY <2>0, WithPodIs DEF PodStatus
  <2>2. crashes' \in Nat /\ crashes' # 0
    BY <2>0 DEF DialerInv
  <2> QED
    BY <2>0, <2>1, <2>2, Pods DEF DialerInv, ClusterForm
<1>7. ASSUME NEW c \in Callers, Update(c) PROVE DialerInv'
  <2>1. branch' \in BranchObject /\ branch'.pool = branch.pool /\ branch'.name = branch.name
    BY ZenonT(60), <1>7 DEF Update, DialerInv, BranchObject
  <2> QED
    BY <1>7, <2>1 DEF Update, DialerInv, ClusterForm
<1>8. ASSUME NEW c \in Callers,
             Dial(c) \/ DescribeCluster(c) \/ WaitStart(c) \/ WaitReturns(c) \/ Redial(c)
             \/ Pause(c, FALSE) \/ Pause(c, TRUE) \/ WaitTimeout(c) \/ PollEnds(c)
             \/ \E fails \in BOOLEAN : Poll(c, fails)
      PROVE  UNCHANGED <<branch, cluster, crashes>>
  BY <1>8 DEF Dial, DescribeCluster, WaitStart, WaitReturns, Redial, Pause, WaitTimeout,
              PollEnds, Poll, dialerVars
<1>9. Endpoints => UNCHANGED <<branch, cluster, crashes>>
  BY DEF Endpoints
<1>10. UNCHANGED vars => UNCHANGED <<branch, cluster, crashes>>
  BY DEF vars, dialerVars
<1> QED
  BY ZenonT(60), <1>a, <1>1, <1>2, <1>3, <1>4, <1>5, <1>6, <1>7, <1>8, <1>9, <1>10
     DEF Next, CalmNext, DialStep, ClusterStep

-----------------------------------------------------------------------------
LEMMA StatusFields ==
    ASSUME NEW ph, NEW t, NEW n, NEW r, NEW in, NEW d,
           d = [phase |-> ph, type |-> t, instanceCount |-> n, readyCount |-> r, instances |-> in]
    PROVE  /\ d.type = t /\ d.phase = ph /\ d.instances = in
           /\ d.instanceCount = n /\ d.readyCount = r
  OBVIOUS

(* A cluster that wakes is described as one. *)
LEMMA DescribedAs ==
    ASSUME DialerInv, cluster # NoCluster, ~cluster.hibernation,
           NEW d, d = BuildClusterStatus(cluster)
    PROVE  /\ d.instanceCount = cluster.instances
           /\ d.readyCount = cluster.ready
           /\ d.type \in {"healthy", "transient"}
           /\ d.type = "healthy" => cluster.ready >= cluster.instances
           /\ cluster.phase # "" => d.phase = cluster.phase
           /\ DOMAIN d.instances = InstancesOf(cluster)
           /\ \A i \in InstancesOf(cluster) : d.instances[i] = InstanceStatusOf(cluster, i)
<1> PICK in : in = [i \in InstancesOf(cluster) |-> InstanceStatusOf(cluster, i)]
  BY ZenonT(60)
<1> DEFINE tp == PhaseType(cluster.phase)
           ok == InstancesReconciled(cluster.instances, cluster.ready, in)
<1>1. tp \in {"healthy", "transient"}
  <2>1. cluster.phase \in {"", "healthy", "first_primary", "waiting_for_instances"}
    BY ZenonT(60) DEF DialerInv, ClusterObject
  <2> QED
    BY ZenonT(60), <2>1 DEF PhaseType, TransientClusterStates, StartingFromZeroPhases
<1> PICK t : t = IF tp = "healthy" /\ ~ok THEN "transient" ELSE tp
  OBVIOUS
<1> PICK ph : ph = IF cluster.phase = "" THEN "unknown" ELSE cluster.phase
  BY ZenonT(60)
<1>2. d = [phase |-> ph, type |-> t, instanceCount |-> cluster.instances, readyCount |-> cluster.ready,
           instances |-> in]
  BY ZenonT(60) DEF BuildClusterStatus
<1>3. ok => cluster.ready >= cluster.instances
  BY ZenonT(60) DEF InstancesReconciled
<1> HIDE DEF tp, ok
<1>4. /\ d.type = t /\ d.phase = ph /\ d.instances = in
      /\ d.instanceCount = cluster.instances /\ d.readyCount = cluster.ready
  BY ONLY <1>2, StatusFields, Zenon
<1>5. DOMAIN in = InstancesOf(cluster) /\ \A i \in InstancesOf(cluster) : in[i] = InstanceStatusOf(cluster, i)
  BY ZenonT(60)
<1> QED
  BY ZenonT(60), <1>1, <1>3, <1>4, <1>5

LEMMA HibernatedIsSeen ==
    ASSUME NEW c, c.hibernation = TRUE
    PROVE  BuildClusterStatus(c).type = "hibernated"
  BY DEF BuildClusterStatus

(* Instances with a pod have its status, the others are unknown. *)
LEMMA InstancesAre ==
    ASSUME DialerInv, cluster # NoCluster
    PROVE  /\ \A s \in PodStatus : cluster.instancesStatus = PodWith(s) =>
                 /\ InstancesOf(cluster) = {Primary}
                 /\ InstanceStatusOf(cluster, Primary).status = s
                 /\ InstanceStatusOf(cluster, Primary).primary = (cluster.currentPrimary = Primary)
           /\ cluster.instancesStatus = NoPods /\ cluster.instances = 1 =>
                 /\ InstancesOf(cluster) = {Primary}
                 /\ InstanceStatusOf(cluster, Primary).status = "unknown"
<1>1. /\ cluster.currentPrimary \in {NoInstance, Primary}
      /\ cluster.targetPrimary \in {NoInstance, Primary}
  BY ZenonT(60) DEF DialerInv, ClusterObject
<1>2. ASSUME NEW s \in PodStatus, cluster.instancesStatus = PodWith(s)
      PROVE  /\ InstancesOf(cluster) = {Primary}
             /\ InstanceStatusOf(cluster, Primary).status = s
             /\ InstanceStatusOf(cluster, Primary).primary = (cluster.currentPrimary = Primary)
  <2>1. DOMAIN cluster.instancesStatus = {Primary} /\ cluster.instancesStatus[Primary] = s
    BY ZenonT(60), <1>2, Pods
  <2>2. InstancesOf(cluster) = {Primary}
    BY <1>1, <2>1 DEF InstancesOf
  <2> QED
    BY <2>1, <2>2 DEF InstanceStatusOf
<1>3. ASSUME cluster.instancesStatus = NoPods, cluster.instances = 1
      PROVE  /\ InstancesOf(cluster) = {Primary}
             /\ InstanceStatusOf(cluster, Primary).status = "unknown"
  <2>1. DOMAIN cluster.instancesStatus = {}
    BY <1>3, Pods
  <2>2. cluster.instanceNames = {Primary}
    BY <1>3 DEF DialerInv, ClusterForm
  <2>3. InstancesOf(cluster) = {Primary}
    BY <1>1, <2>1, <2>2 DEF InstancesOf
  <2> QED
    BY <2>1, <2>3 DEF InstanceStatusOf
<1> QED
  BY <1>2, <1>3

LEMMA RefusalIsForCrashes == DialerInv => OnlyCrashesAreRefused
<1> SUFFICES ASSUME DialerInv PROVE OnlyCrashesAreRefused
  OBVIOUS
<1> PICK d : d = Describe
  OBVIOUS
<1>d. DecisionNow = Decision(d, "rw", 1, branch.scaleToZero)
  BY DEF DecisionNow
<1>1. CASE ~branch.name \/ cluster = NoCluster
  <2>1. d = DefaultStatus(branch.awaiting)
    BY <1>1 DEF Describe
  <2>2. d.type \in {"hibernated", "transient"} /\ d.instanceCount = 0
    BY <2>1 DEF DefaultStatus
  <2>3. IsStartingFromZero(d)
    BY <2>2 DEF IsStartingFromZero
  <2>4. DecisionNow # "dialErr"
    BY <1>d, <2>2, <2>3 DEF Decision
  <2>5. cluster = NoCluster
    BY <1>1 DEF DialerInv, ClusterForm
  <2> QED
    BY <2>4, <2>5 DEF OnlyCrashesAreRefused
<1>2. CASE branch.name /\ cluster # NoCluster /\ cluster.hibernation
  <2>1. d.type = "hibernated"
    BY ZenonT(60), <1>2, HibernatedIsSeen DEF Describe, DialerInv, ClusterObject
  <2>2. DecisionNow # "dialErr"
    BY <1>d, <2>1 DEF Decision
  <2> QED
    BY <1>2, <2>2 DEF OnlyCrashesAreRefused
<1>3. CASE branch.name /\ cluster # NoCluster /\ ~cluster.hibernation
  <2>0. cluster \in ClusterObject /\ d = BuildClusterStatus(cluster)
    BY <1>3 DEF DialerInv, Describe
  <2>1. /\ d.instanceCount = cluster.instances /\ d.readyCount = cluster.ready
        /\ d.type \in {"healthy", "transient"}
        /\ d.type = "healthy" => cluster.ready >= cluster.instances
        /\ cluster.phase # "" => d.phase = cluster.phase
        /\ DOMAIN d.instances = InstancesOf(cluster)
        /\ \A i \in InstancesOf(cluster) : d.instances[i] = InstanceStatusOf(cluster, i)
    BY ZenonT(60), <1>3, <2>0, DescribedAs
  <2>2. /\ cluster.instances \in {0, 1} /\ cluster.ready \in {0, 1}
        /\ cluster.instancesStatus = NoPods \/ \E s \in PodStatus : cluster.instancesStatus = PodWith(s)
    BY ZenonT(60), <2>0 DEF ClusterObject
  <2>3. IsClusterAvailable(d) \/ IsStartingFromZero(d) => DecisionNow = "hold"
    BY ZenonT(60), <1>d, <2>1 DEF Decision
  <2>4. ~(IsClusterAvailable(d) \/ IsStartingFromZero(d)) => DecisionNow = "dialErr"
    BY ZenonT(60), <1>d, <2>1 DEF Decision
  <2>5. CASE cluster.instancesStatus = NoPods
    <3>1. ASSUME cluster.instances = 0 PROVE IsStartingFromZero(d)
      BY ZenonT(60), <2>1, <3>1 DEF IsStartingFromZero
    <3>2. ASSUME cluster.instances = 1 PROVE IsStartingFromZero(d)
      <4>1. DOMAIN d.instances = {Primary} /\ d.instances[Primary].status = "unknown"
        BY ZenonT(60), <1>3, <2>1, <2>5, <3>2, InstancesAre
      <4>2. NoInstanceHasPod(d)
        BY <4>1 DEF NoInstanceHasPod, PodStatus
      <4> QED
        BY <4>2 DEF IsStartingFromZero
    <3>3. IsStartingFromZero(d)
      BY <2>2, <3>1, <3>2
    <3> QED
      BY <2>3, <2>5, <3>3, Pods DEF OnlyCrashesAreRefused
  <2>6. CASE cluster.instancesStatus = PodWith("replicating")
    <3>1. cluster.phase = "waiting_for_instances"
      BY <1>3, <2>6 DEF DialerInv, ClusterForm
    <3>2. IsStartingFromZero(d)
      BY <2>1, <3>1 DEF IsStartingFromZero, StartingFromZeroPhases
    <3> QED
      BY <2>3, <3>1, <3>2 DEF OnlyCrashesAreRefused
  <2>7. CASE cluster.instancesStatus = PodWith("healthy")
    <3>1. /\ DOMAIN d.instances = {Primary} /\ d.instances[Primary].status = "healthy"
          /\ d.instances[Primary].primary
      BY ZenonT(60), <1>3, <2>1, <2>7, InstancesAre DEF PodStatus, DialerInv, ClusterForm
    <3>2. IsClusterAvailable(d)
      BY <3>1 DEF IsClusterAvailable
    <3>3. cluster.instancesStatus # PodWith("failed")
      BY <2>7, Pods
    <3> QED
      BY <2>3, <3>2, <3>3 DEF OnlyCrashesAreRefused
  <2>8. CASE cluster.instancesStatus = PodWith("failed")
    <3>1. crashes # 0 /\ cluster.instances = 1 /\ cluster.ready = 0
      BY <1>3, <2>8, Pods DEF DialerInv, ClusterForm
    <3>2. DOMAIN d.instances = {Primary} /\ d.instances[Primary].status = "failed"
      BY ZenonT(60), <1>3, <2>1, <2>8, InstancesAre DEF PodStatus
    <3>3. d.type # "healthy"
      <4>1. ~(cluster.ready >= cluster.instances)
        BY <3>1
      <4> QED
        BY ZenonT(60), <2>1, <4>1
    <3>4. ~IsClusterAvailable(d)
      BY <3>2, <3>3 DEF IsClusterAvailable
    <3>5. cluster.phase = "healthy" => ~IsStartingFromZero(d)
      BY <2>1, <3>1, <3>2 DEF IsStartingFromZero, StartingFromZeroPhases, NoInstanceHasPod, PodStatus
    <3> QED
      BY <2>4, <3>1, <3>4, <3>5 DEF OnlyCrashesAreRefused
  <2> QED
    BY <2>2, <2>5, <2>6, <2>7, <2>8 DEF PodStatus
<1> QED
  BY <1>1, <1>2, <1>3

(* In whatever order a branch is created, hibernated, woken, dialled and        *)
(* deleted, and however its Service lags behind: a dial that fails is answered  *)
(* with the dial error only after the instance has crashed, and it is when the  *)
(* primary is down (DescribePostgresCluster and ClusterDialer.Dial).            *)
THEOREM RefusedOnlyAfterCrashes == Spec => []OnlyCrashesAreRefused
<1>1. Spec => []DialerInv
  BY DialerInit, DialerStep, PTL DEF Spec
<1> QED
  BY <1>1, RefusalIsForCrashes, PTL

(* Every step of a dial, of a poll and of the cluster is a step of the Coalescer *)
(* or leaves it alone: waitUntilReachable uses Do as it may be used.             *)
THEOREM DialersUseTheCoalescer == Spec => CoalescerSpec
<1>1. Init => CoalescerInit
  BY DEF Init
<1>2. [Next]_vars => [CoalescerNext]_coalescerVars
  <2>1. ASSUME NEW c \in Callers, DialStep(c) \/ WaitTimeout(c) \/ Pause(c, TRUE) \/ PollEnds(c)
                                   \/ \E fails \in BOOLEAN : Poll(c, fails)
        PROVE  CallerStep(c) \/ FlightStep(c) \/ UNCHANGED coalescerVars
    <3>1. CASE Dial(c) \/ DescribeCluster(c) \/ Update(c) \/ Redial(c) \/ Pause(c, FALSE) \/ Pause(c, TRUE)
      BY <3>1 DEF Dial, DescribeCluster, Update, Redial, Pause
    <3>2. CASE WaitStart(c) \/ WaitReturns(c) \/ WaitTimeout(c)
      BY ZenonT(60), <3>2 DEF WaitStart, WaitReturns, WaitTimeout, CallerStep
    <3>3. CASE PollEnds(c)
      BY <3>3 DEF PollEnds, FlightStep
    <3>4. ASSUME NEW fails \in BOOLEAN, Poll(c, fails) PROVE FlightStep(c)
      <4>1. \E r \in {"error", "canceled", "value"} : FnReturns(c, r)
        BY <3>4 DEF Poll
      <4> QED
        BY <4>1 DEF FlightStep, Result
    <3> QED
      BY ZenonT(60), <2>1, <3>1, <3>2, <3>3, <3>4 DEF DialStep
  <2>2. ClusterStep \/ Hibernate \/ DeleteBranch \/ Crash => UNCHANGED coalescerVars
    BY DEF ClusterStep, Reconcile, PoolWake, Cnpg, Endpoints, Hibernate, DeleteBranch, Crash
  <2>3. UNCHANGED vars => UNCHANGED coalescerVars
    BY DEF vars
  <2> QED
    BY ZenonT(60), <2>1, <2>2, <2>3 DEF Next, CalmNext, CoalescerNext
<1> QED
  BY <1>1, <1>2, PTL DEF Spec, CoalescerSpec

(* A connection that is held is never ended by another one that gave up, in the *)
(* gateway as a whole (waitUntilReachable).                                      *)
THEOREM HeldDialsAreTheirOwn == Spec => []NoForeignCancel
  BY DialersUseTheCoalescer, NobodyIsCancelledByOthers, PTL

-----------------------------------------------------------------------------
(* API keys *)

(* What the handler checks of the grants of a key against those of its creator. *)
Covers(parent, child) ==
    /\ ScopesWithin(child.scopes, parent.scopes)
    /\ Within(child.projects, parent.projects)
    /\ Within(child.branches, parent.branches)

KeyTypeOK ==
    /\ keys \in [KeyCalls -> [state : {"none", "live", "deleted"}, target : KeyTarget, name : KeyName,
                              by : KeyCalls \cup {"user"}, expiry : 0..Never, grants : Grants]]
    /\ keyCall \in [KeyCalls -> [pc : {"idle", "parent", "validate", "count", "insert", "done"},
                                 req : KeyBody, bound : Grants]]

(* A key is within the key it was created with ... *)
KeyFits(k) ==
    keys[k].state # "none" /\ keys[k].by # "user" =>
       /\ keys[keys[k].by].state # "none"
       /\ keys[k].expiry <= keys[keys[k].by].expiry
       /\ Covers(keys[keys[k].by].grants, keys[k].grants)

(* ... since a request that has read that key knows what it will always be. *)
KeyCallFits(k) ==
    LET by == keyCall[k].req.by IN
    /\ keyCall[k].pc # "done" => keys[k].state = "none"
    /\ keyCall[k].pc \in {"validate", "count", "insert"} /\ by # "user" =>
          /\ keys[by].state # "none"
          /\ keyCall[k].req.expiry <= keys[by].expiry
          /\ keyCall[k].pc = "validate" =>
                /\ keyCall[k].bound = keys[by].grants
                /\ \A f \in {"scopes", "projects", "branches"} : keyCall[k].req.grants[f] # {}
          /\ keyCall[k].pc # "validate" => Covers(keys[by].grants, keyCall[k].req.grants)

KeyInv == KeyTypeOK /\ \A k \in KeyCalls : KeyFits(k) /\ KeyCallFits(k)

(* The policy and the handler agree: what is within the grants of a key is       *)
(* allowed to that key.                                                          *)
LEMMA CoversAllows ==
    ASSUME NEW parent, NEW child, Covers(parent, child), NEW kc, Allow(child, kc)
    PROVE  Allow(parent, kc)
<1>1. "*" \in parent.scopes \/ \A s \in kc.scopes : ScopeGranted(s, parent.scopes)
  <2>1. CASE "*" \in child.scopes
    BY <2>1 DEF Covers, ScopesWithin, ScopeGranted, WriteOf
  <2>2. CASE "*" \notin child.scopes
    <3> SUFFICES ASSUME NEW s \in kc.scopes, "*" \notin parent.scopes
                 PROVE  ScopeGranted(s, parent.scopes)
      OBVIOUS
    <3>1. s \in child.scopes \/ (s \in DOMAIN WriteOf /\ WriteOf[s] \in child.scopes)
      BY <2>2 DEF Allow, ScopeGranted
    <3>2. CASE s \in child.scopes
      BY <3>2 DEF Covers, ScopesWithin
    <3>3. CASE s \in DOMAIN WriteOf /\ WriteOf[s] \in child.scopes
      <4>1. ScopeGranted(WriteOf[s], parent.scopes)
        BY <3>3 DEF Covers, ScopesWithin
      <4>2. WriteOf[s] \notin DOMAIN WriteOf
        BY <3>3 DEF WriteOf
      <4> QED
        BY <3>3, <4>1, <4>2 DEF ScopeGranted
    <3> QED
      BY <3>1, <3>2, <3>3
  <2> QED
    BY <2>1, <2>2
<1>2. ResourceGranted(kc.project, parent.projects, "project:write", kc.scopes)
  BY Zenon DEF Covers, Within, Allow, ResourceGranted
<1>3. ResourceGranted(kc.branch, parent.branches, "branch:write", kc.scopes)
  BY Zenon DEF Covers, Within, Allow, ResourceGranted
<1> QED
  BY ZenonT(60), <1>1, <1>2, <1>3 DEF Allow

LEMMA KeyInvInit == KeyInit => KeyInv
<1> SUFFICES ASSUME KeyInit PROVE KeyInv
  OBVIOUS
<1>1. Everything \in Grants
  <2>1. {"*"} \in SUBSET Permission
    BY DEF Permission
  <2> QED
    BY <2>1 DEF Everything, Grants
<1>2. Never \in 0..Never
  BY KeysAssumption DEF Never
<1>3. "user" \in KeyTarget /\ "" \in KeyName
  BY DEF KeyTarget, KeyName
<1>4. NoKey \in [state : {"none", "live", "deleted"}, target : KeyTarget, name : KeyName,
                 by : KeyCalls \cup {"user"}, expiry : 0..Never, grants : Grants]
  BY Zenon, <1>1, <1>2, <1>3 DEF NoKey
<1>10. NoKeyRequest \in KeyBody
  BY Zenon, <1>1, <1>2, <1>3 DEF NoKeyRequest, KeyBody
<1>5. PICK kc : kc = [pc |-> "idle", req |-> NoKeyRequest, bound |-> Everything]
  BY Zenon
<1>6. kc \in [pc : {"idle", "parent", "validate", "count", "insert", "done"}, req : KeyBody, bound : Grants]
      /\ kc.pc = "idle"
  BY <1>1, <1>5, <1>10
<1>7. KeyTypeOK
  BY ZenonT(60), <1>4, <1>5, <1>6 DEF KeyInit, KeyTypeOK
<1>8. \A k \in KeyCalls : keys[k].state = "none" /\ keyCall[k].pc = "idle"
  BY Zenon, <1>5, <1>6 DEF KeyInit, NoKey
<1>9. \A k \in KeyCalls : KeyFits(k) /\ KeyCallFits(k)
  BY ZenonT(60), <1>8 DEF KeyFits, KeyCallFits
<1> QED
  BY <1>7, <1>9 DEF KeyInv

LEMMA KeyCallFields ==
    ASSUME NEW S, NEW Q, NEW B, NEW kc \in [pc : S, req : Q, bound : B],
           NEW at \in S, NEW req \in Q, NEW bound \in B, NEW then,
           \/ then = [kc EXCEPT !.pc = at, !.bound = bound, !.req = req]
           \/ then = [kc EXCEPT !.pc = at, !.req = req] /\ bound = kc.bound
    PROVE  then = [pc |-> at, req |-> req, bound |-> bound]
<1>1. CASE then = [kc EXCEPT !.pc = at, !.bound = bound, !.req = req]
  BY Zenon, <1>1
<1>2. CASE then = [kc EXCEPT !.pc = at, !.req = req] /\ bound = kc.bound
  BY Zenon, <1>2
<1> QED
  BY <1>1, <1>2

(* A step of one call that leaves the keys alone. *)
LEMMA KeyCallStep ==
    ASSUME KeyInv, NEW k \in KeyCalls, NEW next, keyCall' = [keyCall EXCEPT ![k] = next], keys' = keys,
           next \in [pc : {"idle", "parent", "validate", "count", "insert", "done"},
                     req : KeyBody, bound : Grants],
           next.pc # "done" => keyCall[k].pc # "done",
           next.pc \in {"validate", "count", "insert"} /\ next.req.by # "user" =>
              /\ keys[next.req.by].state # "none"
              /\ next.req.expiry <= keys[next.req.by].expiry
              /\ next.pc = "validate" =>
                    /\ next.bound = keys[next.req.by].grants
                    /\ \A f \in {"scopes", "projects", "branches"} : next.req.grants[f] # {}
              /\ next.pc # "validate" => Covers(keys[next.req.by].grants, next.req.grants)
    PROVE  KeyInv'
<1>1. KeyTypeOK'
  BY ZenonT(60) DEF KeyInv, KeyTypeOK
<1>2. \A j \in KeyCalls : keyCall'[j] = IF j = k THEN next ELSE keyCall[j]
  BY ZenonT(60) DEF KeyInv, KeyTypeOK
<1>3. ASSUME NEW j \in KeyCalls PROVE KeyFits(j)'
  BY ZenonT(60) DEF KeyInv, KeyFits, Covers
<1>4. ASSUME NEW j \in KeyCalls PROVE KeyCallFits(j)'
  <2>1. CASE j = k
    BY ZenonT(60), <1>2, <2>1 DEF KeyInv, KeyCallFits, Covers
  <2>2. CASE j # k
    <3>1. keyCall'[j] = keyCall[j] /\ KeyCallFits(j)
      BY ZenonT(60), <1>2, <2>2 DEF KeyInv
    <3> QED
      BY ZenonT(60), <3>1 DEF KeyCallFits, Covers
  <2> QED
    BY ZenonT(60), <2>1, <2>2
<1> QED
  BY ZenonT(60), <1>1, <1>3, <1>4 DEF KeyInv

LEMMA CleanedGrants ==
    ASSUME NEW g \in Grants
    PROVE  Cleaned(g) \in Grants /\ Defaulted(g) \in Grants
<1>1. /\ DOMAIN g = {"scopes", "projects", "branches"}
      /\ g.scopes \in SUBSET Permission /\ g.projects \in SUBSET Permission /\ g.branches \in SUBSET Permission
  BY DEF Grants
<1>2. Cleaned(g) = [f \in {"scopes", "projects", "branches"} |-> g[f] \ {""}]
  BY <1>1 DEF Cleaned
<1>3. Cleaned(g) \in Grants
  BY Zenon, <1>1, <1>2 DEF Grants
<1>4. Defaulted(g) = [f \in {"scopes", "projects", "branches"} |-> IF g[f] = {} THEN {"*"} ELSE g[f]]
  BY <1>1 DEF Defaulted
<1>5. {"*"} \in SUBSET Permission
  BY DEF Permission
<1>6. Defaulted(g) \in Grants
  BY <1>1, <1>4, <1>5 DEF Grants
<1> QED
  BY <1>3, <1>6

LEMMA InheritedGrants ==
    ASSUME NEW g \in Grants, NEW parent \in Grants, \A f \in DOMAIN parent : parent[f] # {}
    PROVE  /\ Inherited(g, parent) \in Grants
           /\ \A f \in {"scopes", "projects", "branches"} : Inherited(g, parent)[f] # {}
  BY DEF Grants, Inherited

(* Grants that leave nothing out are kept as they are. *)
LEMMA DefaultedSame ==
    ASSUME NEW g \in Grants, \A f \in {"scopes", "projects", "branches"} : g[f] # {}
    PROVE  Defaulted(g).scopes = g.scopes /\ Defaulted(g).projects = g.projects
           /\ Defaulted(g).branches = g.branches
  BY DEF Grants, Defaulted

LEMMA StartCreateInv ==
    ASSUME KeyInv, NEW k \in KeyCalls, StartCreate(k) PROVE KeyInv'
<1>1. PICK r \in KeyRequests[k] :
        keyCall' = [keyCall EXCEPT ![k].pc = "parent", ![k].req = [r EXCEPT !.grants = Cleaned(@)]]
  BY Zenon DEF StartCreate
<1>2. r \in KeyBody /\ r.grants \in Grants
  BY KeysAssumption DEF KeyBody
<1>3. PICK next : next = [keyCall[k] EXCEPT !.pc = "parent", !.req = [r EXCEPT !.grants = Cleaned(@)]]
  OBVIOUS
<1>4. [r EXCEPT !.grants = Cleaned(@)] \in KeyBody
  BY <1>2, CleanedGrants DEF KeyBody
<1>5. keyCall[k].bound \in Grants /\ next = [pc |-> "parent", req |-> [r EXCEPT !.grants = Cleaned(@)],
                                             bound |-> keyCall[k].bound]
  BY Zenon, <1>3 DEF KeyInv, KeyTypeOK
<1>6. keyCall' = [keyCall EXCEPT ![k] = next] /\ keys' = keys /\ keyCall[k].pc = "idle"
  BY Zenon, <1>1, <1>3 DEF StartCreate
<1> QED
  BY Zenon, <1>4, <1>5, <1>6, KeyCallStep

LEMMA KeyCallEndsInv ==
    ASSUME KeyInv, NEW k \in KeyCalls, KeyCallEnds(k), keys' = keys PROVE KeyInv'
<1>1. PICK next : next = [keyCall[k] EXCEPT !.pc = "done"]
  BY Zenon
<1>2. keyCall' = [keyCall EXCEPT ![k] = next] /\ next = [pc |-> "done", req |-> keyCall[k].req,
                                                         bound |-> keyCall[k].bound]
      /\ keyCall[k].req \in KeyBody /\ keyCall[k].bound \in Grants
  BY <1>1 DEF KeyCallEnds, KeyInv, KeyTypeOK
<1> QED
  BY Zenon, <1>2, KeyCallStep

LEMMA ReadParentInv ==
    ASSUME KeyInv, NEW k \in KeyCalls, ReadParent(k) PROVE KeyInv'
<1>1. PICK req : req = keyCall[k].req
  OBVIOUS
<1>2. /\ req \in KeyBody /\ req.by \in KeyCalls \cup {"user"} /\ req.grants \in Grants
      /\ keyCall[k].bound \in Grants /\ keyCall[k].pc = "parent" /\ keys' = keys
  BY <1>1 DEF KeyInv, KeyTypeOK, KeyBody, ReadParent
<1>3. CASE req.by = "user"
  <2>1. PICK next : next = [pc |-> "validate", req |-> req, bound |-> keyCall[k].bound]
    BY Zenon
  <2>2. keyCall' = [keyCall EXCEPT ![k] = next]
    BY <1>1, <1>3, <2>1 DEF ReadParent, KeyInv, KeyTypeOK
  <2> QED
    BY Zenon, <1>2, <1>3, <2>1, <2>2, KeyCallStep
<1>4. CASE req.by # "user" /\ ~KeyCallEnds(k)
  <2>1. PICK parent : parent = keys[req.by]
    OBVIOUS
  <2>2. /\ parent.state = "live" /\ (\A f \in DOMAIN parent.grants : parent.grants[f] # {})
        /\ req.expiry <= parent.expiry
        /\ keyCall' = [keyCall EXCEPT ![k].pc = "validate", ![k].bound = parent.grants,
                          ![k].req.grants = Inherited(@, parent.grants)]
    BY ZenonT(60), <1>1, <1>4, <2>1 DEF ReadParent
  <2>3. parent.grants \in Grants
    BY <1>2, <1>4, <2>1 DEF KeyInv, KeyTypeOK
  <2>4. PICK g : g = Inherited(req.grants, parent.grants)
    OBVIOUS
  <2>5. g \in Grants /\ \A f \in {"scopes", "projects", "branches"} : g[f] # {}
    BY ZenonT(60), <1>2, <2>2, <2>3, <2>4, InheritedGrants
  <2>6. PICK asked : asked = [req EXCEPT !.grants = g]
    BY Zenon
  <2>7. asked \in KeyBody /\ asked.by = req.by /\ asked.expiry = req.expiry /\ asked.grants = g
    BY <1>2, <2>5, <2>6 DEF KeyBody
  <2>8. PICK next : next = [pc |-> "validate", req |-> asked, bound |-> parent.grants]
    BY Zenon
  <2>9. keyCall' = [keyCall EXCEPT ![k] = next]
    <3>1. keyCall \in [KeyCalls -> [pc : {"idle", "parent", "validate", "count", "insert", "done"},
                                    req : KeyBody, bound : Grants]]
      BY DEF KeyInv, KeyTypeOK
    <3>2. keyCall' = [keyCall EXCEPT ![k] = [keyCall[k] EXCEPT !.pc = "validate", !.bound = parent.grants,
                                                !.req = [req EXCEPT !.grants = g]]]
      BY Zenon, <1>1, <2>2, <2>4, <3>1
    <3>3. PICK kc \in [pc : {"idle", "parent", "validate", "count", "insert", "done"},
                         req : KeyBody, bound : Grants] : kc = keyCall[k]
      BY <3>1
    <3>5. PICK then : then = [kc EXCEPT !.pc = "validate", !.bound = parent.grants, !.req = asked]
      OBVIOUS
    <3>4. then = next
      <4>1. "validate" \in {"idle", "parent", "validate", "count", "insert", "done"}
        OBVIOUS
      <4>2. then = [pc |-> "validate", req |-> asked, bound |-> parent.grants]
        BY <2>3, <2>7, <3>3, <3>5, <4>1, KeyCallFields, Zenon
      <4> QED
        BY <2>8, <4>2
    <3> QED
      BY <2>6, <3>2, <3>3, <3>4, <3>5
  <2> QED
    BY ZenonT(60), <1>2, <2>1, <2>2, <2>3, <2>5, <2>7, <2>8, <2>9, KeyCallStep
<1> QED
  BY <1>2, <1>3, <1>4, KeyCallEndsInv

LEMMA ValidateKeyInv ==
    ASSUME KeyInv, NEW k \in KeyCalls, ValidateKey(k) PROVE KeyInv'
<1>1. PICK req, bound : req = keyCall[k].req /\ bound = keyCall[k].bound
  OBVIOUS
<1>2. /\ req \in KeyBody /\ req.by \in KeyCalls \cup {"user"} /\ req.grants \in Grants
      /\ bound \in Grants /\ keyCall[k].pc = "validate" /\ keys' = keys
  BY <1>1 DEF KeyInv, KeyTypeOK, KeyBody, ValidateKey
<1>3. CASE ~KeyCallEnds(k)
  <2>1. /\ Covers(bound, req.grants)
        /\ keyCall' = [keyCall EXCEPT ![k].pc = "count", ![k].req.grants = Defaulted(@)]
    BY <1>1, <1>3 DEF ValidateKey, Covers
  <2>2. PICK g : g = Defaulted(req.grants)
    OBVIOUS
  <2>3. PICK asked : asked = [req EXCEPT !.grants = g]
    BY Zenon
  <2>4. asked \in KeyBody /\ asked.by = req.by /\ asked.expiry = req.expiry /\ asked.grants = g
    BY <1>2, <2>2, <2>3, CleanedGrants DEF KeyBody
  <2>5. PICK next : next = [pc |-> "count", req |-> asked, bound |-> bound]
    BY Zenon
  <2>6. keyCall' = [keyCall EXCEPT ![k] = next]
    <3>1. keyCall \in [KeyCalls -> [pc : {"idle", "parent", "validate", "count", "insert", "done"},
                                    req : KeyBody, bound : Grants]]
      BY DEF KeyInv, KeyTypeOK
    <3>2. keyCall' = [keyCall EXCEPT ![k] = [keyCall[k] EXCEPT !.pc = "count", !.req = [req EXCEPT !.grants = g]]]
      BY Zenon, <1>1, <2>1, <2>2, <3>1
    <3>3. PICK kc \in [pc : {"idle", "parent", "validate", "count", "insert", "done"},
                         req : KeyBody, bound : Grants] : kc = keyCall[k]
      BY <3>1
    <3>5. PICK then : then = [kc EXCEPT !.pc = "count", !.req = asked]
      OBVIOUS
    <3>4. then = next
      <4>1. "count" \in {"idle", "parent", "validate", "count", "insert", "done"}
        OBVIOUS
      <4>2. then = [pc |-> "count", req |-> asked, bound |-> bound]
        BY <1>1, <1>2, <2>4, <3>3, <3>5, <4>1, KeyCallFields, Zenon
      <4> QED
        BY <2>5, <4>2
    <3> QED
      BY <2>3, <3>2, <3>3, <3>4, <3>5
  <2>7. ASSUME req.by # "user"
        PROVE  /\ keys[req.by].state # "none" /\ req.expiry <= keys[req.by].expiry
               /\ Covers(keys[req.by].grants, g)
    <3>1. /\ keys[req.by].state # "none" /\ req.expiry <= keys[req.by].expiry
          /\ bound = keys[req.by].grants
          /\ \A f \in {"scopes", "projects", "branches"} : req.grants[f] # {}
      BY ZenonT(60), <1>1, <1>2, <2>7 DEF KeyInv, KeyCallFits
    <3>2. g.scopes = req.grants.scopes /\ g.projects = req.grants.projects /\ g.branches = req.grants.branches
      BY ZenonT(60), <1>2, <2>2, <3>1, DefaultedSame
    <3> QED
      BY <2>1, <3>1, <3>2 DEF Covers
  <2> QED
    BY Zenon, <1>2, <2>4, <2>5, <2>6, <2>7, KeyCallStep
<1> QED
  BY <1>2, <1>3, KeyCallEndsInv

LEMMA CountKeysInv ==
    ASSUME KeyInv, NEW k \in KeyCalls, CountKeys(k) PROVE KeyInv'
<1>1. keyCall[k].pc = "count" /\ keys' = keys
  BY DEF CountKeys
<1>2. CASE keyCall' = [keyCall EXCEPT ![k].pc = "insert"]
  <2>1. PICK next : next = [pc |-> "insert", req |-> keyCall[k].req, bound |-> keyCall[k].bound]
    BY Zenon
  <2>2. keyCall' = [keyCall EXCEPT ![k] = next] /\ keyCall[k].req \in KeyBody /\ keyCall[k].bound \in Grants
    <3>1. keyCall \in [KeyCalls -> [pc : {"idle", "parent", "validate", "count", "insert", "done"},
                                    req : KeyBody, bound : Grants]]
      BY DEF KeyInv, KeyTypeOK
    <3>2. next = [keyCall[k] EXCEPT !.pc = "insert"]
      BY <2>1, <3>1
    <3>3. keyCall' = [keyCall EXCEPT ![k] = [keyCall[k] EXCEPT !.pc = "insert"]]
      BY <1>2
    <3> QED
      BY <3>1, <3>2, <3>3
  <2>3. next.req.by # "user" =>
          /\ keys[next.req.by].state # "none" /\ next.req.expiry <= keys[next.req.by].expiry
          /\ Covers(keys[next.req.by].grants, next.req.grants)
    BY ZenonT(60), <1>1, <2>1 DEF KeyInv, KeyCallFits
  <2> QED
    BY Zenon, <1>1, <2>1, <2>2, <2>3, KeyCallStep
<1> QED
  BY <1>1, <1>2, KeyCallEndsInv DEF CountKeys

(* The row that InsertKey inserts. *)
KeyRow(req) == [state |-> "live", target |-> req.target, name |-> req.name,
                by |-> req.by, expiry |-> req.expiry, grants |-> req.grants]

LEMMA KeyRowFields ==
    ASSUME NEW req
    PROVE  /\ KeyRow(req).state = "live" /\ KeyRow(req).by = req.by
           /\ KeyRow(req).expiry = req.expiry /\ KeyRow(req).grants = req.grants
  BY DEF KeyRow

LEMMA InsertKeyInv ==
    ASSUME KeyInv, NEW k \in KeyCalls, InsertKey(k) PROVE KeyInv'
<1>1. keyCall[k].pc = "insert" /\ KeyCallEnds(k) /\ keys[k].state = "none"
  BY ZenonT(60) DEF InsertKey, KeyInv, KeyCallFits
<1>2. CASE keys' = keys
  BY <1>1, <1>2, KeyCallEndsInv
<1>3. CASE keys' # keys
  <2>1. PICK req, row : /\ req = keyCall[k].req
                        /\ row = KeyRow(req)
    BY Zenon
  <2>2. keys' = [keys EXCEPT ![k] = row]
    BY ZenonT(60), <1>3, <2>1 DEF InsertKey, KeyRow
  <2>3. req \in KeyBody
    BY <2>1 DEF KeyInv, KeyTypeOK
  <2>4. KeyTypeOK'
    BY <1>1, <2>1, <2>2, <2>3 DEF KeyInv, KeyTypeOK, KeyCallEnds, KeyBody, KeyRow
  <2>5. keys'[k] = row /\ \A j \in KeyCalls : j # k => keys'[j] = keys[j]
    BY <2>2 DEF KeyInv, KeyTypeOK
  <2>6. req.by # "user" => /\ req.by \in KeyCalls \ {k} /\ keys[req.by].state # "none"
                           /\ req.expiry <= keys[req.by].expiry /\ Covers(keys[req.by].grants, req.grants)
    BY ZenonT(60), <1>1, <2>1, <2>3 DEF KeyInv, KeyCallFits, KeyBody
  <2>7. ASSUME NEW j \in KeyCalls PROVE KeyFits(j)'
    <3>1. CASE j = k
      <4>1. /\ keys'[k].state = "live" /\ keys'[k].by = req.by
            /\ keys'[k].expiry = req.expiry /\ keys'[k].grants = req.grants
        <5>1. keys'[k] = KeyRow(req)
          BY Zenon, <2>1, <2>5
        <5> QED
          BY SMTT(40), <5>1, KeyRowFields
      <4>2. req.by # "user" => req.by \in KeyCalls /\ req.by # k /\ keys'[req.by] = keys[req.by]
        BY Zenon, <2>5, <2>6
      <4> QED
        BY ZenonT(60), <2>6, <3>1, <4>1, <4>2 DEF KeyFits, Covers
    <3>2. CASE j # k
      <4>1. keys[j].state # "none" /\ keys[j].by # "user" => keys[j].by \in KeyCalls \ {k}
        BY <1>1 DEF KeyInv, KeyFits, KeyTypeOK
      <4> QED
        BY ZenonT(60), <2>5, <3>2, <4>1 DEF KeyInv, KeyFits, Covers
    <3> QED
      BY <3>1, <3>2
  <2>8. keyCall'[k].pc = "done" /\ \A j \in KeyCalls : j # k => keyCall'[j] = keyCall[j]
    BY <1>1 DEF KeyCallEnds, KeyInv, KeyTypeOK
  <2>9. ASSUME NEW j \in KeyCalls PROVE KeyCallFits(j)'
    <3>1. CASE j = k
      BY ZenonT(60), <2>8, <3>1 DEF KeyCallFits
    <3>2. CASE j # k
      <4>1. keyCall[j].req.by \in KeyCalls \cup {"user"}
        BY DEF KeyInv, KeyTypeOK, KeyBody
      <4> QED
        BY ZenonT(60), <1>1, <2>5, <2>8, <3>2, <4>1 DEF KeyInv, KeyCallFits, Covers
    <3> QED
      BY <3>1, <3>2
  <2> QED
    BY <2>4, <2>7, <2>9 DEF KeyInv
<1> QED
  BY <1>2, <1>3

LEMMA DeleteAPIKeysInv ==
    ASSUME KeyInv, NEW ids \in SUBSET KeyCalls, DeleteAPIKeys(ids) PROVE KeyInv'
<1>1. KeyTypeOK'
  BY DEF KeyInv, KeyTypeOK, DeleteAPIKeys
<1>2. \A k \in KeyCalls : /\ keys'[k].by = keys[k].by /\ keys'[k].expiry = keys[k].expiry
                          /\ keys'[k].grants = keys[k].grants
                          /\ keys'[k].state = "none" <=> keys[k].state = "none"
  BY DEF KeyInv, KeyTypeOK, DeleteAPIKeys, Live
<1>3. ASSUME NEW k \in KeyCalls PROVE KeyFits(k)'
  <2>1. keys[k].by \in KeyCalls \cup {"user"}
    BY DEF KeyInv, KeyTypeOK
  <2> QED
    BY ZenonT(60), <1>2, <2>1 DEF KeyInv, KeyFits, Covers
<1>4. ASSUME NEW k \in KeyCalls PROVE KeyCallFits(k)'
  <2>1. keyCall[k].req.by \in KeyCalls \cup {"user"} /\ keyCall' = keyCall
    BY DEF KeyInv, KeyTypeOK, KeyBody, DeleteAPIKeys
  <2> QED
    BY Zenon, <1>2, <2>1 DEF KeyInv, KeyCallFits, Covers
<1> QED
  BY <1>1, <1>3, <1>4 DEF KeyInv

LEMMA KeyInvNext == KeyInv /\ [KeyNext \/ ClaimNext]_accessVars => KeyInv'
<1> SUFFICES ASSUME KeyInv, [KeyNext \/ ClaimNext]_accessVars PROVE KeyInv'
  OBVIOUS
<1>1. CASE UNCHANGED <<keys, keyCall>>
  <2>1. keys' = keys /\ keyCall' = keyCall
    BY <1>1
  <2>2. KeyTypeOK'
    BY <2>1 DEF KeyInv, KeyTypeOK
  <2>3. ASSUME NEW k \in KeyCalls PROVE KeyFits(k)' /\ KeyCallFits(k)'
    <3>1. KeyFits(k) /\ KeyCallFits(k)
      BY DEF KeyInv
    <3>2. KeyFits(k)'
      BY ZenonT(60), <2>1, <3>1 DEF KeyFits, Covers
    <3>3. KeyCallFits(k)'
      BY Zenon, <2>1, <3>1 DEF KeyCallFits, Covers
    <3> QED
      BY <3>2, <3>3
  <2> QED
    BY <2>2, <2>3 DEF KeyInv
<1>2. CASE KeyNext
  BY ZenonT(60), <1>1, <1>2, StartCreateInv, ReadParentInv, ValidateKeyInv, CountKeysInv, InsertKeyInv, DeleteAPIKeysInv
     DEF KeyNext, Passes
<1>3. CASE ClaimNext \/ UNCHANGED accessVars
  BY <1>1, <1>3 DEF ClaimNext, ChangeOrg, IssueToken, accessVars
<1> QED
  BY <1>2, <1>3

(* A key can do nothing that the key it was created with could not, nor for       *)
(* longer, for any chains of keys, however their creations, expiries and          *)
(* deletions interleave.                                                          *)
THEOREM KeysStayWithin == AccessSpec => []KeyWithinCreator
<1>1. KeyInv => KeyWithinCreator
  BY ZenonT(60), CoversAllows DEF KeyInv, KeyFits, KeyWithinCreator
<1> QED
  BY <1>1, KeyInvInit, KeyInvNext, PTL DEF AccessSpec
===============================================================================
