----------------------------- MODULE FilterTable -----------------------------
(***************************************************************************)
(* What the IP filtering RPCs of one cell promise their callers: a table    *)
(* with one entry per branch, and calls that each take effect at once, at   *)
(* most once, between the call and its return.  A call that returns no      *)
(* error has taken effect; a call that returns an error may have.           *)
(***************************************************************************)
CONSTANTS
    Writers,    \* the callers
    Branches,   \* branch IDs
    Configs,    \* IPFilteringConfig values
    NoEntry     \* no entry for the branch

VARIABLES
    table,    \* the entry of each branch
    request,  \* what each caller asks for, while its call is pending
    status    \* where its call is: idle, pending, ok, error

vars == <<table, request, status>>

Empty == [b \in Branches |-> NoEntry]

(* A request gives every branch of a set the same entry, or none. *)
Requests == [branches : SUBSET Branches, entry : Configs \cup {NoEntry}]

Applied(r, t) == [b \in Branches |-> IF b \in r.branches THEN r.entry ELSE t[b]]

NoRequest == [branches |-> {}, entry |-> NoEntry]

Init ==
    /\ table = Empty
    /\ request = [w \in Writers |-> NoRequest]
    /\ status = [w \in Writers |-> "idle"]

Call(w) ==
    /\ status[w] # "pending"
    /\ \E r \in Requests : request' = [request EXCEPT ![w] = r]
    /\ status' = [status EXCEPT ![w] = "pending"]
    /\ UNCHANGED table

Apply(w) ==
    /\ status[w] = "pending"
    /\ table' = Applied(request[w], table)
    /\ \E s \in {"ok", "error"} : status' = [status EXCEPT ![w] = s]
    /\ request' = [request EXCEPT ![w] = NoRequest]

Refuse(w) ==
    /\ status[w] = "pending"
    /\ status' = [status EXCEPT ![w] = "error"]
    /\ request' = [request EXCEPT ![w] = NoRequest]
    /\ UNCHANGED table

(* Someone deletes the ConfigMap that holds the table. *)
Clear == table' = Empty /\ UNCHANGED <<request, status>>

Next == Clear \/ \E w \in Writers : Call(w) \/ Apply(w) \/ Refuse(w)

Spec == Init /\ [][Next]_vars
=============================================================================
