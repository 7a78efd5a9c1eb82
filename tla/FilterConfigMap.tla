--------------------------- MODULE FilterConfigMap ---------------------------
(***************************************************************************)
(* The IP filtering ConfigMap of a cell.                                     *)
(*                                                                           *)
(* The clusters service keeps the IP filtering of all the branches of a     *)
(* cell in one ConfigMap.  Each RPC reads the whole map, changes the entries *)
(* of its branches and writes the whole map back; the API server refuses a  *)
(* write whose resourceVersion is not the current one, and the RPC then      *)
(* starts again, at most MaxRetries times.                                   *)
(*                                                                           *)
(* The gateway watches the ConfigMap, rebuilds its rules from every version  *)
(* it is told of, and decides on the connections of clients with them.       *)
(***************************************************************************)
EXTENDS Integers, Sequences, FiniteSets

CONSTANTS
    Writers,      \* RPC handlers of the clusters service
    Branches,     \* branch IDs
    Configs,      \* IPFilteringConfig values: [enabled, allowed]
    NoEntry,      \* a branch without an entry
    Addrs,        \* client addresses; an allowed CIDR is the set of its addresses
    Unparsable,   \* text that is neither an address nor a CIDR
    Menu,         \* the requests that are made
    MaxRetries,   \* attempts of one RPC
    MaxBacklog,   \* bound on the versions the gateway is behind when a call starts
    MaxDeletes,   \* bound on the deletions of the ConfigMap
    MaxFaults     \* bound on the API server errors

ASSUME RetriesAssumption == MaxRetries \in Nat \ {0}
ASSUME ConfigsAssumption ==
    /\ NoEntry \notin Configs
    /\ \A c \in Configs :
         /\ c.enabled \in BOOLEAN
         /\ c.allowed \subseteq (SUBSET Addrs) \cup {Unparsable}
ASSUME BoundsAssumption == MaxBacklog \in Nat /\ MaxDeletes \in Nat /\ MaxFaults \in Nat

VARIABLES
    exists,    \* the ConfigMap exists
    data,      \* the entry of each branch in it
    pc,        \* each handler: idle, get, write, ok, error
    request,   \* the call it serves
    snap,      \* the ConfigMap it has read, and whether that is still current
    attempt,   \* the attempt it is at, from 0
    events,    \* versions of the map that the gateway has yet to see
    rules,     \* Filter.rules of the gateway: branch -> allowed addresses
    deletes,
    faults

mapVars == <<exists, data>>
callVars == <<pc, request, snap, attempt>>
gatewayVars == <<events, rules>>
filterVars == <<mapVars, callVars, gatewayVars, deletes, faults>>

Entries == Configs \cup {NoEntry}
Tables == [Branches -> Entries]
Empty == [b \in Branches |-> NoEntry]
Requests == [branches : SUBSET Branches, entry : Entries]

(* A handler that serves no call, or has not read the ConfigMap. *)
NoRequest == [branches |-> {}, entry |-> NoEntry]
NoSnap == [exists |-> FALSE, data |-> Empty, current |-> FALSE]

(* A DeleteBranchIPFiltering is for a single branch. *)
ASSUME MenuAssumption ==
    /\ Menu \subseteq Requests
    /\ \A r \in Menu : r.entry = NoEntry => Cardinality(r.branches) = 1

-----------------------------------------------------------------------------
(* The gateway's filter *)

(* Filter.updateRules: a rule only for an enabled branch, with the addresses   *)
(* of the CIDRs that parse.                                                    *)
RulesOf(t) ==
    [b \in {b \in Branches : t[b] # NoEntry /\ t[b].enabled} |->
        UNION (t[b].allowed \ {Unparsable})]

(* Mutant of IsAllowed: a rule without an address is no rule. *)
IsAllowedIfEmpty(b, addr) == b \in DOMAIN rules /\ rules[b] # {} => addr \in rules[b]

(* Filter.IsAllowed: without a rule every client is let in, with one only a   *)
(* client whose address parses and is in one of its prefixes.                  *)
IsAllowed(b, addr) == b \in DOMAIN rules => addr \in rules[b]

(* Mutant of HandleConfigMap: the new rules are merged into the old ones. *)
HandleConfigMapMerging ==
    /\ events # <<>>
    /\ LET new == RulesOf(Head(events)) IN
         rules' = [b \in DOMAIN new \cup DOMAIN rules |->
                     IF b \in DOMAIN new THEN new[b] ELSE rules[b]]
    /\ events' = Tail(events)
    /\ UNCHANGED <<mapVars, callVars, deletes, faults>>

(* The informer's handlers: Filter.handleConfigMap on an added or updated map *)
(* replaces all rules; a deleted map is an empty one.                          *)
HandleConfigMap ==
    /\ events # <<>>
    /\ rules' = RulesOf(Head(events))
    /\ events' = Tail(events)
    /\ UNCHANGED <<mapVars, callVars, deletes, faults>>

(* The watch breaks: the informer lists again and sees the current version    *)
(* only.                                                                       *)
Relist ==
    /\ Len(events) > 1
    /\ events' = <<data>>
    /\ UNCHANGED <<mapVars, callVars, rules, deletes, faults>>

-----------------------------------------------------------------------------
(* The RPCs of the clusters service *)

FilterTypeOK ==
    /\ exists \in BOOLEAN
    /\ data \in Tables
    /\ pc \in [Writers -> {"idle", "get", "write", "ok", "error"}]
    /\ request \in [Writers -> Requests]
    /\ snap \in [Writers -> [exists : BOOLEAN, data : Tables, current : BOOLEAN]]
    /\ attempt \in [Writers -> 0 .. MaxRetries - 1]
    /\ events \in Seq(Tables)
    /\ DOMAIN rules \subseteq Branches
    /\ \A b \in DOMAIN rules : rules[b] \subseteq Addrs
    /\ deletes \in Nat
    /\ faults \in Nat

FilterInit ==
    /\ exists = FALSE
    /\ data = Empty
    /\ pc = [w \in Writers |-> "idle"]
    /\ request = [w \in Writers |-> NoRequest]
    /\ snap = [w \in Writers |-> NoSnap]
    /\ attempt = [w \in Writers |-> 0]
    /\ events = <<>>
    /\ rules = RulesOf(Empty)
    /\ deletes = 0
    /\ faults = 0

Return(w, outcome) ==
    /\ pc' = [pc EXCEPT ![w] = outcome]
    /\ request' = [request EXCEPT ![w] = NoRequest]
    /\ attempt' = [attempt EXCEPT ![w] = 0]

(* SetBranchIPFiltering, SetBranchesIPFiltering or DeleteBranchIPFiltering. *)
Call(w) ==
    /\ pc[w] \in {"idle", "ok", "error"}
    /\ Len(events) <= MaxBacklog
    /\ \E r \in Menu : request' = [request EXCEPT ![w] = r]
    /\ pc' = [pc EXCEPT ![w] = "get"]
    /\ UNCHANGED <<mapVars, snap, attempt, gatewayVars, deletes, faults>>

(* Nothing to set, or the entry to delete is not there. *)
NothingToDo(r) ==
    \/ r.branches = {}
    \/ r.entry = NoEntry /\ \A b \in r.branches : data[b] = NoEntry

(* One attempt, up to and with reading the ConfigMap. *)
Get(w) ==
    /\ pc[w] = "get"
    /\ \/ /\ NothingToDo(request[w])
          /\ Return(w, "ok")
          /\ UNCHANGED snap
       \/ /\ ~NothingToDo(request[w])
          /\ snap' = [snap EXCEPT ![w] = [exists |-> exists, data |-> data, current |-> TRUE]]
          /\ pc' = [pc EXCEPT ![w] = "write"]
          /\ UNCHANGED <<request, attempt>>
    /\ UNCHANGED <<mapVars, gatewayVars, deletes, faults>>

Changed(r, t) == [b \in Branches |-> IF b \in r.branches THEN r.entry ELSE t[b]]

(* Mutant of Accepted: the map is written without its resourceVersion. *)
AcceptedBlindly(w) == snap[w].exists => exists

(* Create succeeds when there is no ConfigMap, Update when its resourceVersion *)
(* is the one that was read.                                                   *)
Accepted(w) == IF snap[w].exists THEN exists /\ snap[w].current ELSE ~exists

(* The ConfigMap gets a new resourceVersion: what the others have read is old. *)
Outdated == [v \in Writers |-> IF pc[v] = "write" THEN [snap[v] EXCEPT !.current = FALSE] ELSE snap[v]]

(* The API server accepts the write; its answer may be lost. *)
Write(w) ==
    /\ pc[w] = "write"
    /\ Accepted(w)
    /\ exists' = TRUE
    /\ data' = Changed(request[w], snap[w].data)
    /\ snap' = [Outdated EXCEPT ![w] = NoSnap]
    /\ events' = Append(events, data')
    /\ \/ Return(w, "ok") /\ UNCHANGED faults
       \/ /\ faults < MaxFaults
          /\ faults' = faults + 1
          /\ Return(w, "error")
    /\ UNCHANGED <<rules, deletes>>

(* Mutant of Conflict: the attempts are not counted. *)
ConflictForever(w) ==
    /\ pc[w] = "write"
    /\ ~Accepted(w)
    /\ snap' = [snap EXCEPT ![w] = NoSnap]
    /\ IF exists
         THEN /\ pc' = [pc EXCEPT ![w] = "get"]
              /\ UNCHANGED <<request, attempt>>
         ELSE Return(w, "error")
    /\ UNCHANGED <<mapVars, gatewayVars, deletes, faults>>

(* The write is refused: AlreadyExists or Conflict is tried again up to the   *)
(* last attempt; an Update of a ConfigMap that is gone is NotFound, an error.  *)
Conflict(w) ==
    /\ pc[w] = "write"
    /\ ~Accepted(w)
    /\ snap' = [snap EXCEPT ![w] = NoSnap]
    /\ IF exists /\ attempt[w] < MaxRetries - 1
         THEN /\ attempt' = [attempt EXCEPT ![w] = @ + 1]
              /\ pc' = [pc EXCEPT ![w] = "get"]
              /\ UNCHANGED request
         ELSE Return(w, "error")
    /\ UNCHANGED <<mapVars, gatewayVars, deletes, faults>>

(* A read or a write fails before it has any effect. *)
Fail(w) ==
    /\ pc[w] \in {"get", "write"}
    /\ faults < MaxFaults
    /\ faults' = faults + 1
    /\ Return(w, "error")
    /\ snap' = [snap EXCEPT ![w] = NoSnap]
    /\ UNCHANGED <<mapVars, gatewayVars, deletes>>

(* Someone deletes the ConfigMap. *)
Delete ==
    /\ exists
    /\ deletes < MaxDeletes
    /\ deletes' = deletes + 1
    /\ exists' = FALSE
    /\ data' = Empty
    /\ snap' = Outdated
    /\ events' = Append(events, Empty)
    /\ UNCHANGED <<pc, request, attempt, rules, faults>>

FilterNext ==
    \/ HandleConfigMap \/ Relist \/ Delete
    \/ \E w \in Writers : Call(w) \/ Get(w) \/ Write(w) \/ Conflict(w) \/ Fail(w)

FilterSpec == FilterInit /\ [][FilterNext]_filterVars

(* A handler goes on with its call, and the informer with its events. *)
FilterFairness ==
    /\ WF_filterVars(HandleConfigMap)
    /\ \A w \in Writers : WF_filterVars(Get(w) \/ Write(w) \/ Conflict(w))

-----------------------------------------------------------------------------
(* Properties *)

StatusOf(p) == IF p \in {"get", "write"} THEN "pending" ELSE p

Table == INSTANCE FilterTable WITH
    table <- data,
    status <- [w \in Writers |-> StatusOf(pc[w])]

(* The calls implement FilterTable: an update of one branch by one call is     *)
(* never lost to the read-modify-write of another (SetBranchIPFiltering,        *)
(* SetBranchesIPFiltering, DeleteBranchIPFiltering), a call that returned no    *)
(* error has taken effect, and a call that is tried again does so only once.    *)
TableSpec == Table!Spec

(* Every call returns, after at most MaxRetries attempts, whatever the others  *)
(* do to the ConfigMap.                                                         *)
EveryCallReturns ==
    \A w \in Writers : pc[w] = "get" ~> pc[w] \in {"ok", "error"}

(* What the entry of a branch says about a client, read on its own. *)
Permitted(entry, addr) ==
    \/ entry = NoEntry
    \/ ~entry.enabled
    \/ \E cidr \in entry.allowed \ {Unparsable} : addr \in cidr

Quiet == \A w \in Writers : pc[w] \notin {"get", "write"}

(* Once no call is under way, the gateway comes to let in exactly the clients  *)
(* that the entry of the branch allows (handleConfigMap, updateRules,           *)
(* IsAllowed), also where an entry was disabled or deleted, or went with the    *)
(* ConfigMap.                                                                   *)
GatewayFollows ==
    <>[]Quiet => <>[](\A b \in Branches, addr \in Addrs \cup {Unparsable} :
                        IsAllowed(b, addr) <=> Permitted(data[b], addr))
=============================================================================
