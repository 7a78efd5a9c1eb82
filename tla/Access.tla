-------------------------------- MODULE Access --------------------------------
(***************************************************************************)
(* Who may call the API (services/auth: ValidateAccess, the API keys and how  *)
(* they are created; internal/opa/policy).                                    *)
(*                                                                           *)
(* An API key may be created with another one, and so on: keys form chains.   *)
(* Creating a key is a series of calls to the stores, between which the key    *)
(* used may expire or be deleted.  A user's access token carries what Keycloak *)
(* knew of their organizations when it was issued.                            *)
(*                                                                           *)
(* Permission lists are sets: order and repetition are lost on the way in.     *)
(***************************************************************************)
EXTENDS Naturals, FiniteSets

CONSTANTS
    KeyCalls,        \* requests that create a key, each giving its name to its key
    KeyRequests,     \* what each of them may ask for
    Projects,        \* the projects, all of one organization
    ProjectOf,       \* the branches, each with its project
    MaxAPIKeys,      \* MaxAPIKeysPerTarget
    MaxClock,        \* bound on the time
    Orgs             \* organizations of the user whose token is looked at

VARIABLES
    keys,            \* the table api_keys, with the rows deleted from it
    keyCall,         \* the requests that create keys
    clock,
    org,             \* what Keycloak knows of the user's organizations
    jwt              \* the user's access token

accessVars == <<keys, keyCall, clock, org, jwt>>

Never == MaxClock + 1        \* the expiry of a key without one

(* Scopes and identifiers; "*" stands for all of them. *)
Permission == STRING \cup {"*"}

Grants == [scopes : SUBSET Permission, projects : SUBSET Permission, branches : SUBSET Permission]

KeyTarget == STRING \cup {"user"}

KeyName == STRING \cup {""}

KeyBody == [target : KeyTarget, name : KeyName, by : KeyCalls \cup {"user"}, expiry : 0..Never,
            grants : Grants]

(* A request is sent by a user or with a key. *)
ASSUME KeysAssumption ==
    /\ "user" \notin KeyCalls /\ MaxClock \in Nat
    /\ KeyRequests \in [KeyCalls -> SUBSET KeyBody]

Everything == [scopes |-> {"*"}, projects |-> {"*"}, branches |-> {"*"}]

NoKey == [state |-> "none", target |-> "user", name |-> "", by |-> "user", expiry |-> Never,
          grants |-> Everything]

NoKeyRequest == [target |-> "user", name |-> "", by |-> "user", expiry |-> Never,
                 grants |-> Everything]

KeyInit ==
    /\ keys = [k \in KeyCalls |-> NoKey]
    /\ keyCall = [k \in KeyCalls |-> [pc |-> "idle", req |-> NoKeyRequest, bound |-> Everything]]
    /\ clock = 0

ClaimInit ==
    /\ org = [o \in Orgs |-> [member |-> FALSE, enabled |-> FALSE, deleted |-> FALSE]]
    /\ jwt = [complete |-> FALSE, orgs |-> org]

Live(k) == keys[k].state = "live"

-----------------------------------------------------------------------------
(* policy.rego, for a route and the scopes, project and branch of a call to it. *)
WriteOf == [s \in {"project:read", "branch:read"} |->
              IF s = "project:read" THEN "project:write" ELSE "branch:write"]

ScopeGranted(s, scopes) == s \in scopes \/ (s \in DOMAIN WriteOf /\ WriteOf[s] \in scopes)

ResourceGranted(resource, list, write, scopes) ==
    \/ "*" \in list
    \/ IF resource = "" THEN write \notin scopes ELSE resource \in list

Allow(grants, call) ==
    /\ "*" \in grants.scopes \/ \A s \in call.scopes : ScopeGranted(s, grants.scopes)
    /\ ResourceGranted(call.project, grants.projects, "project:write", call.scopes)
    /\ ResourceGranted(call.branch, grants.branches, "branch:write", call.scopes)

(* The routes: what they are about and the scope they require. *)
Calls ==
    [scopes : {{}} \cup {{s} : s \in {"project:read", "project:write", "branch:read", "branch:write"}},
     project : Projects \cup {""}, branch : DOMAIN ProjectOf \cup {""}]

(* ValidateAPIKey. *)
ValidKey(k) == Live(k) /\ clock <= keys[k].expiry

-----------------------------------------------------------------------------
Mixed(list) == "*" \in list /\ list \ {"*", ""} # {}

Cleaned(grants) == [f \in DOMAIN grants |-> grants[f] \ {""}]

(* The request passes the middleware: the key it was sent with is valid and its  *)
(* claims allow the route, which asks for no scope of a key; then come the       *)
(* checks that need nothing but the request.                                     *)
StartCreate(k) ==
    /\ keyCall[k].pc = "idle"
    /\ \E r \in KeyRequests[k] :
          /\ r.by # "user" => ValidKey(r.by)
          /\ r.expiry = Never \/ clock < r.expiry
          /\ \A f \in DOMAIN r.grants : ~Mixed(r.grants[f])
          /\ keyCall' = [keyCall EXCEPT ![k].pc = "parent",
                            ![k].req = [r EXCEPT !.grants = Cleaned(@)]]
    /\ UNCHANGED <<keys, clock, org, jwt>>

KeyCallEnds(k) == keyCall' = [keyCall EXCEPT ![k].pc = "done"]

(* Mutant of Inherited: what the request leaves out is left to the store. *)
InheritedNothing(asked, parent) == asked

(* What the request leaves out is taken from the key it was sent with. *)
Inherited(asked, parent) ==
    [f \in DOMAIN asked |-> IF asked[f] = {} THEN parent[f] ELSE asked[f]]

(* GetAPIKey of the key the request was sent with; a user is not bounded. *)
ReadParent(k) ==
    /\ keyCall[k].pc = "parent"
    /\ LET req == keyCall[k].req
           parent == keys[req.by] IN
       IF req.by = "user"
       THEN keyCall' = [keyCall EXCEPT ![k].pc = "validate"]
       ELSE IF /\ parent.state = "live"
               /\ \A f \in DOMAIN parent.grants : parent.grants[f] # {}
               /\ req.expiry <= parent.expiry
       THEN keyCall' = [keyCall EXCEPT ![k].pc = "validate", ![k].bound = parent.grants,
                           ![k].req.grants = Inherited(@, parent.grants)]
       ELSE KeyCallEnds(k)
    /\ UNCHANGED <<keys, clock, org, jwt>>

Concrete(list) == IF "*" \in list THEN {} ELSE list

(* ValidateHierarchy: branches are looked for in the projects of the request. *)
ValidHierarchy(grants) ==
    /\ Concrete(grants.projects) \subseteq Projects
    /\ \A b \in Concrete(grants.branches) :
          b \in DOMAIN ProjectOf /\ ProjectOf[b] \in Concrete(grants.projects)

(* validateResourceList *)
Within(list, allowed) == "*" \in allowed \/ list \subseteq allowed

ScopesWithin(scopes, allowed) ==
    \A s \in scopes : "*" \in allowed \/ ScopeGranted(s, allowed)

Defaulted(grants) == [f \in DOMAIN grants |-> IF grants[f] = {} THEN {"*"} ELSE grants[f]]

(* The checks against the bound, and those the store makes before its transaction. *)
ValidateKey(k) ==
    /\ keyCall[k].pc = "validate"
    /\ LET req == keyCall[k].req
           bound == keyCall[k].bound IN
       IF /\ ValidHierarchy(req.grants)
          /\ ScopesWithin(req.grants.scopes, bound.scopes)
          /\ Within(req.grants.projects, bound.projects)
          /\ Within(req.grants.branches, bound.branches)
          /\ clock <= req.expiry
       THEN keyCall' = [keyCall EXCEPT ![k].pc = "count", ![k].req.grants = Defaulted(@)]
       ELSE KeyCallEnds(k)
    /\ UNCHANGED <<keys, clock, org, jwt>>

OfTarget(target) == {k \in KeyCalls : Live(k) /\ keys[k].target = target}

(* CreateAPIKey counts the keys of the target, in a transaction without a lock. *)
CountKeys(k) ==
    /\ keyCall[k].pc = "count"
    /\ IF Cardinality(OfTarget(keyCall[k].req.target)) < MaxAPIKeys
       THEN keyCall' = [keyCall EXCEPT ![k].pc = "insert"]
       ELSE KeyCallEnds(k)
    /\ UNCHANGED <<keys, clock, org, jwt>>

(* The names of a target's keys are unique. *)
InsertKey(k) ==
    /\ keyCall[k].pc = "insert"
    /\ LET req == keyCall[k].req IN
       IF \E other \in OfTarget(req.target) : keys[other].name = req.name
       THEN keys' = keys
       ELSE keys' = [keys EXCEPT ![k] =
               [state |-> "live", target |-> req.target, name |-> req.name, by |-> req.by,
                expiry |-> req.expiry, grants |-> req.grants]]
    /\ KeyCallEnds(k)
    /\ UNCHANGED <<clock, org, jwt>>

DeleteAPIKeys(ids) ==
    /\ ids # {} /\ \A k \in ids : Live(k)
    /\ keys' = [k \in KeyCalls |-> IF k \in ids THEN [keys[k] EXCEPT !.state = "deleted"] ELSE keys[k]]
    /\ UNCHANGED <<keyCall, clock, org, jwt>>

Passes ==
    /\ clock < MaxClock /\ clock' = clock + 1
    /\ \E k \in KeyCalls : keyCall[k].pc # "idle"
    /\ UNCHANGED <<keys, keyCall, org, jwt>>

-----------------------------------------------------------------------------
(* Keycloak: a user joins and leaves organizations, which are enabled, disabled *)
(* and deleted; none of it reaches a token that was issued before.              *)
ChangeOrg(o) ==
    /\ \/ org' = [org EXCEPT ![o].member = ~@]
       \/ org' = [org EXCEPT ![o].enabled = ~@]
       \/ ~org[o].deleted /\ org' = [org EXCEPT ![o].deleted = TRUE]
    /\ UNCHANGED <<keys, keyCall, clock, jwt>>

(* A token has an email and organizations with the attributes of Xata, or it is  *)
(* incomplete; that of a user without organizations has no claim on any.         *)
IssueToken ==
    /\ \E complete \in BOOLEAN :
          jwt' = [complete |-> complete /\ (\E o \in Orgs : org[o].member), orgs |-> org]
    /\ UNCHANGED <<keys, keyCall, clock, org>>

(* claimsFromAccessToken, and ListOrganizations: deleted organizations are hidden. *)
Claimed(known) == {o \in Orgs : known[o].member /\ ~known[o].deleted}

(* Mutant of Trusted: the token is believed about an organization it knows. *)
TrustedIfMember(o) == jwt.complete /\ o \in Claimed(jwt.orgs)

(* trustedClaims: a refusal is not left to the token. *)
Trusted(o) == jwt.complete /\ o \in Claimed(jwt.orgs) /\ jwt.orgs[o].enabled

(* validateJWT, for a request about an organization. *)
UserClaims(o) == IF Trusted(o) THEN jwt.orgs ELSE org

KeyNext ==
    \/ \E k \in KeyCalls : \/ StartCreate(k) \/ ReadParent(k) \/ ValidateKey(k)
                           \/ CountKeys(k) \/ InsertKey(k)
    \/ \E ids \in SUBSET KeyCalls : DeleteAPIKeys(ids)
    \/ Passes

ClaimNext == (\E o \in Orgs : ChangeOrg(o)) \/ IssueToken

AccessSpec == KeyInit /\ ClaimInit /\ [][KeyNext \/ ClaimNext]_accessVars

-----------------------------------------------------------------------------
(* A key created with another one can call nothing that the other could not, and *)
(* not for longer, all the way up the chain: what the policy allows the one it   *)
(* allows the other, although policy.rego and the handler decide separately, and *)
(* whether or not the other still exists.                                        *)
KeyWithinCreator ==
    \A k \in KeyCalls :
       LET by == keys[k].by IN
       (keys[k].state # "none" /\ by # "user") =>
          /\ keys[k].expiry <= keys[by].expiry
          /\ \A call \in Calls : Allow(keys[k].grants, call) => Allow(keys[by].grants, call)

(* Whatever a token was issued with, a member of an organization has access to   *)
(* it, and finds it enabled once it is: trustedClaims asks Keycloak before it    *)
(* lets a token refuse.                                                          *)
NoStaleDenial ==
    \A o \in Orgs :
       o \in Claimed(org) => /\ o \in Claimed(UserClaims(o))
                             /\ org[o].enabled => UserClaims(o)[o].enabled
=============================================================================
