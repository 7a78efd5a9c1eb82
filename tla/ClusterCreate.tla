----------------------------- MODULE ClusterCreate -----------------------------
(* CreatePostgresCluster of the clusters service (services/clusters/clusters.go, *)
(* secrets.go) call by call, for one branch: the claim of a pool cluster, the    *)
(* Secret with the password of the application user, the Branch and, for a       *)
(* clone, its WakeupRequest.  The projects service retries a request whose       *)
(* connection broke, with the same idempotency key, while the first attempt may   *)
(* still run; a request with another key may ask for the same identifier.         *)
EXTENDS Naturals

CONSTANTS
    MaxAttempts,    \* bound on attempts of requests
    Keys,           \* idempotency keys, NoKey for a client that sends none
    NoKey,
    NoPassword,
    PoolClusters,   \* clusters ready in the pool, each with its password
    OwnCluster,     \* the branch has a cluster that is not from a pool
    MaxLost         \* bound on calls that fail or whose answer is lost

ASSUME CreateAssumption ==
    /\ MaxAttempts \in Nat /\ MaxLost \in Nat
    /\ NoKey \in Keys
    /\ NoPassword \notin PoolClusters /\ OwnCluster \notin PoolClusters
    /\ \A kind \in {"new", "rotated"}, n \in 0..MaxAttempts : NoPassword # <<kind, n>>

Attempts == 1..MaxAttempts

VARIABLES
    clone,      \* the branch is a clone of its parent and needs a wakeup
    object,     \* the Branch
    secret,     \* the password in the Secret <branch>-app
    taken,      \* pool clusters that were claimed
    wakeup,     \* a WakeupRequest was created
    att,        \* the attempts
    overlapped, \* two attempts have run at the same time
    rotated,    \* the password was rotated
    lost        \* faults so far

createVars == <<clone, rotated, object, secret, taken, wakeup, att, overlapped, lost>>

NoObject == [there |-> FALSE, key |-> NoKey, cluster |-> OwnCluster]

NoAttempt == [pc |-> "none", key |-> NoKey, cluster |-> OwnCluster, made |-> FALSE]

Running == {"claim", "secret", "create", "existing", "cleanup", "wakeup"}

CreateInit ==
    /\ clone = FALSE
    /\ rotated = FALSE
    /\ object = NoObject
    /\ secret = NoPassword
    /\ taken = {}
    /\ wakeup = FALSE
    /\ att = [a \in Attempts |-> NoAttempt]
    /\ overlapped = FALSE
    /\ lost = 0

Active == {a \in Attempts : att[a].pc \in Running}

Go(a, pc) == att' = [att EXCEPT ![a].pc = pc]

LoseOne == lost < MaxLost /\ lost' = lost + 1

(* Attempts start in order: the first of a request, or one more after the        *)
(* connection of the last one broke, which its handler need not notice at once.  *)
(* All of them are for a clone, or none is.                                      *)
BeginAttempt(a, key) ==
    /\ att[a].pc = "none"
    /\ IF a = 1 THEN clone' \in BOOLEAN ELSE UNCHANGED clone
    /\ \A b \in 1..(a - 1) : att[b].pc # "none"
    /\ att' = [att EXCEPT ![a].pc = "claim", ![a].key = key]
    /\ overlapped' = (overlapped \/ Active # {})
    /\ UNCHANGED <<rotated, object, secret, taken, wakeup, lost>>

(* A child does not look for a pool cluster; a root branch takes one if the pool *)
(* has one in time.                                                              *)
FindPoolCluster(a) ==
    /\ att[a].pc = "claim"
    /\ \/ /\ Go(a, "secret") /\ UNCHANGED <<taken, lost>>
       \/ /\ ~clone
          /\ \E c \in PoolClusters \ taken :
               /\ att' = [att EXCEPT ![a].pc = "secret", ![a].cluster = c]
               /\ taken' = taken \cup {c}
               /\ UNCHANGED lost
       \/ Go(a, "failed") /\ LoseOne /\ UNCHANGED taken
    /\ UNCHANGED <<clone, rotated, object, secret, wakeup, overlapped>>

(* The password of a pool cluster, or a new one. *)
AppPassword(a) == IF att[a].cluster = OwnCluster THEN <<"new", a>> ELSE att[a].cluster

(* A Secret that exists is kept, and is not this attempt's to clean up. *)
CreateAppSecret(a) ==
    /\ att[a].pc = "secret"
    /\ \/ /\ secret = NoPassword
          /\ secret' = AppPassword(a)
          /\ \/ att' = [att EXCEPT ![a].pc = "create", ![a].made = TRUE] /\ UNCHANGED lost
             \/ Go(a, "failed") /\ LoseOne
       \/ /\ secret # NoPassword
          /\ Go(a, "create")
          /\ UNCHANGED <<secret, lost>>
       \/ Go(a, "failed") /\ LoseOne /\ UNCHANGED secret
    /\ UNCHANGED <<clone, rotated, object, taken, wakeup, overlapped>>

(* The Branch is created; any error, a lost answer included, goes to the clean up. *)
CreateObject(a) ==
    /\ att[a].pc = "create"
    /\ \/ /\ ~object.there
          /\ object' = [there |-> TRUE, key |-> att[a].key, cluster |-> att[a].cluster]
          /\ \/ Go(a, "wakeup") /\ UNCHANGED lost
             \/ Go(a, "cleanup") /\ LoseOne
       \/ object.there /\ Go(a, "existing") /\ UNCHANGED <<object, lost>>
       \/ Go(a, "cleanup") /\ LoseOne /\ UNCHANGED object
    /\ UNCHANGED <<clone, rotated, secret, taken, wakeup, overlapped>>

(* The existing Branch is the result if it has the key of this request. *)
AcceptExisting(a) ==
    /\ att[a].pc = "existing"
    /\ \/ /\ att[a].key # NoKey /\ object.key = att[a].key
          /\ Go(a, "wakeup") /\ UNCHANGED lost
       \/ /\ att[a].key = NoKey \/ object.key # att[a].key
          /\ Go(a, "cleanup") /\ UNCHANGED lost
       \/ Go(a, "cleanup") /\ LoseOne
    /\ UNCHANGED <<clone, rotated, object, secret, taken, wakeup, overlapped>>

(* Mutant of CleanUp: the Secret is removed whoever made it. *)
CleanUpAny(a) ==
    /\ att[a].pc = "cleanup"
    /\ \/ secret' = NoPassword /\ UNCHANGED lost
       \/ UNCHANGED secret /\ LoseOne
    /\ Go(a, "failed")
    /\ UNCHANGED <<clone, rotated, object, taken, wakeup, overlapped>>

(* The Secret that this attempt made is removed; that this fails is only logged. *)
CleanUp(a) ==
    /\ att[a].pc = "cleanup"
    /\ \/ /\ secret' = IF att[a].made THEN NoPassword ELSE secret
          /\ UNCHANGED lost
       \/ UNCHANGED secret /\ LoseOne
    /\ Go(a, "failed")
    /\ UNCHANGED <<clone, rotated, object, taken, wakeup, overlapped>>

(* Mutant of EnsureWakeup: an attempt that found the Branch leaves it to the      *)
(* attempt that created it.                                                       *)
EnsureWakeupIfCreated(a) ==
    /\ att[a].pc = "wakeup"
    /\ \/ wakeup' = (wakeup \/ (clone /\ att[a].made)) /\ Go(a, "ok") /\ UNCHANGED lost
       \/ UNCHANGED wakeup /\ Go(a, "failed") /\ LoseOne
    /\ UNCHANGED <<clone, rotated, object, secret, taken, overlapped>>

(* createWakeupRequestForNewBranch, for a Branch that was created or found. *)
EnsureWakeup(a) ==
    /\ att[a].pc = "wakeup"
    /\ \/ wakeup' = (wakeup \/ clone) /\ Go(a, "ok") /\ UNCHANGED lost
       \/ wakeup' \in {wakeup, wakeup \/ clone} /\ Go(a, "failed") /\ LoseOne
    /\ UNCHANGED <<clone, rotated, object, secret, taken, overlapped>>

(* The operator makes the Secrets that a Branch lacks. *)
ReconcileAppSecret ==
    /\ object.there /\ secret = NoPassword
    /\ secret' = <<"new", 0>>
    /\ UNCHANGED <<clone, rotated, object, taken, wakeup, att, overlapped, lost>>

(* RotatePostgresClusterCredentials for the application user, once: a new         *)
(* password in a Secret that exists, read and written until nobody interferes.    *)
RotateCredentials ==
    /\ object.there /\ secret # NoPassword
    /\ ~rotated
    /\ rotated' = TRUE
    /\ secret' = <<"rotated", 0>>
    /\ UNCHANGED <<clone, object, taken, wakeup, att, overlapped, lost>>

CreateStep(a) ==
    \/ FindPoolCluster(a) \/ CreateAppSecret(a) \/ CreateObject(a)
    \/ AcceptExisting(a) \/ CleanUp(a) \/ EnsureWakeup(a)

CreateNext ==
    \/ \E a \in Attempts : (\E key \in Keys : BeginAttempt(a, key)) \/ CreateStep(a)
    \/ ReconcileAppSecret
    \/ RotateCredentials

CreateSpec == CreateInit /\ [][CreateNext]_createVars

-----------------------------------------------------------------------------
Acked(a) == att[a].pc = "ok"

(* The branch that is acknowledged is the one that was asked for: a request is    *)
(* told that it succeeded only if the Branch was created by it or by an earlier   *)
(* attempt of the same request, whatever answers were lost.  It has credentials   *)
(* without waiting for the operator, unless two attempts ran at the same time:    *)
(* then the clean up of one may remove the Secret that the other relies on.  A    *)
(* clone has been asked to wake up.                                               *)
AckedIsOurs ==
    \A a \in Attempts : Acked(a) =>
        /\ object.there /\ object.key = att[a].key
        /\ ~overlapped => secret # NoPassword
        /\ clone => wakeup

(* The password that a branch was acknowledged with is replaced by a rotation     *)
(* only, and one that was rotated does not come back: later attempts keep the     *)
(* Secret they find, and their clean up is not for it, unless attempts overlap.   *)
PasswordIsKept ==
    [][(\E a \in Attempts : Acked(a)) /\ ~overlapped
         => secret' = secret \/ rotated' # rotated]_createVars
=============================================================================
