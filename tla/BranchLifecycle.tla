--------------------------- MODULE BranchLifecycle ---------------------------
(***************************************************************************)
(* The life of a pool branch in one cell: the Branch, WakeupRequest, CNPG   *)
(* Cluster and XVol objects in the Kubernetes API server, and the actors    *)
(* that read and write them concurrently:                                   *)
(*                                                                          *)
(*   - the clusters service (create, wake up and hibernate a branch);       *)
(*   - the WakeupRequest reconciler of the branch-operator (Wk...);         *)
(*   - the Branch reconciler of the branch-operator (Br...);                *)
(*   - the scale-to-zero sidecar that runs in every cluster;                *)
(*   - the clusterpool operator, the storage controller and the informer    *)
(*     caches, which live outside this repository.                          *)
(*                                                                          *)
(* Reconcilers read through informer caches (seenBranch, seenWur) that lag  *)
(* behind the API server.  A status update carries the version it was       *)
(* computed from and is refused when the object changed since; server-side  *)
(* apply and merge patches overwrite unconditionally.                       *)
(*                                                                          *)
(* Every cluster has one instance, whose PVC is its primary PVC.            *)
(***************************************************************************)
EXTENDS Naturals, FiniteSets

CONSTANTS
    Branches,         \* branch ids
    Clusters,         \* CNPG cluster names
    Calls,            \* concurrent calls of the clusters service
    None,             \* "no cluster" / "no branch"
    MaxXVols,         \* bound: volumes ever provisioned
    MaxRequests,      \* bound: WakeupRequests ever created
    MaxHibernations,  \* bound: hibernations ever started
    MaxFaults         \* bound: failed API calls and operator restarts

ASSUME NoneAssumption == None \notin Branches /\ None \notin Clusters
ASSUME BoundsAssumption == /\ MaxXVols \in Nat
                           /\ MaxRequests \in Nat
                           /\ MaxHibernations \in Nat
                           /\ MaxFaults \in Nat

VARIABLES
    branch,        \* the Branch objects
    seenBranch,    \* the operator's informer copies of them
    cluster,       \* the Cluster objects
    xvol,          \* the XVol objects; numbered in the order of creation
    wur,           \* the WakeupRequest of each branch, named after it
    seenWur,       \* the operator's informer copies of them
    queued,        \* the keys in the WakeupRequest work queue
    wk,            \* the WakeupRequest reconcile in progress, per key
    br,            \* the Branch reconcile in progress, per key
    call,          \* the clusters service calls in progress
    sidecar,       \* the branch a cluster's sidecar has decided to hibernate
    xvols,         \* volumes provisioned so far
    requests,      \* WakeupRequests created so far
    hibernations,  \* hibernations started so far
    faults         \* faults so far

vars == <<branch, seenBranch, cluster, xvol, wur, seenWur, queued, wk, br,
          call, sidecar, xvols, requests, hibernations, faults>>

ClusterName == Clusters \cup {None}
XVolName == 0..MaxXVols         \* 0: no volume recorded

(* spec.cluster.name, the awaiting-wakeup annotation, status.primaryXVolName *)
BranchObject == [exists : BOOLEAN, name : ClusterName,
                 awaiting : BOOLEAN, primary : XVolName]

(* Controller owner: the pool, nobody, or a branch.  xvol is the volume that *)
(* xVolNameForPV finds for the cluster's PV.                                  *)
ClusterObject == [st : {"unborn", "pool", "live", "gone"},
                  owner : Branches \cup {None}, xvol : XVolName]

(* retainedBy is the branch for which the reclaim policy is Retain, or None  *)
(* when the policy is Delete.                                                 *)
XVolObject == [live : BOOLEAN, retainedBy : Branches \cup {None}]

(* st is the status of the Succeeded condition: "new" before it is set, then *)
(* "unknown", "true" or "false".  "absent": there is no such object.          *)
WurObject == [st : {"absent", "new", "unknown", "true", "false"},
              uid : 0..MaxRequests, xvol : XVolName]

(* Where a reconcile or a call stands: named after the step it has reached. *)
WkPC == {"idle", "begun", "noname", "claimed", "annotated", "assigned", "named",
         "reassigned", "failing"}
BrPC == {"idle", "cluster", "status", "retain", "owned", "apply"}
CallPC == {"idle", "branch", "get", "delete", "create"}

WkState == [pc : WkPC, uid : 0..MaxRequests, xvol : XVolName,
            name : ClusterName, taken : ClusterName, terminal : BOOLEAN]

BrState == [pc : BrPC, name : ClusterName, primary : XVolName]

CallState == [pc : CallPC, b : Branches \cup {None}, name : ClusterName,
              xvol : XVolName]

TypeOK ==
    /\ branch \in [Branches -> BranchObject]
    /\ seenBranch \in [Branches -> BranchObject]
    /\ cluster \in [Clusters -> ClusterObject]
    /\ xvol \in [1..MaxXVols -> XVolObject]
    /\ wur \in [Branches -> WurObject]
    /\ seenWur \in [Branches -> WurObject]
    /\ queued \in [Branches -> BOOLEAN]
    /\ wk \in [Branches -> WkState]
    /\ br \in [Branches -> BrState]
    /\ call \in [Calls -> CallState]
    /\ sidecar \in [Clusters -> Branches \cup {None}]
    /\ xvols \in 0..MaxXVols
    /\ requests \in 0..MaxRequests
    /\ hibernations \in 0..MaxHibernations
    /\ faults \in 0..MaxFaults

-----------------------------------------------------------------------------
NoBranchObject == [exists |-> FALSE, name |-> None, awaiting |-> FALSE,
                   primary |-> 0]
NoWur == [st |-> "absent", uid |-> 0, xvol |-> 0]
WkIdle == [pc |-> "idle", uid |-> 0, xvol |-> 0, name |-> None,
           taken |-> None, terminal |-> FALSE]
BrIdle == [pc |-> "idle", name |-> None, primary |-> 0]
CallIdle == [pc |-> "idle", b |-> None, name |-> None, xvol |-> 0]

Init ==
    /\ branch = [b \in Branches |-> NoBranchObject]
    /\ seenBranch = branch
    /\ cluster = [c \in Clusters |->
                    [st |-> "unborn", owner |-> None, xvol |-> 0]]
    /\ xvol = [v \in 1..MaxXVols |-> [live |-> FALSE, retainedBy |-> None]]
    /\ wur = [b \in Branches |-> NoWur]
    /\ seenWur = wur
    /\ queued = [b \in Branches |-> FALSE]
    /\ wk = [b \in Branches |-> WkIdle]
    /\ br = [b \in Branches |-> BrIdle]
    /\ call = [k \in Calls |-> CallIdle]
    /\ sidecar = [c \in Clusters |-> None]
    /\ xvols = 0
    /\ requests = 0
    /\ hibernations = 0
    /\ faults = 0

(* An API call fails, or the operator restarts. *)
Fault == faults < MaxFaults /\ faults' = faults + 1

(* A new volume, with reclaim policy Delete, for a cluster that starts up. *)
Provision ==
    /\ xvols < MaxXVols
    /\ xvols' = xvols + 1
    /\ xvol' = [xvol EXCEPT ![xvols + 1] = [live |-> TRUE, retainedBy |-> None]]

(* The volumes left once the clusters in cs are deleted: the storage          *)
(* controller destroys the volume of each of them unless it is retained.      *)
Reclaim(cs) ==
    [v \in 1..MaxXVols |->
        IF xvol[v].retainedBy = None /\ \E c \in cs : cluster[c].xvol = v
        THEN [xvol[v] EXCEPT !.live = FALSE]
        ELSE xvol[v]]

(* The clusters left once the clusters in cs are deleted. *)
Without(cs) ==
    [c \in Clusters |->
        IF c \in cs THEN [cluster[c] EXCEPT !.st = "gone", !.owner = None]
                    ELSE cluster[c]]

-----------------------------------------------------------------------------
(* The clusterpool operator *)

(* The pool operator starts a cluster and owns it. *)
PoolRefill(c) ==
    /\ cluster[c].st = "unborn"
    /\ Provision
    /\ cluster' = [cluster EXCEPT
                     ![c] = [st |-> "pool", owner |-> None, xvol |-> xvols + 1]]
    /\ UNCHANGED <<branch, seenBranch, wur, seenWur, queued, wk, br, call,
                   sidecar, requests, hibernations, faults>>

(* The pool operator removes a cluster it still owns (the pool shrinks). *)
PoolShrink(c) ==
    /\ cluster[c].st = "pool"
    /\ cluster' = Without({c})
    /\ xvol' = Reclaim({c})
    /\ UNCHANGED <<branch, seenBranch, wur, seenWur, queued, wk, br, call,
                   sidecar, xvols, requests, hibernations, faults>>

-----------------------------------------------------------------------------
(* The clusters service *)

(* Mutant of Claim: the update does not carry the resourceVersion that was    *)
(* read, so it also takes a cluster that somebody else has claimed since.      *)
ClaimUnversioned(c) ==
    /\ cluster[c].st \in {"pool", "live"}
    /\ cluster' = [cluster EXCEPT ![c].st = "live"]

(* The state of cluster c once somebody has cleared its pool owner reference. *)
(* Both claimers send the resourceVersion they read, so the update succeeds   *)
(* only while the pool still owns the cluster.                                 *)
Claim(c) ==
    /\ cluster[c].st = "pool"
    /\ cluster' = [cluster EXCEPT ![c].st = "live"]

(* CreatePostgresCluster, up to the claim: findPoolCluster, orphanCluster. *)
CreateClaim(k, b, c) ==
    /\ call[k].pc = "idle"
    /\ ~branch[b].exists
    /\ \A j \in Calls : call[j].b # b
    /\ Claim(c)
    /\ call' = [call EXCEPT
                  ![k] = [pc |-> "branch", b |-> b, name |-> c, xvol |-> 0]]
    /\ UNCHANGED <<branch, seenBranch, xvol, wur, seenWur, queued, wk, br,
                   sidecar, xvols, requests, hibernations, faults>>

(* CreatePostgresCluster, from the claim on: the Branch names the cluster. *)
CreateBranch(k) ==
    LET b == call[k].b IN
    /\ call[k].pc = "branch"
    /\ branch' = [branch EXCEPT ![b] = [exists |-> TRUE, name |-> call[k].name,
                                        awaiting |-> FALSE, primary |-> 0]]
    /\ call' = [call EXCEPT ![k] = CallIdle]
    /\ UNCHANGED <<seenBranch, cluster, xvol, wur, seenWur, queued, wk, br,
                   sidecar, xvols, requests, hibernations, faults>>

(* Mutant of HibernateBranch: the name becomes an empty string, not null. *)
HibernateToEmptyName(b) ==
    /\ hibernations < MaxHibernations
    /\ branch[b].exists
    /\ branch' = [branch EXCEPT ![b].name = "", ![b].awaiting = FALSE]
    /\ hibernations' = hibernations + 1
    /\ UNCHANGED <<seenBranch, cluster, xvol, wur, seenWur, queued, wk, br,
                   call, sidecar, xvols, requests, faults>>

(* UpdatePostgresCluster(hibernate = true): read, change and write the Branch *)
(* until no other writer interferes.                                           *)
HibernateBranch(b) ==
    /\ hibernations < MaxHibernations
    /\ branch[b].exists
    /\ branch' = [branch EXCEPT ![b].name = None, ![b].awaiting = FALSE]
    /\ hibernations' = hibernations + 1
    /\ UNCHANGED <<seenBranch, cluster, xvol, wur, seenWur, queued, wk, br,
                   call, sidecar, xvols, requests, faults>>

(* UpdatePostgresCluster(hibernate = false): the Branch is marked as awaiting *)
(* wakeup; its primary volume, as read then, goes into the WakeupRequest.      *)
WakeBranch(k, b) ==
    /\ call[k].pc = "idle"
    /\ branch[b].exists
    /\ requests < MaxRequests
    /\ branch' = [branch EXCEPT ![b].awaiting = TRUE]
    /\ call' = [call EXCEPT ![k] = [pc |-> "get", b |-> b, name |-> None,
                                    xvol |-> branch[b].primary]]
    /\ UNCHANGED <<seenBranch, cluster, xvol, wur, seenWur, queued, wk, br,
                   sidecar, xvols, requests, hibernations, faults>>

(* ensureWakeupRequest: look at the branch's WakeupRequest; leave one that is *)
(* in progress alone, replace one that has succeeded or failed.                *)
EnsureGet(k) ==
    /\ call[k].pc = "get"
    /\ call' = [call EXCEPT ![k] =
                  CASE wur[@.b].st = "absent" -> [@ EXCEPT !.pc = "create"]
                    [] wur[@.b].st \in {"new", "unknown"} -> CallIdle
                    [] OTHER -> [@ EXCEPT !.pc = "delete"]]
    /\ UNCHANGED <<branch, seenBranch, cluster, xvol, wur, seenWur, queued, wk,
                   br, sidecar, xvols, requests, hibernations, faults>>

(* The Delete names the object only: it removes whatever request is there. *)
EnsureDelete(k) ==
    /\ call[k].pc = "delete"
    /\ wur' = [wur EXCEPT ![call[k].b] = NoWur]
    /\ call' = [call EXCEPT ![k].pc = "create"]
    /\ UNCHANGED <<branch, seenBranch, cluster, xvol, seenWur, queued, wk, br,
                   sidecar, xvols, requests, hibernations, faults>>

(* The Create succeeds also when another call created the request first. *)
EnsureCreate(k) ==
    LET b == call[k].b IN
    /\ call[k].pc = "create"
    /\ \/ /\ wur[b].st # "absent"
          /\ UNCHANGED <<wur, requests>>
       \/ /\ wur[b].st = "absent"
          /\ requests < MaxRequests
          /\ requests' = requests + 1
          /\ wur' = [wur EXCEPT ![b] = [st |-> "new", uid |-> requests + 1,
                                        xvol |-> call[k].xvol]]
    /\ call' = [call EXCEPT ![k] = CallIdle]
    /\ UNCHANGED <<branch, seenBranch, cluster, xvol, seenWur, queued, wk, br,
                   sidecar, xvols, hibernations, faults>>

(* A call returns an error at its next API call; a cluster it has claimed is *)
(* not given back.                                                            *)
CallFail(k) ==
    /\ call[k].pc # "idle"
    /\ Fault
    /\ call' = [call EXCEPT ![k] = CallIdle]
    /\ UNCHANGED <<branch, seenBranch, cluster, xvol, wur, seenWur, queued, wk,
                   br, sidecar, xvols, requests, hibernations>>

-----------------------------------------------------------------------------
(* The scale-to-zero sidecar *)

(* The cluster has been idle for long enough and is healthy, and the Branch   *)
(* named by its annotation exists: the sidecar decides to hibernate it.        *)
SidecarDecide(c) ==
    LET b == cluster[c].owner IN
    /\ cluster[c].st = "live"
    /\ b # None
    /\ branch[b].exists
    /\ sidecar[c] = None
    /\ hibernations < MaxHibernations
    /\ hibernations' = hibernations + 1
    /\ sidecar' = [sidecar EXCEPT ![c] = b]
    /\ UNCHANGED <<branch, seenBranch, cluster, xvol, wur, seenWur, queued, wk,
                   br, call, xvols, requests, faults>>

(* The patch clears spec.cluster.name whatever cluster the Branch names. *)
SidecarPatch(c) ==
    /\ sidecar[c] # None
    /\ branch' = [branch EXCEPT ![sidecar[c]].name = None]
    /\ sidecar' = [sidecar EXCEPT ![c] = None]
    /\ UNCHANGED <<seenBranch, cluster, xvol, wur, seenWur, queued, wk, br,
                   call, xvols, requests, hibernations, faults>>

(* The patch fails; the sidecar tries again from scratch at a later tick. *)
SidecarFail(c) ==
    /\ sidecar[c] # None
    /\ Fault
    /\ sidecar' = [sidecar EXCEPT ![c] = None]
    /\ UNCHANGED <<branch, seenBranch, cluster, xvol, wur, seenWur, queued, wk,
                   br, call, xvols, requests, hibernations>>

-----------------------------------------------------------------------------
(* The informer caches of the branch-operator *)

SyncBranch(b) ==
    /\ seenBranch[b] # branch[b]
    /\ seenBranch' = [seenBranch EXCEPT ![b] = branch[b]]
    /\ UNCHANGED <<branch, cluster, xvol, wur, seenWur, queued, wk, br, call,
                   sidecar, xvols, requests, hibernations, faults>>

(* A request that appears is queued (status updates do not pass the           *)
(* GenerationChangedPredicate).                                                *)
SyncWur(b) ==
    /\ seenWur[b] # wur[b]
    /\ seenWur' = [seenWur EXCEPT ![b] = wur[b]]
    /\ queued' = [queued EXCEPT ![b] = @ \/ wur[b].uid # seenWur[b].uid]
    /\ UNCHANGED <<branch, seenBranch, cluster, xvol, wur, wk, br, call,
                   sidecar, xvols, requests, hibernations, faults>>

-----------------------------------------------------------------------------
(* WakeupReconciler.Reconcile *)

(* The request read from the cache is gone or has failed: nothing to do. *)
WkSkip(b) ==
    /\ queued[b]
    /\ wk[b].pc = "idle"
    /\ seenWur[b].st \in {"absent", "false"}
    /\ queued' = [queued EXCEPT ![b] = FALSE]
    /\ UNCHANGED <<branch, seenBranch, cluster, xvol, wur, seenWur, wk, br,
                   call, sidecar, xvols, requests, hibernations, faults>>

(* deleteAfterTTL: the request read from the cache has succeeded and its TTL  *)
(* has passed.  The Delete names the object only.                              *)
WkExpire(b) ==
    /\ queued[b]
    /\ wk[b].pc = "idle"
    /\ seenWur[b].st = "true"
    /\ wur' = [wur EXCEPT ![b] = NoWur]
    /\ queued' = [queued EXCEPT ![b] = FALSE]
    /\ UNCHANGED <<branch, seenBranch, cluster, xvol, seenWur, wk, br, call,
                   sidecar, xvols, requests, hibernations, faults>>

(* Mutant of WkBegin: the InProgress update is sent without a version. *)
WkBeginUnversioned(b) ==
    /\ queued[b]
    /\ wk[b].pc = "idle"
    /\ seenWur[b].st \in {"new", "unknown"}
    /\ wur[b].st # "absent"
    /\ wur' = [wur EXCEPT ![b].st = "unknown"]
    /\ wk' = [wk EXCEPT ![b] = [WkIdle EXCEPT !.pc = "begun",
                                              !.uid = seenWur[b].uid,
                                              !.xvol = seenWur[b].xvol]]
    /\ queued' = [queued EXCEPT ![b] = FALSE]
    /\ UNCHANGED <<branch, seenBranch, cluster, xvol, seenWur, br, call,
                   sidecar, xvols, requests, hibernations, faults>>

(* The status updates up to InProgress.  They are refused, and the key stays  *)
(* queued, while the copy read from the cache is stale.                        *)
WkBegin(b) ==
    /\ queued[b]
    /\ wk[b].pc = "idle"
    /\ seenWur[b].st \in {"new", "unknown"}
    /\ seenWur[b] = wur[b]
    /\ wur' = [wur EXCEPT ![b].st = "unknown"]
    /\ wk' = [wk EXCEPT ![b] = [WkIdle EXCEPT !.pc = "begun",
                                              !.uid = seenWur[b].uid,
                                              !.xvol = seenWur[b].xvol]]
    /\ queued' = [queued EXCEPT ![b] = FALSE]
    /\ UNCHANGED <<branch, seenBranch, cluster, xvol, seenWur, br, call,
                   sidecar, xvols, requests, hibernations, faults>>

(* getBranch, from the cache, and the test for a cluster name. *)
WkGetBranch(b) ==
    /\ wk[b].pc = "begun"
    /\ wk' = [wk EXCEPT ![b].name = seenBranch[b].name,
                        ![b].pc = CASE ~seenBranch[b].exists -> "failing"
                                    [] seenBranch[b].name # None -> "named"
                                    [] OTHER -> "noname"]
    /\ UNCHANGED <<branch, seenBranch, cluster, xvol, wur, seenWur, queued, br,
                   call, sidecar, xvols, requests, hibernations, faults>>

(* validateXVolStatus and takeClusterFromPool. *)
WkTake(b, c) ==
    /\ wk[b].pc = "noname"
    /\ wk[b].xvol # 0
    /\ xvol[wk[b].xvol].live
    /\ Claim(c)
    /\ wk' = [wk EXCEPT ![b].pc = "claimed", ![b].taken = c]
    /\ UNCHANGED <<branch, seenBranch, xvol, wur, seenWur, queued, br, call,
                   sidecar, xvols, requests, hibernations, faults>>

(* The volume is not there, the pool is exhausted, or another claimer was     *)
(* faster.                                                                     *)
WkTakeFails(b) ==
    /\ wk[b].pc = "noname"
    /\ wk' = [wk EXCEPT ![b].pc = "failing"]
    /\ UNCHANGED <<branch, seenBranch, cluster, xvol, wur, seenWur, queued, br,
                   call, sidecar, xvols, requests, hibernations, faults>>

(* The WakeUp RPC swaps the volume under the cluster's PV for the branch's,   *)
(* and the PV is annotated with it.                                            *)
WkWakeUp(b) ==
    /\ wk[b].pc = "claimed"
    /\ cluster' = [cluster EXCEPT ![wk[b].taken].xvol = wk[b].xvol]
    /\ wk' = [wk EXCEPT ![b].pc = "annotated"]
    /\ UNCHANGED <<branch, seenBranch, xvol, wur, seenWur, queued, br, call,
                   sidecar, xvols, requests, hibernations, faults>>

(* assignClusterToBranch: the cluster taken from the pool, or the one that    *)
(* the cached Branch already had.                                              *)
WkAssign(b) ==
    /\ \/ /\ wk[b].pc = "annotated"
          /\ branch' = [branch EXCEPT ![b].name = wk[b].taken,
                                      ![b].awaiting = FALSE]
          /\ wk' = [wk EXCEPT ![b].pc = "assigned"]
       \/ /\ wk[b].pc = "named"
          /\ branch' = [branch EXCEPT ![b].name = wk[b].name,
                                      ![b].awaiting = FALSE]
          /\ wk' = [wk EXCEPT ![b].pc = "reassigned"]
    /\ UNCHANGED <<seenBranch, cluster, xvol, wur, seenWur, queued, br, call,
                   sidecar, xvols, requests, hibernations, faults>>

(* The request this reconcile works on is still the one in the API server. *)
WurCurrent(b) == wur[b].st # "absent" /\ wur[b].uid = wk[b].uid

(* Succeeded is set to True; the key is queued again for after the TTL. *)
WkSucceed(b) ==
    /\ wk[b].pc \in {"assigned", "reassigned"}
    /\ WurCurrent(b)
    /\ wur' = [wur EXCEPT ![b].st = "true"]
    /\ wk' = [wk EXCEPT ![b] = WkIdle]
    /\ queued' = [queued EXCEPT ![b] = TRUE]
    /\ UNCHANGED <<branch, seenBranch, cluster, xvol, seenWur, br, call,
                   sidecar, xvols, requests, hibernations, faults>>

(* The update to True is refused: the request was replaced meanwhile. *)
WkConflict(b) ==
    /\ wk[b].pc \in {"assigned", "reassigned"}
    /\ ~WurCurrent(b)
    /\ wk' = [wk EXCEPT ![b].pc = "failing"]
    /\ UNCHANGED <<branch, seenBranch, cluster, xvol, wur, seenWur, queued, br,
                   call, sidecar, xvols, requests, hibernations, faults>>

(* Any step returns an error.  Missing pool, pool annotation, PV or CSI node  *)
(* pod are terminal errors.                                                    *)
WkFail(b) ==
    /\ wk[b].pc \in {"begun", "noname", "claimed", "annotated", "assigned",
                     "named", "reassigned"}
    /\ Fault
    /\ \E t \in BOOLEAN :
         /\ t => wk[b].pc \in {"noname", "claimed"}
         /\ wk' = [wk EXCEPT ![b].pc = "failing", ![b].terminal = t]
    /\ UNCHANGED <<branch, seenBranch, cluster, xvol, wur, seenWur, queued, br,
                   call, sidecar, xvols, requests, hibernations>>

(* Mutant of WkUnwind: every error is taken for a terminal one when it comes  *)
(* to queueing the key again.                                                  *)
WkUnwindForgetful(b) ==
    LET taken == {wk[b].taken} \ {None} IN
    /\ wk[b].pc = "failing"
    /\ \E deleted, reported \in BOOLEAN :
         /\ faults' = faults + (IF deleted THEN 0 ELSE 1)
                             + (IF reported THEN 0 ELSE 2)
         /\ faults' <= MaxFaults
         /\ deleted \/ taken # {}
         /\ cluster' = IF deleted THEN Without(taken) ELSE cluster
         /\ xvol' = IF deleted THEN Reclaim(taken) ELSE xvol
         /\ wur' = IF reported /\ WurCurrent(b) /\ wk[b].terminal
                   THEN [wur EXCEPT ![b].st = "false"] ELSE wur
    /\ wk' = [wk EXCEPT ![b] = WkIdle]
    /\ UNCHANGED <<branch, seenBranch, seenWur, queued, br, call, sidecar, xvols,
                   requests, hibernations>>

(* The deferred functions after an error: delete the cluster taken from the   *)
(* pool, then write the condition, twice; a failing delete or two failing     *)
(* writes are ignored.  Only a non-terminal error queues the key again.         *)
WkUnwind(b) ==
    LET taken == {wk[b].taken} \ {None} IN
    /\ wk[b].pc = "failing"
    /\ \E deleted, reported \in BOOLEAN :
         /\ faults' = faults + (IF deleted THEN 0 ELSE 1)
                             + (IF reported THEN 0 ELSE 2)
         /\ faults' <= MaxFaults
         /\ deleted \/ taken # {}
         /\ cluster' = IF deleted THEN Without(taken) ELSE cluster
         /\ xvol' = IF deleted THEN Reclaim(taken) ELSE xvol
         /\ wur' = IF reported /\ WurCurrent(b) /\ wk[b].terminal
                   THEN [wur EXCEPT ![b].st = "false"] ELSE wur
    /\ queued' = [queued EXCEPT ![b] = @ \/ ~wk[b].terminal]
    /\ wk' = [wk EXCEPT ![b] = WkIdle]
    /\ UNCHANGED <<branch, seenBranch, seenWur, br, call, sidecar, xvols,
                   requests, hibernations>>

-----------------------------------------------------------------------------
(* BranchReconciler.Reconcile *)

BrStart(b) ==
    /\ br[b].pc = "idle"
    /\ seenBranch[b].exists
    /\ br' = [br EXCEPT ![b] = [pc |-> "cluster", name |-> seenBranch[b].name,
                                primary |-> seenBranch[b].primary]]
    /\ UNCHANGED <<branch, seenBranch, cluster, xvol, wur, seenWur, queued, wk,
                   call, sidecar, xvols, requests, hibernations, faults>>

(* reconcileCluster: server-side apply makes the branch the owner of the      *)
(* cluster it names, and creates the cluster when there is none.               *)
BrCluster(b) ==
    LET n == br[b].name IN
    /\ br[b].pc = "cluster"
    /\ \/ /\ n = None
          /\ UNCHANGED <<cluster, xvol, xvols>>
       \/ /\ n # None
          /\ cluster[n].st # "gone"
          /\ cluster' = [cluster EXCEPT ![n].owner = b]
          /\ UNCHANGED <<xvol, xvols>>
       \/ /\ n # None
          /\ cluster[n].st = "gone"
          /\ Provision
          /\ cluster' = [cluster EXCEPT
                           ![n] = [st |-> "live", owner |-> b, xvol |-> xvols + 1]]
    /\ br' = [br EXCEPT ![b].pc = "status"]
    /\ UNCHANGED <<branch, seenBranch, wur, seenWur, queued, wk, call, sidecar,
                   requests, hibernations, faults>>

(* Mutant of BrStatus: the clusters are deleted before their volumes are       *)
(* retained.                                                                   *)
BrStatusDeleteFirst(b) ==
    LET n == br[b].name
        v == cluster[n].xvol IN
    /\ br[b].pc = "status"
    /\ \/ /\ n = None
          /\ br' = [br EXCEPT ![b].pc = "owned"]
       \/ /\ n # None
          /\ cluster[n].st = "live" /\ xvol[v].live
          /\ br' = [br EXCEPT ![b].pc = "owned", ![b].primary = v]
       \/ /\ n # None
          /\ ~(cluster[n].st = "live" /\ xvol[v].live)
          /\ br' = [br EXCEPT ![b].pc = "apply"]
    /\ UNCHANGED <<branch, seenBranch, cluster, xvol, wur, seenWur, queued, wk,
                   call, sidecar, xvols, requests, hibernations, faults>>

(* updateXVolStatus: record the cluster's volume, when it can be found. *)
BrStatus(b) ==
    LET n == br[b].name
        v == cluster[n].xvol IN
    /\ br[b].pc = "status"
    /\ \/ /\ n = None
          /\ br' = [br EXCEPT ![b].pc = "retain"]
       \/ /\ n # None
          /\ cluster[n].st = "live" /\ xvol[v].live
          /\ br' = [br EXCEPT ![b].pc = "retain", ![b].primary = v]
       \/ /\ n # None
          /\ ~(cluster[n].st = "live" /\ xvol[v].live)
          /\ br' = [br EXCEPT ![b].pc = "apply"]
    /\ UNCHANGED <<branch, seenBranch, cluster, xvol, wur, seenWur, queued, wk,
                   call, sidecar, xvols, requests, hibernations, faults>>

Owned(b) == {c \in Clusters : cluster[c].st = "live" /\ cluster[c].owner = b}

(* reconcileXVolOwnership: while the branch names no cluster, the volumes of  *)
(* the clusters it owns are retained for it.                                   *)
BrRetain(b) ==
    LET vs == {cluster[c].xvol : c \in Owned(b)} IN
    /\ br[b].pc = "retain"
    /\ \/ /\ br[b].name # None
          /\ br' = [br EXCEPT ![b].pc = "owned"]
          /\ UNCHANGED xvol
       \/ /\ br[b].name = None
          /\ \A v \in vs : xvol[v].live
          /\ br' = [br EXCEPT ![b].pc = "owned"]
          /\ xvol' = [v \in 1..MaxXVols |->
                        IF v \in vs THEN [xvol[v] EXCEPT !.retainedBy = b]
                                    ELSE xvol[v]]
       \/ /\ br[b].name = None
          /\ \E v \in vs : ~xvol[v].live
          /\ br' = [br EXCEPT ![b].pc = "apply"]
          /\ UNCHANGED xvol
    /\ UNCHANGED <<branch, seenBranch, cluster, wur, seenWur, queued, wk, call,
                   sidecar, xvols, requests, hibernations, faults>>

(* reconcileOwnedClusters: delete the owned clusters the branch does not name. *)
BrOwned(b) ==
    LET cs == Owned(b) \ {br[b].name} IN
    /\ br[b].pc = "owned"
    /\ cluster' = Without(cs)
    /\ xvol' = Reclaim(cs)
    /\ br' = [br EXCEPT ![b].pc = "apply"]
    /\ UNCHANGED <<branch, seenBranch, wur, seenWur, queued, wk, call, sidecar,
                   xvols, requests, hibernations, faults>>

(* A step fails: the steps after it, except the deferred applyStatus, are     *)
(* left to the next reconcile.                                                 *)
BrFail(b) ==
    /\ br[b].pc # "idle"
    /\ Fault
    /\ br' = [br EXCEPT ![b] = IF @.pc = "apply" THEN BrIdle
                               ELSE [@ EXCEPT !.pc = "apply"]]
    /\ UNCHANGED <<branch, seenBranch, cluster, xvol, wur, seenWur, queued, wk,
                   call, sidecar, xvols, requests, hibernations>>

(* The deferred applyStatus writes the status this reconcile started from,    *)
(* as it changed it.                                                           *)
BrApply(b) ==
    /\ br[b].pc = "apply"
    /\ branch' = [branch EXCEPT ![b].primary = br[b].primary]
    /\ br' = [br EXCEPT ![b] = BrIdle]
    /\ UNCHANGED <<seenBranch, cluster, xvol, wur, seenWur, queued, wk, call,
                   sidecar, xvols, requests, hibernations, faults>>

-----------------------------------------------------------------------------
(* The branch-operator stops anywhere and starts again: what the reconciles   *)
(* held is lost, the caches are filled anew and every request is queued.       *)
OperatorRestart ==
    /\ Fault
    /\ wk' = [b \in Branches |-> WkIdle]
    /\ br' = [b \in Branches |-> BrIdle]
    /\ seenBranch' = branch
    /\ seenWur' = wur
    /\ queued' = [b \in Branches |-> wur[b].st # "absent"]
    /\ UNCHANGED <<branch, cluster, xvol, wur, call, sidecar, xvols, requests,
                   hibernations>>

Next ==
    \/ \E c \in Clusters : \/ PoolRefill(c) \/ PoolShrink(c)
                           \/ SidecarDecide(c) \/ SidecarPatch(c)
                           \/ SidecarFail(c)
    \/ \E k \in Calls : \/ \E b \in Branches : \/ WakeBranch(k, b)
                                               \/ \E c \in Clusters : CreateClaim(k, b, c)
                        \/ CreateBranch(k) \/ EnsureGet(k) \/ EnsureDelete(k)
                        \/ EnsureCreate(k) \/ CallFail(k)
    \/ \E b \in Branches : \/ HibernateBranch(b) \/ SyncBranch(b) \/ SyncWur(b)
                           \/ WkSkip(b) \/ WkExpire(b) \/ WkBegin(b)
                           \/ WkGetBranch(b) \/ WkTakeFails(b) \/ WkWakeUp(b)
                           \/ WkAssign(b) \/ WkSucceed(b) \/ WkConflict(b)
                           \/ WkFail(b) \/ WkUnwind(b)
                           \/ \E c \in Clusters : WkTake(b, c)
    \/ \E b \in Branches : \/ BrStart(b) \/ BrCluster(b) \/ BrStatus(b)
                           \/ BrRetain(b) \/ BrOwned(b) \/ BrFail(b)
                           \/ BrApply(b)
    \/ OperatorRestart

Spec == Init /\ [][Next]_vars

(* A queued request is reconciled, and a reconcile runs to its end. *)
WkStep(b) ==
    \/ WkSkip(b) \/ WkBegin(b) \/ WkGetBranch(b) \/ WkTakeFails(b)
    \/ WkWakeUp(b) \/ WkAssign(b) \/ WkSucceed(b) \/ WkConflict(b)
    \/ WkUnwind(b)

(* A claim loses against another claimer at most finitely often, and the pool *)
(* operator keeps filling the pool.                                            *)
FairSpec ==
    /\ Spec
    /\ \A b \in Branches : /\ WF_vars(SyncBranch(b)) /\ WF_vars(SyncWur(b))
                            /\ WF_vars(WkStep(b))
                            /\ SF_vars(\E c \in Clusters : WkTake(b, c))
    /\ \A c \in Clusters : WF_vars(PoolRefill(c))

-----------------------------------------------------------------------------
(* The clusters that branch b has a claim on: through its Branch object, the  *)
(* copies of it that the operator works from, a cluster taken or claimed for  *)
(* it, and controller ownership.                                               *)
Holds(b) == ({branch[b].name, seenBranch[b].name, br[b].name,
              wk[b].name, wk[b].taken}
             \cup {call[k].name : k \in {j \in Calls : call[j].b = b}}
             \cup {c \in Clusters : cluster[c].owner = b}) \ {None}

(* Whatever the interleaving of creates, wakeups, hibernations, stale reads   *)
(* and restarts, no two branches ever end up with a claim on the same pool    *)
(* cluster, and the pool operator never owns a cluster that a branch has a    *)
(* claim on.  (takeClusterFromPool and orphanCluster rely on resourceVersion   *)
(* conflicts for this.)                                                        *)
ClaimedOnce ==
    /\ \A a, b \in Branches : a # b => Holds(a) \cap Holds(b) = {}
    /\ \A b \in Branches : \A c \in Holds(b) : cluster[c].st \in {"live", "gone"}

(* As long as a reconcile holds a cluster it took for a request, that request *)
(* has neither succeeded nor failed: the InProgress update refuses a stale     *)
(* copy of a request that is already settled.                                  *)
TakenForOpenRequest ==
    \A b \in Branches :
        wk[b].taken # None /\ WurCurrent(b) => wur[b].st = "unknown"

(* A WakeupRequest that has succeeded or failed keeps that outcome until it is *)
(* deleted.                                                                    *)
OutcomeIsFinal ==
    [][\A b \in Branches :
         wur[b].st \in {"true", "false"} /\ wur'[b].uid = wur[b].uid
            => wur'[b].st = wur[b].st]_vars

(* When the Branch reconciler, working for a branch without a cluster name,   *)
(* reaches the deletion of the branch's clusters, the volume of each of them   *)
(* is retained for the branch, so that it can be woken up later.               *)
RetainedBeforeDelete ==
    \A b \in Branches :
        br[b].pc = "owned" /\ br[b].name = None =>
            \A c \in Owned(b) : /\ xvol[cluster[c].xvol].live
                                /\ xvol[cluster[c].xvol].retainedBy = b

(* A volume that is retained for a branch is never destroyed, by whatever     *)
(* cluster of that branch it was last used.                                    *)
RetainedStaysLive ==
    \A v \in 1..MaxXVols : xvol[v].retainedBy # None => xvol[v].live

Open(b) == wur[b].st \in {"new", "unknown"}

(* A clusters service caller that finds a request in progress relies on it:   *)
(* every WakeupRequest whose volume exists is eventually settled or replaced,  *)
(* unless its volume is destroyed or the pool runs dry for good.  After a      *)
(* terminal error this takes one successful write of the condition: without    *)
(* it nothing queues the request again.                                        *)
OpenRequestIsServed ==
    \A b \in Branches : \A v \in 1..MaxXVols :
        (Open(b) /\ wur[b].xvol = v /\ xvol[v].live) ~>
            \/ ~Open(b)
            \/ ~xvol[v].live
            \/ /\ wk[b].taken = None
               /\ \A c \in Clusters : cluster[c].st \notin {"unborn", "pool"}

(* The Branch reconciler never deletes an unretained volume of its branch     *)
(* while it works for a branch with a cluster name (the comment on the early   *)
(* return of reconcileXVolOwnership).                                          *)
NamedBranchNeedsNoRetention ==
    \A b \in Branches :
        br[b].pc = "owned" /\ br[b].name # None =>
            \A c \in Owned(b) \ {br[b].name} : xvol[cluster[c].xvol].retainedBy = b

=============================================================================
