---------------------------- MODULE ClusterDialer ----------------------------
(***************************************************************************)
(* The gateway's ClusterDialer: client connections dial a branch that may be  *)
(* hibernated, wake it, and wait for it, sharing one status poll through the  *)
(* Coalescer.                                                                 *)
(*                                                                           *)
(* One branch with one instance.  Around the dialer are the parts it watches: *)
(* the Branch (spec.cluster.name, hibernation, the awaiting-wakeup            *)
(* annotation and its WakeupRequest), the CNPG Cluster and the Service that   *)
(* is dialled, which follows the instance with a delay.  Pool branches are    *)
(* hibernated by dropping their cluster and woken with another one.            *)
(***************************************************************************)
EXTENDS Coalescer, ClusterStatus

CONSTANTS
    Targets,          \* the Services that clients dial, of "rw" and "ro"
    ScaleToZero,      \* the scale-to-zero settings of the branch
    NoCluster,        \* no Cluster object
    Primary,          \* the name of the instance
    MaxHibernations,  \* bound on hibernations
    MaxCrashes        \* bound on crashes of the instance

ASSUME DialerAssumption ==
    /\ MaxHibernations \in Nat /\ MaxCrashes \in Nat
    /\ Primary # NoInstance /\ Targets \subseteq {"rw", "ro"}
    /\ ScaleToZero \subseteq BOOLEAN

VARIABLES
    branch,         \* the Branch object
    cluster,        \* the Cluster object, or NoCluster
    up,             \* the dialled Service has an endpoint
    dial,           \* every Dial call, apart from its part inside Do
    faulty,         \* calls, dials and wakeups may fail and timeouts pass
    hibernations,   \* hibernations so far
    crashes         \* crashes so far

dialerVars == <<branch, cluster, up, dial, faulty, hibernations, crashes>>
vars == <<coalescerVars, dialerVars>>

(* pool: the branch has the wakeup-pool annotation.  name: it names a cluster. *)
BranchObject == [exists : BOOLEAN, pool : BOOLEAN, scaleToZero : BOOLEAN,
                 name : BOOLEAN, hibernation : BOOLEAN, awaiting : BOOLEAN,
                 request : {"none", "open", "failed"}]

DialPC == {"idle", "describe", "update", "do", "wait", "redial", "pause", "done"}
Outcome == {"none", "connected", "dialErr", "notFound", "noReadReplica", "hibernated"}
DialState == [pc : DialPC, endpoint : Targets, outcome : Outcome]

(* The status of the instance, by its name, once it has a pod. *)
NoPods == [i \in {} |-> "healthy"]
PodWith(s) == [i \in {Primary} |-> s]

NewCluster == [hibernation |-> FALSE, phase |-> "", instances |-> 0, ready |-> 0,
               instancesStatus |-> NoPods, instanceNames |-> {},
               currentPrimary |-> NoInstance, targetPrimary |-> NoInstance]

RunningCluster == [hibernation |-> FALSE, phase |-> "healthy", instances |-> 1,
                   ready |-> 1, instancesStatus |-> PodWith("healthy"),
                   instanceNames |-> {Primary}, currentPrimary |-> Primary,
                   targetPrimary |-> Primary]

WithoutPod(c) == [c EXCEPT !.instancesStatus = NoPods, !.ready = 0]
WithPod(c, s) == [c EXCEPT !.instancesStatus = PodWith(s),
                           !.ready = IF s = "healthy" THEN 1 ELSE 0]

ClusterObject ==
    [hibernation : BOOLEAN, phase : {"", "healthy", "first_primary", "waiting_for_instances"},
     instances : {0, 1}, ready : {0, 1},
     instancesStatus : {NoPods} \cup {PodWith(s) : s \in PodStatus},
     instanceNames : {{}, {Primary}}, currentPrimary : {NoInstance, Primary},
     targetPrimary : {NoInstance, Primary}]

TypeOK ==
    /\ CoalescerTypeOK
    /\ branch \in BranchObject
    /\ cluster \in ClusterObject \cup {NoCluster}
    /\ up \in BOOLEAN
    /\ dial \in [Callers -> DialState]
    /\ faulty \in BOOLEAN
    /\ hibernations \in 0..MaxHibernations
    /\ crashes \in 0..MaxCrashes

(* The branch has just been created, is running, or is hibernated. *)
Init ==
    /\ CoalescerInit
    /\ branch \in {[exists |-> TRUE, pool |-> p, scaleToZero |-> z,
                    name |-> ~(p /\ h), hibernation |-> h /\ ~p,
                    awaiting |-> FALSE, request |-> "none"] :
                      p \in BOOLEAN, z \in ScaleToZero, h \in BOOLEAN}
    /\ \/ /\ branch.name /\ ~branch.hibernation
          /\ \/ ~branch.pool /\ cluster = NoCluster /\ up = FALSE
             \/ cluster = RunningCluster /\ up = TRUE
       \/ /\ ~branch.name \/ branch.hibernation
          /\ cluster = IF branch.pool THEN NoCluster
                       ELSE [WithoutPod(RunningCluster) EXCEPT !.hibernation = TRUE]
          /\ up = FALSE
    /\ faulty \in BOOLEAN
    /\ dial \in [Callers -> [pc : {"idle"}, endpoint : Targets, outcome : {"none"}]]
    /\ hibernations = 0
    /\ crashes = 0

-----------------------------------------------------------------------------
(* The branch and its cluster *)

(* UpdatePostgresCluster(hibernate = true), or the scale-to-zero sidecar. *)
Hibernate ==
    /\ branch.exists
    /\ IF branch.pool THEN branch.name \/ branch.awaiting ELSE ~branch.hibernation
    /\ hibernations < MaxHibernations
    /\ hibernations' = hibernations + 1
    /\ branch' = IF branch.pool THEN [branch EXCEPT !.name = FALSE, !.awaiting = FALSE]
                 ELSE [branch EXCEPT !.hibernation = TRUE]
    /\ cluster' = IF branch.pool THEN NoCluster ELSE cluster
    /\ UNCHANGED <<coalescerVars, up, dial, faulty, crashes>>

(* DeletePostgresCluster. *)
DeleteBranch ==
    /\ faulty /\ branch.exists
    /\ branch' = [branch EXCEPT !.exists = FALSE]
    /\ cluster' = NoCluster
    /\ UNCHANGED <<coalescerVars, up, dial, faulty, hibernations, crashes>>

(* The branch operator creates the Cluster, and copies the hibernation mode   *)
(* of the Branch to the annotation of the Cluster.                             *)
Reconcile ==
    /\ branch.exists /\ branch.name
    /\ \/ cluster = NoCluster /\ cluster' = NewCluster
       \/ /\ cluster # NoCluster
          /\ cluster.hibernation # branch.hibernation
          /\ cluster' = [cluster EXCEPT !.hibernation = branch.hibernation]
    /\ UNCHANGED <<coalescerVars, branch, up, dial, faulty, hibernations, crashes>>

(* The WakeupRequest ends with a cluster of the pool, or fails. *)
PoolWake ==
    /\ branch.exists /\ branch.request = "open"
    /\ \/ /\ branch' = [branch EXCEPT !.name = TRUE, !.awaiting = FALSE,
                                      !.request = "none"]
          /\ cluster' = IF branch.name THEN cluster ELSE RunningCluster
       \/ /\ faulty
          /\ branch' = [branch EXCEPT !.request = "failed"]
          /\ UNCHANGED cluster
    /\ UNCHANGED <<coalescerVars, up, dial, faulty, hibernations, crashes>>

(* CNPG: the volume is bound, the pod is created, becomes healthy, and is     *)
(* deleted on hibernation.  The phase stays healthy from the hibernation to    *)
(* the creation of the next pod.                                               *)
Cnpg ==
    /\ cluster # NoCluster
    /\ \/ /\ ~cluster.hibernation /\ cluster.instances = 0
          /\ cluster' = [cluster EXCEPT !.phase = "first_primary", !.instances = 1,
                                        !.instanceNames = {Primary},
                                        !.targetPrimary = Primary]
       \/ /\ ~cluster.hibernation /\ cluster.instances = 1
          /\ DOMAIN cluster.instancesStatus = {}
          /\ cluster' = [WithPod(cluster, "replicating")
                            EXCEPT !.phase = "waiting_for_instances"]
       \/ /\ ~cluster.hibernation
          /\ DOMAIN cluster.instancesStatus # {} /\ cluster.ready = 0
          /\ cluster' = [WithPod(cluster, "healthy")
                            EXCEPT !.phase = "healthy", !.currentPrimary = Primary]
       \/ /\ cluster.hibernation
          /\ DOMAIN cluster.instancesStatus # {}
          /\ cluster' = [WithoutPod(cluster) EXCEPT !.phase = "healthy"]
    /\ UNCHANGED <<coalescerVars, branch, up, dial, faulty, hibernations, crashes>>

(* The primary crashes and is in recovery; the phase lags behind. *)
Crash ==
    /\ crashes < MaxCrashes
    /\ cluster # NoCluster /\ cluster.ready = 1
    /\ cluster' = WithPod(cluster, "failed")
    /\ crashes' = crashes + 1
    /\ UNCHANGED <<coalescerVars, branch, up, dial, faulty, hibernations>>

(* The endpoints of the Service follow the instance. *)
Endpoints ==
    /\ up' = (cluster # NoCluster /\ cluster.ready = 1)
    /\ up' # up
    /\ UNCHANGED <<coalescerVars, branch, cluster, dial, faulty, hibernations, crashes>>

-----------------------------------------------------------------------------
(* Dial *)

(* DescribePostgresCluster, for a branch that exists. *)
Describe ==
    IF branch.name /\ cluster # NoCluster
    THEN BuildClusterStatus(cluster)
    ELSE DefaultStatus(branch.awaiting)

(* The ro Service of a branch with one instance never has an endpoint. *)
Reachable(c) == up /\ dial[c].endpoint = "rw"

Goto(c, pc) == dial' = [dial EXCEPT ![c].pc = pc]
Return(c, outcome) == dial' = [dial EXCEPT ![c].pc = "done", ![c].outcome = outcome]

(* The first dial: refused or not found leads to a lookup, other errors end. *)
Dial(c) ==
    /\ dial[c].pc = "idle"
    /\ \/ Reachable(c) /\ Return(c, "connected")
       \/ ~Reachable(c) /\ Goto(c, "describe")
       \/ faulty /\ Return(c, "dialErr")
    /\ UNCHANGED <<coalescerVars, branch, cluster, up, faulty, hibernations, crashes>>

DescribeCluster(c) ==
    /\ dial[c].pc = "describe"
    /\ \/ ~branch.exists /\ Return(c, "notFound")
       \/ faulty /\ Return(c, "dialErr")
       \/ /\ branch.exists
          /\ LET d == Decision(Describe, dial[c].endpoint, 1, branch.scaleToZero)
             IN  CASE d = "reactivate" -> Goto(c, "update")
                   [] d = "hold" -> Goto(c, "do")
                   [] OTHER -> Return(c, d)
    /\ UNCHANGED <<coalescerVars, branch, cluster, up, faulty, hibernations, crashes>>

(* reactivateCluster: UpdatePostgresCluster(hibernate = false).  For a pool    *)
(* branch it also ensures that there is an open WakeupRequest; that can fail   *)
(* after the Branch was updated.                                               *)
Update(c) ==
    /\ dial[c].pc = "update"
    /\ \/ /\ branch.exists
          /\ branch' = IF branch.pool THEN [branch EXCEPT !.awaiting = TRUE, !.request = "open"]
                       ELSE [branch EXCEPT !.hibernation = FALSE]
          /\ Goto(c, "do")
       \/ /\ faulty
          /\ branch' \in {branch} \cup
                 (IF branch.pool /\ branch.exists THEN {[branch EXCEPT !.awaiting = TRUE]} ELSE {})
          /\ Return(c, "dialErr")
       \/ /\ ~branch.exists
          /\ Return(c, "dialErr")
          /\ UNCHANGED branch
    /\ UNCHANGED <<coalescerVars, cluster, up, faulty, hibernations, crashes>>

(* waitUntilReachable: join or start the shared status poll. *)
WaitStart(c) ==
    /\ dial[c].pc = "do"
    /\ \E k \in Keys : Do(c, k)
    /\ Goto(c, "wait")
    /\ UNCHANGED <<branch, cluster, up, faulty, hibernations, crashes>>

(* The client gives up, or the reactivate timeout passes. *)
WaitTimeout(c) ==
    /\ faulty
    /\ GiveUp(c)
    /\ UNCHANGED dialerVars

(* Mutant of WaitReturns: a caller whose context has ended does not count      *)
(* itself out of the flight.                                                    *)
WaitReturnsUncounted(c) ==
    /\ \/ Receive(c)
       \/ /\ call[c].pc = "leaving"
          /\ call' = [call EXCEPT ![c].pc = "returned"]
          /\ UNCHANGED <<flights, flight>>
    /\ IF call'[c].result = "value" THEN Goto(c, "redial") ELSE Return(c, "dialErr")
    /\ UNCHANGED <<branch, cluster, up, faulty, hibernations, crashes>>

(* Do returns the result of the poll, or leaves it. *)
WaitReturns(c) ==
    /\ \/ Receive(c)
       \/ Leave(c)
    /\ IF call'[c].result = "value" THEN Goto(c, "redial") ELSE Return(c, "dialErr")
    /\ UNCHANGED <<branch, cluster, up, faulty, hibernations, crashes>>

(* The cluster is available; dial until the target is reachable. *)
Redial(c) ==
    /\ dial[c].pc = "redial"
    /\ \/ Reachable(c) /\ Return(c, "connected")
       \/ ~Reachable(c) /\ Goto(c, "pause")
       \/ faulty /\ Return(c, "dialErr")
    /\ UNCHANGED <<coalescerVars, branch, cluster, up, faulty, hibernations, crashes>>

(* Mutant of Pause: only the ticker is waited for. *)
PauseTickOnly(c, timeout) ==
    /\ dial[c].pc = "pause"
    /\ Goto(c, "redial")
    /\ UNCHANGED <<coalescerVars, branch, cluster, up, faulty, hibernations, crashes>>

(* Between two dials: the next tick, or the end of the wait context. *)
Pause(c, timeout) ==
    /\ dial[c].pc = "pause"
    /\ timeout => faulty
    /\ IF timeout THEN Return(c, "dialErr") ELSE Goto(c, "redial")
    /\ UNCHANGED <<coalescerVars, branch, cluster, up, faulty, hibernations, crashes>>

(* waitUntilAvailable, run by the flight f: on a tick the cluster is described *)
(* again; the poll ends when it is available, when the call fails, which it     *)
(* does once the branch is gone, or when cancelled.                             *)
Poll(f, fails) ==
    /\ fails => faulty
    /\ \/ fails /\ FnReturns(f, "error")
       \/ ~fails /\ flight[f].cancelled /\ FnReturns(f, "canceled")
       \/ ~fails /\ ~branch.exists /\ FnReturns(f, "error")
       \/ /\ ~fails /\ branch.exists /\ IsClusterAvailable(Describe)
          /\ FnReturns(f, "value")
    /\ UNCHANGED dialerVars

PollEnds(f) ==
    /\ Unregister(f) \/ Close(f)
    /\ UNCHANGED dialerVars

DialStep(c) ==
    \/ Dial(c) \/ DescribeCluster(c) \/ Update(c) \/ WaitStart(c) \/ WaitReturns(c)
    \/ Redial(c) \/ Pause(c, FALSE)

ClusterStep == Reconcile \/ PoolWake \/ Cnpg \/ Endpoints

(* What happens while no instance crashes. *)
CalmNext ==
    \/ \E c \in Callers :
           DialStep(c) \/ WaitTimeout(c) \/ Pause(c, TRUE) \/ PollEnds(c)
           \/ \E fails \in BOOLEAN : Poll(c, fails)
    \/ ClusterStep \/ Hibernate \/ DeleteBranch

Next == CalmNext \/ Crash

Spec == Init /\ [][Next]_vars

(* Goroutines run.  The timeout passes: both selects it takes part in keep    *)
(* being reached, or are waited in, until they take it.                        *)
DialFairness(c) ==
    /\ WF_vars(DialStep(c))
    /\ WF_vars(WaitTimeout(c))
    /\ SF_vars(Pause(c, TRUE))
    /\ WF_vars(Poll(c, FALSE))
    /\ WF_vars(PollEnds(c))

(* Unless something may fail, the controllers make progress, too. *)
FairSpec ==
    /\ Init /\ [][CalmNext]_vars
    /\ \A c \in Callers : DialFairness(c)
    /\ WF_vars(~faulty /\ Reconcile) /\ WF_vars(~faulty /\ PoolWake)
    /\ WF_vars(~faulty /\ Cnpg) /\ WF_vars(~faulty /\ Endpoints)

-----------------------------------------------------------------------------
(* The decision of a dial on the rw endpoint in the present state. *)
DecisionNow == Decision(Describe, "rw", 1, branch.scaleToZero)

(* A branch that is being created or woken, or whose endpoint lags behind, is *)
(* recognised in every window of that: unless the instance has crashed, a      *)
(* failed dial is never answered with the dial error.  And a connection is not *)
(* held for a primary that has crashed.                                        *)
OnlyCrashesAreRefused ==
    /\ branch.exists /\ crashes = 0 => DecisionNow # "dialErr"
    /\ (/\ branch.exists /\ cluster # NoCluster
        /\ ~cluster.hibernation
        /\ cluster.phase = "healthy"
        /\ cluster.instancesStatus = PodWith("failed"))
       => DecisionNow = "dialErr"

(* Where timeouts pass, every Dial returns: nobody is held for longer than    *)
(* the reactivate timeout, however the controllers fail or lag.                *)
EveryDialReturns ==
    \A c \in Callers : (faulty /\ dial[c].pc # "idle") ~> dial[c].pc = "done"

(* If nothing fails and it is not hibernated again, a dial connects to a       *)
(* scale-to-zero branch in whatever state it finds it, although only one of    *)
(* the callers sees it hibernated.                                             *)
EveryDialConnects ==
    \A c \in Callers :
        (/\ dial[c].pc # "idle" /\ dial[c].endpoint = "rw"
         /\ branch.scaleToZero /\ ~faulty) ~>
            \/ dial[c].outcome = "connected"
            \/ hibernations > 0
=============================================================================
