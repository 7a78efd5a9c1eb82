---------------------------- MODULE ClusterStatus ----------------------------
(***************************************************************************)
(* How the clusters service describes a cluster, and what the gateway reads  *)
(* from the description when a dial has failed.                               *)
(*                                                                           *)
(* A CNPG Cluster is a record of its hibernation annotation and the parts of  *)
(* its status that are used: phase ("" when it is not set), the number of     *)
(* instances and of ready ones, the status of every instance that has a pod,  *)
(* the instance names, and the current and target primary.                    *)
(***************************************************************************)
EXTENDS Naturals

CONSTANT NoInstance     \* no primary

StartingFromZeroPhases == {"waiting_for_instances", "first_primary", "creating_replica"}

(* switchover stands for the phases in which a running cluster is disrupted. *)
TransientClusterStates == StartingFromZeroPhases \cup {"switchover"}

PodStatus == {"healthy", "replicating", "failed"}

-----------------------------------------------------------------------------
(* The clusters service *)

PhaseType(phase) ==
    CASE phase = "" -> "transient"
      [] phase = "healthy" -> "healthy"
      [] phase \in TransientClusterStates -> "transient"
      [] OTHER -> "fault"

(* The instances in a description: those with a pod, or all names when none   *)
(* has one, and in either case the primaries.                                  *)
InstancesOf(cluster) ==
    LET withPod == DOMAIN cluster.instancesStatus
    IN  (IF withPod = {} THEN cluster.instanceNames ELSE withPod)
            \cup ({cluster.currentPrimary, cluster.targetPrimary} \ {NoInstance})

InstanceStatusOf(cluster, i) ==
    [status  |-> IF i \in DOMAIN cluster.instancesStatus
                 THEN cluster.instancesStatus[i] ELSE "unknown",
     primary |-> i = cluster.currentPrimary]

InstancesReconciled(count, ready, instances) ==
    /\ ready >= count
    /\ \A i \in DOMAIN instances : instances[i].status # "unknown"

BuildClusterStatus(cluster) ==
    LET instances == [i \in InstancesOf(cluster) |-> InstanceStatusOf(cluster, i)]
        type == IF cluster.hibernation THEN "hibernated" ELSE PhaseType(cluster.phase)
    IN  [phase         |-> IF cluster.phase = "" THEN "unknown" ELSE cluster.phase,
         type          |-> IF type = "healthy" /\ ~InstancesReconciled(cluster.instances,
                                                         cluster.ready, instances)
                           THEN "transient" ELSE type,
         instanceCount |-> cluster.instances,
         readyCount    |-> cluster.ready,
         instances     |-> instances]

(* The status of a branch without a Cluster. *)
DefaultStatus(awaitingWakeup) ==
    [phase         |-> "healthy",
     type          |-> IF awaitingWakeup THEN "transient" ELSE "hibernated",
     instanceCount |-> 0,
     readyCount    |-> 0,
     instances     |-> <<>>]

-----------------------------------------------------------------------------
(* The gateway *)

IsClusterAvailable(status) ==
    \/ \E i \in DOMAIN status.instances :
           status.instances[i].primary /\ status.instances[i].status = "healthy"
    \/ status.type = "healthy" /\ status.instanceCount = status.readyCount

NoInstanceHasPod(status) ==
    /\ DOMAIN status.instances # {}
    /\ \A i \in DOMAIN status.instances : status.instances[i].status \notin PodStatus

(* Mutant of IsStartingFromZero: pods are not looked at. *)
StartsFromZeroByPhase(status) ==
    \/ status.instanceCount = 0
    \/ status.phase \in StartingFromZeroPhases

IsStartingFromZero(status) ==
    \/ status.instanceCount = 0
    \/ status.phase \in StartingFromZeroPhases
    \/ NoInstanceHasPod(status)

(* Mutant of Decision: a hibernated cluster is expected to wake by itself. *)
DecisionNeverWakes(status, endpoint, numInstances, scaleToZero) ==
    CASE endpoint = "ro" /\ numInstances = 1 -> "noReadReplica"
      [] OTHER -> "hold"

(* What Dial does with the description: wake the cluster, hold the connection *)
(* until the cluster is reachable, or return an error.                         *)
Decision(status, endpoint, numInstances, scaleToZero) ==
    CASE endpoint = "ro" /\ numInstances = 1 -> "noReadReplica"
      [] status.type = "hibernated" /\ scaleToZero -> "reactivate"
      [] status.type = "hibernated" -> "hibernated"
      [] /\ status.type \in {"healthy", "transient"}
         /\ IsClusterAvailable(status) \/ IsStartingFromZero(status) -> "hold"
      [] OTHER -> "dialErr"
=============================================================================
