---------------------------- MODULE BranchResources ----------------------------
(* The Branch reconciler and the objects it keeps for one Branch               *)
(* (services/branch-operator/pkg/reconciler): backup store, snapshot or clone  *)
(* of the parent, secrets, cluster, services, pooler, schedule, policies and    *)
(* the backup identity.  A reconcile works through its steps on a copy of the  *)
(* Branch from the informer cache, while the clusters service, wakeups and the  *)
(* sidecar edit the Branch, CNPG brings clusters up and the parent comes and    *)
(* goes.  Volumes and their retention are in BranchLifecycle.                   *)
EXTENDS Naturals, Sequences

CONSTANTS
    ClusterNames,      \* names the Branch may be given
    FirstName,         \* the one it gets when it is created: names are interchangeable
    NoName,            \* the Branch has no cluster
    Plans,             \* what a Branch may be created with, see Plan
    MaxEvents          \* bound on edits, changes of the parent and failures together

Named == ClusterNames \cup {NoName}

(* The immutable part of a Branch: where its data comes from, how it is backed *)
(* up, whether its repository and that of its source are encrypted, and        *)
(* whether its clusters come from a pool and so change their name.             *)
Plan == [restore : {"none", "snapshot", "clone", "store"},
         backup : {"off", "barman", "pgbackrest"},
         encrypted : BOOLEAN, sealed : BOOLEAN, pooled : BOOLEAN]

ASSUME PlansAssumption ==
    /\ FirstName \in ClusterNames /\ NoName \notin ClusterNames
    /\ Plans \subseteq Plan
    /\ \A p \in Plans : /\ p.encrypted => p.backup = "pgbackrest"
                        /\ p.sealed => p.restore = "store"
                        /\ p.restore = "clone" => p.pooled
                        /\ p.pooled => p.restore \in {"none", "clone"}

VARIABLES
    branch,     \* the Branch in the API server, with its status
    known,      \* the copy of it in the informer cache
    cluster,    \* the CNPG clusters
    listed,     \* the copy of them in the informer cache
    have,       \* the other objects of the Branch
    rec,        \* the reconcile in progress: its step and its copy of the Branch
    due,        \* the Branch is in the work queue
    repo,       \* the passphrase the backups were written with, 0 before there are any
    phrases,    \* passphrases generated so far
    parent,     \* the Branch to restore from
    moves,      \* changes of the parent
    edits,      \* edits of the Branch
    stepFaults  \* failures

resVars == <<branch, known, cluster, listed, have, rec, due, repo, phrases,
             parent, moves, edits, stepFaults>>

NoPlan == [restore |-> "none", backup |-> "off", encrypted |-> FALSE,
           sealed |-> FALSE, pooled |-> FALSE]

NoBranch == [there |-> FALSE, gen |-> 0, name |-> NoName, paused |-> FALSE,
             pooler |-> FALSE, hibernated |-> FALSE, plan |-> NoPlan,
             ready |-> "none", observed |-> 0, recorded |-> FALSE]

(* The outcome of resources.ClusterSpec and clusterAnnotations: what a cluster  *)
(* is bootstrapped from, how it archives, and whether CNPG hibernates it.       *)
ClusterSpec(b) ==
    [bootstrap |-> CASE b.plan.restore = "snapshot" -> "snapshot"
                     [] b.plan.restore = "store" -> "store"
                     [] b.plan.restore = "clone" -> "noop"
                     [] OTHER -> "initdb",
     archiver |-> b.plan.backup,
     encrypted |-> b.plan.encrypted,
     hibernated |-> b.hibernated]

NoSpec == [bootstrap |-> "noop", archiver |-> "off", encrypted |-> FALSE,
           hibernated |-> FALSE]

(* A cluster: absent, being bootstrapped, or healthy; whether the Branch owns  *)
(* it, and whether its status reports backups.                                  *)
NoCluster == [st |-> "absent", owned |-> FALSE, spec |-> NoSpec, archived |-> FALSE]
Warm == [NoCluster EXCEPT !.st = "healthy"]

NoCipher == [own |-> 0, source |-> FALSE]

Nothing == [store |-> FALSE, snapshot |-> FALSE, clone |-> FALSE,
            passwords |-> FALSE, cipher |-> NoCipher,
            services |-> NoName, poolersvc |-> NoName,
            pooler |-> [c \in ClusterNames |-> "absent"],
            schedule |-> "absent", scheduled |-> NoName,
            policy |-> NoName, role |-> FALSE, binding |-> NoName,
            account |-> FALSE, token |-> {}]

Parents == {"absent", "bare", "down", "up", "asleep"}

Steps == <<"store", "snapshot", "clone", "passwords", "cipher", "cluster",
           "backup", "owned", "services", "poolersvc", "pooler", "schedule",
           "policy", "rbac1", "rbac2", "identity">>

Idle == [pc |-> 0, b |-> NoBranch]

ResInit ==
    /\ branch = NoBranch /\ known = NoBranch
    /\ cluster = [c \in ClusterNames |-> NoCluster]
    /\ listed = [c \in ClusterNames |-> NoCluster]
    /\ have = Nothing
    /\ rec = Idle
    /\ due = FALSE
    /\ repo = 0 /\ phrases = 0
    /\ parent = "up"
    /\ moves = 0 /\ edits = 0 /\ stepFaults = 0

Budget == moves + edits + stepFaults < MaxEvents

-----------------------------------------------------------------------------
(* The environment of the reconciler. *)

(* The clusters service creates the Branch: a pool cluster that exists, or the *)
(* name of a cluster that the reconciler is to create.  A clone starts without *)
(* a cluster, until a wakeup gives it one.                                      *)
CreateBranch(p) ==
    LET c == FirstName IN
    /\ ~branch.there
    /\ branch' = [NoBranch EXCEPT !.there = TRUE, !.gen = 1, !.plan = p,
                                  !.name = IF p.restore = "clone" THEN NoName ELSE c]
    /\ cluster' = IF p.pooled /\ p.restore # "clone"
                  THEN [cluster EXCEPT ![c] = Warm] ELSE cluster
    /\ UNCHANGED <<known, listed, have, rec, due, repo, phrases, parent, moves,
                   edits, stepFaults>>

(* A change of the specification, which counts as a new generation. *)
Edited(b) ==
    /\ branch.there
    /\ Budget
    /\ edits' = edits + 1
    /\ branch' = b
    /\ UNCHANGED <<known, listed, have, rec, due, repo, phrases, parent, moves,
                   stepFaults>>

TogglePooler ==
    /\ Edited([branch EXCEPT !.pooler = ~@, !.gen = @ + 1])
    /\ UNCHANGED cluster

(* Hibernation: a pool branch gives up its cluster, another one keeps it and    *)
(* has CNPG stop its instances.                                                 *)
Hibernate ==
    /\ \/ /\ branch.plan.pooled /\ branch.name # NoName
          /\ Edited([branch EXCEPT !.name = NoName, !.gen = @ + 1])
       \/ /\ ~branch.plan.pooled /\ ~branch.hibernated
          /\ Edited([branch EXCEPT !.hibernated = TRUE, !.gen = @ + 1])
    /\ UNCHANGED cluster

(* A wakeup takes a cluster of the pool for a pool branch; a clone is woken     *)
(* once its volume is there.                                                    *)
Wake ==
    \/ /\ branch.plan.pooled /\ branch.name = NoName
       /\ branch.plan.restore = "clone" => have.clone
       /\ \E c \in ClusterNames :
            /\ cluster[c].st = "absent"
            /\ Edited([branch EXCEPT !.name = c, !.gen = @ + 1])
            /\ cluster' = [cluster EXCEPT ![c] = Warm]
    \/ /\ ~branch.plan.pooled /\ branch.hibernated
       /\ Edited([branch EXCEPT !.hibernated = FALSE, !.gen = @ + 1])
       /\ UNCHANGED cluster

(* The annotation that pauses reconciliation does not change the generation. *)
TogglePause ==
    /\ Edited([branch EXCEPT !.paused = ~@])
    /\ UNCHANGED cluster

(* The parent comes up, fails, hibernates or is deleted. *)
MoveParent ==
    /\ branch.plan.restore # "none"
    /\ parent # "absent" /\ Budget
    /\ moves' = moves + 1
    /\ parent' \in Parents \ {parent, "bare"}
    /\ UNCHANGED <<branch, known, cluster, listed, have, rec, due, repo, phrases,
                   edits, stepFaults>>

(* CNPG: a cluster that has been bootstrapped is healthy. *)
ClusterUp(c) ==
    /\ cluster[c].st = "new"
    /\ cluster' = [cluster EXCEPT ![c].st = "healthy"]
    /\ UNCHANGED <<branch, known, listed, have, rec, due, repo, phrases, parent,
                   moves, edits, stepFaults>>

(* CNPG: a cluster that runs archives to the repository of its branch, with the *)
(* passphrase in the Secret when the repository is encrypted.                    *)
Archive(c) ==
    /\ cluster[c].st = "healthy" /\ cluster[c].owned
    /\ cluster[c].spec.archiver = "pgbackrest" /\ ~cluster[c].spec.hibernated
    /\ ~cluster[c].archived
    /\ cluster[c].spec.encrypted => have.cipher.own # 0
    /\ cluster' = [cluster EXCEPT ![c].archived = TRUE]
    /\ repo' = IF repo = 0 THEN have.cipher.own ELSE repo
    /\ UNCHANGED <<branch, known, listed, have, rec, due, phrases, parent, moves,
                   edits, stepFaults>>

(* The cipher Secret is deleted by hand, when the cache of the operator shows   *)
(* the backups that were made with it.                                           *)
LoseCipher ==
    /\ have.cipher # NoCipher
    /\ branch.recorded /\ known.recorded /\ rec.pc = 0
    /\ Budget
    /\ stepFaults' = stepFaults + 1
    /\ have' = [have EXCEPT !.cipher = NoCipher]
    /\ due' = TRUE
    /\ UNCHANGED <<branch, known, cluster, listed, rec, repo, phrases, parent,
                   moves, edits>>

-----------------------------------------------------------------------------
(* The informer caches.  SetupWithManager queues the Branch when a new copy     *)
(* differs in its generation or annotations, and, of the clusters it owns, in   *)
(* phase, backup status, generation or annotations.                             *)
(* Mutant of GenerationOrAnnotationChanged: annotations are not compared. *)
GenerationChanged(old, new) ==
    \/ old.there # new.there
    \/ old.gen # new.gen

GenerationOrAnnotationChanged(old, new) ==
    \/ old.there # new.there
    \/ old.gen # new.gen
    \/ old.paused # new.paused

(* Mutant of ClusterPhaseOrGenerationOrAnnotationChanged: the backup fields of  *)
(* the status are not compared.                                                 *)
ClusterPhaseOrGenerationChanged(old, new) ==
    \/ old.st # new.st
    \/ old.spec # new.spec

ClusterPhaseOrGenerationOrAnnotationChanged(old, new) ==
    \/ old.st # new.st
    \/ old.archived # new.archived
    \/ old.spec # new.spec

SyncBranch ==
    /\ known # branch
    /\ known' = branch
    /\ due' = (due \/ GenerationOrAnnotationChanged(known, branch))
    /\ UNCHANGED <<branch, cluster, listed, have, rec, repo, phrases, parent,
                   moves, edits, stepFaults>>

SyncClusters ==
    /\ listed # cluster
    /\ listed' = cluster
    /\ due' = (due \/ \E c \in ClusterNames :
                  /\ listed[c].owned \/ cluster[c].owned
                  /\ ClusterPhaseOrGenerationOrAnnotationChanged(listed[c], cluster[c]))
    /\ UNCHANGED <<branch, known, cluster, have, rec, repo, phrases, parent,
                   moves, edits, stepFaults>>

(* The operator restarts: the reconcile is lost, and every Branch is queued. *)
RestartOperator ==
    /\ Budget
    /\ stepFaults' = stepFaults + 1
    /\ rec' = Idle
    /\ known' = branch /\ listed' = cluster
    /\ due' = branch.there
    /\ UNCHANGED <<branch, cluster, have, repo, phrases, parent, moves, edits>>

-----------------------------------------------------------------------------
(* Reconcile. *)

At(s) == rec.pc \in 1..Len(Steps) /\ Steps[rec.pc] = s

Last == Len(Steps) + 1

(* The next step; after the last one the Ready condition is set to True. *)
Proceed ==
    rec' = [pc |-> rec.pc + 1,
            b |-> IF rec.pc = Len(Steps) THEN [rec.b EXCEPT !.ready = "true"] ELSE rec.b]

(* An error ends the steps; the deferred function reports it. *)
Abort == rec' = [pc |-> Last, b |-> [rec.b EXCEPT !.ready = "false"]]

StepFault == Budget /\ stepFaults' = stepFaults + 1

(* A write was made; its answer may be lost. *)
Written ==
    \/ Proceed /\ UNCHANGED stepFaults
    \/ Abort /\ StepFault

StartPaused ==
    /\ rec.pc = 0 /\ due
    /\ known.there /\ known.paused
    /\ due' = FALSE
    /\ branch' = [branch EXCEPT !.ready = "unknown", !.observed = known.observed,
                                !.recorded = known.recorded]
    /\ UNCHANGED <<known, cluster, listed, have, rec, repo, phrases, parent, moves,
                   edits, stepFaults>>

Start ==
    /\ rec.pc = 0 /\ due
    /\ known.there /\ ~known.paused
    /\ due' = FALSE
    /\ rec' = [pc |-> 1, b |-> [known EXCEPT !.observed = known.gen]]
    /\ UNCHANGED <<branch, known, cluster, listed, have, repo, phrases, parent,
                   moves, edits, stepFaults>>

(* Any request of a step fails without effect. *)
FailStep ==
    /\ rec.pc \in 1..Len(Steps)
    /\ StepFault
    /\ Abort
    /\ UNCHANGED <<branch, known, cluster, listed, have, due, repo, phrases, parent,
                   moves, edits>>

(* A step that only concerns `have'. *)
OtherVars == <<branch, known, listed, due, repo, parent, moves, edits>>

Put(object, value) ==
    /\ have' = [have EXCEPT ![object] = value]
    /\ Written
    /\ UNCHANGED <<cluster, phrases, OtherVars>>

Skip ==
    /\ Proceed
    /\ UNCHANGED <<cluster, have, phrases, stepFaults, OtherVars>>

Refuse ==
    /\ Abort
    /\ UNCHANGED <<cluster, have, phrases, stepFaults, OtherVars>>

(* The ObjectStore exists for backups with barman only. *)
ReconcileObjectStore ==
    /\ At("store")
    /\ Put("store", rec.b.plan.backup = "barman")

(* A snapshot of the parent exists from before the cluster is created until it *)
(* is healthy.  It cannot be taken of a parent without a healthy cluster.       *)
ReconcileVolumeSnapshot ==
    /\ At("snapshot")
    /\ IF rec.b.plan.restore = "snapshot" /\ rec.b.name # NoName
       THEN \/ /\ listed[rec.b.name].st = "absent" /\ parent = "up"
               /\ Put("snapshot", TRUE)
            \/ /\ listed[rec.b.name].st = "absent" /\ parent # "up"
               /\ Refuse
            \/ /\ listed[rec.b.name].st = "healthy"
               /\ Put("snapshot", FALSE)
            \/ /\ listed[rec.b.name].st = "new"
               /\ Skip
       ELSE Skip

(* The clone of the volume that the status of the parent names, made once. *)
ReconcileXVolClone ==
    /\ At("clone")
    /\ IF rec.b.plan.restore = "clone" /\ ~have.clone
       THEN IF parent \in {"up", "down", "asleep"} THEN Put("clone", TRUE) ELSE Refuse
       ELSE Skip

(* The Secrets of the superuser and of the application user. *)
ReconcileSecret == At("passwords") /\ Put("passwords", TRUE)

(* Mutant of ReconcilePgBackRestCipher: a passphrase is generated when the      *)
(* Secret is missing, whatever the repository holds.                            *)
RegeneratePgBackRestCipher ==
    LET p == rec.b.plan IN
    /\ At("cipher")
    /\ \/ /\ (~p.encrypted /\ ~p.sealed) \/ have.cipher # NoCipher
          /\ Skip
       \/ /\ p.encrypted \/ p.sealed
          /\ have.cipher = NoCipher
          /\ IF p.sealed /\ parent = "absent"
             THEN Refuse
             ELSE /\ phrases' = IF p.encrypted THEN phrases + 1 ELSE phrases
                  /\ have' = [have EXCEPT !.cipher =
                                [own |-> IF p.encrypted THEN phrases + 1 ELSE 0,
                                 source |-> p.sealed]]
                  /\ Written
                  /\ UNCHANGED <<cluster, OtherVars>>

(* The cipher Secret gets its data when it is created and keeps it: a generated *)
(* passphrase, refused when backups exist, and a copy of that of the source.    *)
ReconcilePgBackRestCipher ==
    LET p == rec.b.plan IN
    /\ At("cipher")
    /\ \/ /\ (~p.encrypted /\ ~p.sealed) \/ have.cipher # NoCipher
          /\ Skip
       \/ /\ p.encrypted \/ p.sealed
          /\ have.cipher = NoCipher
          /\ IF (p.encrypted /\ rec.b.recorded) \/ (p.sealed /\ parent = "absent")
             THEN Refuse
             ELSE /\ phrases' = IF p.encrypted THEN phrases + 1 ELSE phrases
                  /\ have' = [have EXCEPT !.cipher =
                                [own |-> IF p.encrypted THEN phrases + 1 ELSE 0,
                                 source |-> p.sealed]]
                  /\ Written
                  /\ UNCHANGED <<cluster, OtherVars>>

(* Server-side apply of the cluster: it is created, or adopted and configured. *)
ReconcileCluster ==
    LET c == rec.b.name IN
    /\ At("cluster")
    /\ IF c = NoName THEN Skip
       ELSE /\ cluster' = [cluster EXCEPT
                  ![c].st = IF @ = "absent" THEN "new" ELSE @,
                  ![c].owned = TRUE,
                  ![c].spec = ClusterSpec(rec.b)]
            /\ Written
            /\ UNCHANGED <<have, phrases, OtherVars>>

(* The backup status of the cluster is copied; without one it is kept. *)
UpdateBackupStatus ==
    LET c == rec.b.name IN
    /\ At("backup")
    /\ rec' = [pc |-> rec.pc + 1,
               b |-> [rec.b EXCEPT !.recorded = @ \/ (c # NoName /\ listed[c].archived)]]
    /\ UNCHANGED <<cluster, have, phrases, stepFaults, OtherVars>>

(* The clusters in the cache that the Branch owns and does not name are deleted, *)
(* and with them their poolers and tokens.  One that is already gone is an error. *)
ReconcileOwnedClusters ==
    LET cs == {c \in ClusterNames : listed[c].owned /\ listed[c].st # "absent"} \ {rec.b.name}
        gone == {c \in cs : cluster[c].st = "absent"} IN
    /\ At("owned")
    /\ cluster' = [c \in ClusterNames |-> IF c \in cs THEN NoCluster ELSE cluster[c]]
    /\ have' = [have EXCEPT !.token = @ \ cs,
                            !.pooler = [c \in ClusterNames |->
                                          IF c \in cs THEN "absent" ELSE @[c]]]
    /\ IF gone = {} THEN Written ELSE Abort /\ UNCHANGED stepFaults
    /\ UNCHANGED <<phrases, OtherVars>>

(* The services rw, r and ro of the Branch select the instances of its cluster. *)
ReconcileAdditionalService == At("services") /\ Put("services", rec.b.name)

(* The service of the pooler is kept when there is no pooler. *)
ReconcileAdditionalServicePooler ==
    /\ At("poolersvc")
    /\ IF rec.b.pooler /\ rec.b.name # NoName
       THEN Put("poolersvc", rec.b.name)
       ELSE Skip

(* A pooler belongs to the cluster and goes with it; it has no instances while  *)
(* the branch hibernates.                                                       *)
ReconcilePooler ==
    LET c == rec.b.name IN
    /\ At("pooler")
    /\ IF c = NoName THEN Skip
       ELSE IF rec.b.pooler /\ listed[c].st = "absent" THEN Refuse
       ELSE Put("pooler", [have.pooler EXCEPT
                  ![c] = CASE ~rec.b.pooler \/ cluster[c].st = "absent" -> "absent"
                           [] rec.b.hibernated -> "stopped"
                           [] OTHER -> "running"])

(* Scheduled backups of the current cluster, suspended while it does not run. *)
Schedule(b) ==
    CASE b.plan.backup = "off" -> "absent"
      [] b.name = NoName \/ b.hibernated -> "suspended"
      [] OTHER -> "active"

ReconcileScheduledBackup ==
    /\ At("schedule")
    /\ have' = [have EXCEPT !.schedule = Schedule(rec.b),
                            !.scheduled = IF rec.b.plan.backup = "off" THEN NoName
                                          ELSE rec.b.name]
    /\ Written
    /\ UNCHANGED <<cluster, phrases, OtherVars>>

ReconcileNetworkPolicy == At("policy") /\ Put("policy", rec.b.name)

(* The role, then the binding of the ServiceAccount of the cluster to it; they  *)
(* are deleted in the opposite order.                                           *)
ReconcileScaleToZeroRBAC ==
    \/ At("rbac1") /\ IF rec.b.name # NoName THEN Put("role", TRUE)
                                             ELSE Put("binding", NoName)
    \/ At("rbac2") /\ IF rec.b.name # NoName THEN Put("binding", rec.b.name)
                                             ELSE Put("role", FALSE)

(* The ServiceAccount of the Branch and a token for it in a Secret that the      *)
(* cluster owns, and goes with it: the cluster has to be in the cache.           *)
ReconcilePgBackRestIdentity ==
    LET c == rec.b.name IN
    /\ At("identity")
    /\ IF rec.b.plan.backup # "pgbackrest" THEN Skip
       ELSE IF c = NoName THEN Put("account", TRUE)
       ELSE IF listed[c].st = "absent"
            THEN /\ have' = [have EXCEPT !.account = TRUE]
                 /\ Abort
                 /\ UNCHANGED <<cluster, phrases, stepFaults, OtherVars>>
       ELSE /\ have' = [have EXCEPT !.account = TRUE,
                                    !.token = IF cluster[c].st = "absent" THEN @
                                              ELSE @ \cup {c}]
            /\ Written
            /\ UNCHANGED <<cluster, phrases, OtherVars>>

(* Mutant of ApplyStatus: the generation of the Branch is read when the status  *)
(* is written.                                                                  *)
ApplyStatusLate ==
    /\ rec.pc = Last
    /\ \/ /\ branch' = [branch EXCEPT !.ready = rec.b.ready, !.observed = branch.gen,
                                      !.recorded = rec.b.recorded]
          /\ UNCHANGED stepFaults
       \/ UNCHANGED branch /\ StepFault
    /\ due' = (due \/ rec.b.ready = "false")
    /\ rec' = Idle
    /\ UNCHANGED <<known, cluster, listed, have, repo, phrases, parent, moves, edits>>

(* The deferred function: the status is written as the copy has it, and a field *)
(* the copy lacks is removed.  That this fails is only logged; the error of a   *)
(* step queues the Branch again.                                                *)
ApplyStatus ==
    /\ rec.pc = Last
    /\ \/ /\ branch' = [branch EXCEPT !.ready = rec.b.ready, !.observed = rec.b.observed,
                                      !.recorded = rec.b.recorded]
          /\ UNCHANGED stepFaults
       \/ UNCHANGED branch /\ StepFault
    /\ due' = (due \/ rec.b.ready = "false")
    /\ rec' = Idle
    /\ UNCHANGED <<known, cluster, listed, have, repo, phrases, parent, moves, edits>>

ReconcileStep ==
    \/ ReconcileObjectStore
    \/ ReconcileVolumeSnapshot
    \/ ReconcileXVolClone
    \/ ReconcileSecret
    \/ ReconcilePgBackRestCipher
    \/ ReconcileCluster
    \/ UpdateBackupStatus
    \/ ReconcileOwnedClusters
    \/ ReconcileAdditionalService
    \/ ReconcileAdditionalServicePooler
    \/ ReconcilePooler
    \/ ReconcileScheduledBackup
    \/ ReconcileNetworkPolicy
    \/ ReconcileScaleToZeroRBAC
    \/ ReconcilePgBackRestIdentity
    \/ ApplyStatus

ResNext ==
    \/ \E p \in Plans : CreateBranch(p)
    \/ TogglePooler \/ Hibernate \/ Wake \/ TogglePause
    \/ MoveParent
    \/ \E c \in ClusterNames : ClusterUp(c) \/ Archive(c)
    \/ LoseCipher
    \/ SyncBranch \/ SyncClusters \/ RestartOperator
    \/ StartPaused \/ Start \/ FailStep
    \/ ReconcileStep

ResSpec == ResInit /\ [][ResNext]_resVars

(* Informers deliver, a queued Branch is reconciled, a reconcile goes on, and  *)
(* CNPG brings its clusters up.                                                 *)
ResFairness ==
    /\ WF_resVars(SyncBranch) /\ WF_resVars(SyncClusters)
    /\ WF_resVars(Start) /\ WF_resVars(StartPaused) /\ WF_resVars(ReconcileStep)
    /\ \A c \in ClusterNames : WF_resVars(ClusterUp(c))

-----------------------------------------------------------------------------
(* Properties. *)

(* The objects of a Branch as its specification wants them. *)
Converged(b) ==
    /\ have.store = (b.plan.backup = "barman")
    /\ have.passwords
    /\ b.plan.restore = "clone" => have.clone
    /\ \A s \in {"services", "policy", "binding"} : have[s] = b.name
    /\ have.role = (b.name # NoName)
    /\ have.schedule = Schedule(b)
    /\ b.plan.backup # "off" => have.scheduled = b.name
    /\ b.plan.backup = "pgbackrest" => have.account
    /\ b.name # NoName =>
          LET c == b.name IN
          /\ cluster[c].st # "absent" /\ cluster[c].owned
          /\ cluster[c].spec = ClusterSpec(b)
          /\ b.pooler => have.poolersvc = c
          /\ have.pooler[c] = CASE ~b.pooler -> "absent"
                                [] b.hibernated -> "stopped"
                                [] OTHER -> "running"
          /\ b.plan.backup = "pgbackrest" => c \in have.token

(* A Branch that is Ready for its present generation has every object as its   *)
(* specification says, whatever was edited, failed or was read late meanwhile.  *)
(* Clusters that are still to be deleted are not part of this: the list of them *)
(* comes from a cache.                                                          *)
ReadyMeansConverged ==
    branch.ready = "true" /\ branch.observed = branch.gen => Converged(branch)

(* What an object relies on is there, whichever step failed or was repeated.    *)
(* Backups stay readable: the cipher Secret holds the passphrase that they were *)
(* written with, or nothing (reconcilePgBackRestCipher keeps the data of the    *)
(* Secret, and refuses to replace one that was lost).  A cluster that is being  *)
(* bootstrapped finds the snapshot, or the passphrase of the repository of its  *)
(* source.  "no binding is left referring to a missing role"                    *)
(* (deleteScaleToZeroRBAC).                                                     *)
ReliedOnIsThere ==
    /\ repo # 0 => have.cipher.own \in {0, repo}
    /\ \A c \in ClusterNames : cluster[c].st = "new" =>
          /\ cluster[c].spec.bootstrap = "snapshot" => have.snapshot
          /\ branch.plan.sealed => have.cipher.source \/ branch.recorded
    /\ have.binding # NoName => have.role

(* What keeps a Branch from being reconciled, each reported as a condition. *)
Blocked ==
    \/ /\ branch.plan.restore = "snapshot" /\ branch.name # NoName
       /\ cluster[branch.name].st = "absent" /\ parent # "up"
    \/ /\ branch.plan.restore = "clone" /\ ~have.clone
       /\ parent \in {"absent", "bare"}
    \/ /\ branch.plan.sealed /\ have.cipher = NoCipher
       /\ parent = "absent"
    \/ /\ branch.plan.encrypted /\ have.cipher = NoCipher
       /\ branch.recorded

(* After the last edit and failure the objects follow the specification, and    *)
(* clusters the Branch no longer names are deleted: events, errors and restarts *)
(* queue the Branch whenever that is needed.                                    *)
ResourcesConverge ==
    <>[](branch.there => \/ branch.paused \/ Blocked
                         \/ /\ Converged(branch)
                            /\ \A c \in ClusterNames \ {branch.name} : ~cluster[c].owned)

(* If no request fails, backups that the cluster of the Branch reports are      *)
(* recorded in the status of the Branch, where the wakeup and the cipher look.  *)
BackupDataIsNoticed ==
    \/ <>(stepFaults > 0)
    \/ <>[](branch.there /\ branch.name # NoName /\ cluster[branch.name].archived
             => branch.paused \/ Blocked \/ branch.recorded)

=============================================================================
