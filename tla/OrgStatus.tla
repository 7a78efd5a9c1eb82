------------------------------ MODULE OrgStatus ------------------------------
(***************************************************************************)
(* How the enabled/disabled status of an organization reaches its branches   *)
(* (services/projects/orgstatus and the organization_statuses table).        *)
(*                                                                           *)
(* A status change is an upsert of the organization's row.  A worker in every *)
(* replica of the service claims the row under a lease, walks the branches of *)
(* the organization, brings each into line, and marks the row.  One           *)
(* organization is modelled: rows of different organizations share nothing.   *)
(*                                                                           *)
(* Times are relative to the clock: row.lease and row.retry are how far in    *)
(* the future lease_until and next_retry_at are.  Tick moves them all.  They   *)
(* stop at -ClaimDelay, from where on no claim can tell the difference; a NULL *)
(* lease_until is a lease that ended long ago.                                *)
(***************************************************************************)
EXTENDS Integers, FiniteSets

CONSTANTS
    Workers,                \* one per replica
    Branches,               \* the branches of the organization
    ScaleToZero,            \* those with an inactivity period configured
    Plain,                  \* those that do not use a wakeup pool
    NoBranch,
    Lease, SyncTimeout, MaxBackoff,    \* Config
    BookkeepingTimeout,
    ClaimDelay,             \* longest time from reading the clock to the claim
    MaxWrites,              \* bound on status writes
    MaxFaults               \* bound on failed calls, timeouts, crashes, shutdowns

ASSUME BranchAssumption ==
    /\ ScaleToZero \subseteq Branches
    /\ Plain \subseteq Branches
    /\ NoBranch \notin Branches

(* withDefaults raises the lease to the sync timeout. *)
ASSUME ConfigAssumption ==
    /\ Lease \in Nat /\ SyncTimeout \in Nat /\ MaxBackoff \in Nat
    /\ BookkeepingTimeout \in Nat /\ ClaimDelay \in Nat
    /\ Lease >= SyncTimeout

ASSUME BoundAssumption == MaxWrites \in Nat /\ MaxFaults \in Nat

(* The powers of two that Backoff uses; the provers do not know exponentiation. *)
ASSUME PowerAssumption == \A k \in 0..20 : 2 ^ k \in Nat

VARIABLES
    row,        \* the organization's row of organization_statuses
    branch,     \* the configuration of every branch, and of its cluster
    worker,     \* the workers
    writes,     \* number of status writes so far
    faults      \* number of faults so far

vars == <<row, branch, worker, writes, faults>>

Longest == -ClaimDelay

Later(a, b) == IF a >= b THEN a ELSE b

Sooner(a, b) == IF a <= b THEN a ELSE b

Idle(awake) ==
    [step |-> "idle", awake |-> awake, age |-> 0, version |-> 0, disabled |-> FALSE,
     attempts |-> 0, todo |-> {}, at |-> NoBranch, sawHibernated |-> FALSE,
     sawEnabled |-> FALSE, failed |-> FALSE, stopping |-> FALSE, left |-> 0]

NoRow == [state |-> "none", disabled |-> FALSE, version |-> 0, synced |-> FALSE,
          attempts |-> 0, retry |-> Longest, lease |-> Longest]

Row == [state : {"none", "present", "deleted"}, disabled : BOOLEAN, version : Nat,
        synced : BOOLEAN, attempts : Nat, retry : Longest..MaxBackoff, lease : Longest..Lease]

Branch == [hibernate : BOOLEAN, clusterHibernated : BOOLEAN, s2zEnabled : BOOLEAN]

Worker == [step : {"idle", "claiming", "syncing", "marking"}, awake : BOOLEAN,
           age : 0..ClaimDelay, version : Nat, disabled : BOOLEAN, attempts : Nat,
           todo : SUBSET Branches, at : Branches \cup {NoBranch},
           sawHibernated : BOOLEAN, sawEnabled : BOOLEAN, failed : BOOLEAN,
           stopping : BOOLEAN, left : Nat]

(* The row, the branches and the workers have the shape the code gives them. *)
TypeOK ==
    /\ row \in Row
    /\ branch \in [Branches -> Branch]
    /\ worker \in [Workers -> Worker]
    /\ writes \in Nat /\ faults \in Nat

(* No status was ever written, and the users left their branches running or    *)
(* hibernated, with scale to zero on or off where it is configured.             *)
Init ==
    /\ row = NoRow
    /\ branch \in [Branches -> Branch]
    /\ \A b \in Branches :
           /\ branch[b].clusterHibernated = branch[b].hibernate
           /\ branch[b].s2zEnabled => b \in ScaleToZero
    /\ worker = [w \in Workers |-> Idle(TRUE)]
    /\ writes = 0 /\ faults = 0

-----------------------------------------------------------------------------
(* Writing the desired status *)

(* Mutant of Upserted: a change leaves the version alone. *)
UpsertedSameVersion(disabled) ==
    IF row.state = "none"
    THEN [NoRow EXCEPT !.state = "present", !.disabled = disabled, !.version = 1, !.retry = 0]
    ELSE [row EXCEPT !.disabled = disabled, !.synced = FALSE, !.attempts = 0, !.retry = 0]

Upserted(disabled) ==
    IF row.state = "none"
    THEN [NoRow EXCEPT !.state = "present", !.disabled = disabled, !.version = 1, !.retry = 0]
    ELSE [row EXCEPT !.disabled = disabled,
                     !.version = IF row.disabled # disabled THEN @ + 1 ELSE @,
                     !.synced = FALSE, !.attempts = 0, !.retry = 0]

(* The service writes the row and nudges the worker of its own replica.  The    *)
(* deletion of the organization is the last that projects hears of it.           *)
UpdateOrganizationStatus(disabled) ==
    /\ row.state # "deleted"
    /\ writes < MaxWrites
    /\ writes' = writes + 1
    /\ row' = Upserted(disabled)
    /\ \E w \in Workers : worker' = [worker EXCEPT ![w].awake = TRUE]
    /\ UNCHANGED <<branch, faults>>

(* DeleteProjectsInOrg found nothing left to delete. *)
DeleteOrganizationStatus ==
    /\ row.state = "present"
    /\ row' = [NoRow EXCEPT !.state = "deleted"]
    /\ UNCHANGED <<branch, worker, writes, faults>>

-----------------------------------------------------------------------------
(* The worker *)

Fault == faults < MaxFaults /\ faults' = faults + 1

(* A pass starts when the ticker or a nudge wakes the worker; the clock is      *)
(* read for the claim.                                                           *)
StartPass(w) ==
    /\ worker[w].step = "idle" /\ worker[w].awake
    /\ worker' = [worker EXCEPT ![w] = [Idle(FALSE) EXCEPT !.step = "claiming"]]
    /\ UNCHANGED <<row, branch, writes, faults>>

(* Mutant of Claimable: the lease is not looked at. *)
ClaimableWhileLeased(age) ==
    row.state = "present" /\ ~row.synced /\ row.retry <= -age

(* What the claim statement selects, for a clock read age ago. *)
Claimable(age) ==
    row.state = "present" /\ ~row.synced /\ row.retry <= -age /\ row.lease <= -age

Claimed(age) == [row EXCEPT !.attempts = @ + 1, !.lease = Lease - age]

ClaimOrganizationStatusForSync(w) ==
    /\ worker[w].step = "claiming"
    /\ Claimable(worker[w].age)
    /\ row' = Claimed(worker[w].age)
    /\ \/ /\ worker' = [worker EXCEPT ![w] =
                           [Idle(worker[w].awake) EXCEPT
                               !.step = "syncing", !.version = row.version,
                               !.disabled = row.disabled, !.attempts = row.attempts + 1,
                               !.todo = Branches, !.left = SyncTimeout]]
          /\ UNCHANGED faults
       \/ /\ Fault       \* claimed, but the answer is lost
          /\ worker' = [worker EXCEPT ![w] = Idle(worker[w].awake)]
    /\ UNCHANGED <<branch, writes>>

(* Nothing is due, or the claim fails. *)
EndPass(w) ==
    /\ worker[w].step = "claiming"
    /\ \/ ~Claimable(worker[w].age) /\ UNCHANGED faults
       \/ Fault
    /\ worker' = [worker EXCEPT ![w] = Idle(worker[w].awake)]
    /\ UNCHANGED <<row, branch, writes>>

(* What DescribePostgresCluster says of a branch.  A branch that uses a wakeup  *)
(* pool is hibernated when it has no cluster name, which is in the branch; any   *)
(* other when its cluster is annotated, which follows the branch later.           *)
DescribedHibernated(b) ==
    IF b \in Plain THEN branch[b].clusterHibernated ELSE branch[b].hibernate

(* The next branch is described, or the description fails and the branch is      *)
(* skipped.                                                                      *)
DescribeBranch(w) ==
    /\ worker[w].step = "syncing" /\ worker[w].at = NoBranch
    /\ \E b \in worker[w].todo :
           \/ /\ worker' = [worker EXCEPT
                     ![w].todo = @ \ {b}, ![w].at = b,
                     ![w].sawHibernated = DescribedHibernated(b),
                     ![w].sawEnabled = branch[b].s2zEnabled]
              /\ UNCHANGED faults
           \/ /\ Fault
              /\ worker' = [worker EXCEPT ![w].todo = @ \ {b}, ![w].failed = TRUE]
    /\ UNCHANGED <<row, branch, writes>>

DesiredEnabled(w) == ~worker[w].disabled /\ worker[w].at \in ScaleToZero

(* The branch with the fields that the update request sets. *)
Updated(w) ==
    [branch EXCEPT
        ![worker[w].at].hibernate =
            IF worker[w].sawHibernated # worker[w].disabled THEN worker[w].disabled ELSE @,
        ![worker[w].at].s2zEnabled =
            IF worker[w].sawEnabled # DesiredEnabled(w) THEN DesiredEnabled(w) ELSE @]

NextBranch(w, failed) ==
    worker' = [worker EXCEPT ![w].at = NoBranch, ![w].sawHibernated = FALSE,
                             ![w].sawEnabled = FALSE, ![w].failed = @ \/ failed]

ShouldUpdate(w) ==
    \/ worker[w].sawHibernated # worker[w].disabled
    \/ worker[w].sawEnabled # DesiredEnabled(w)

(* The described branch is updated where it differs.  A failed update may have   *)
(* been applied or not.                                                           *)
UpdateBranch(w) ==
    /\ worker[w].step = "syncing" /\ worker[w].at # NoBranch
    /\ \/ /\ branch' = Updated(w)
          /\ NextBranch(w, FALSE)
          /\ UNCHANGED faults
       \/ /\ ShouldUpdate(w) /\ Fault
          /\ branch' \in {branch, Updated(w)}
          /\ NextBranch(w, TRUE)
    /\ UNCHANGED <<row, writes>>

ToMarking(w, failed, stopping) ==
    worker' = [worker EXCEPT ![w].todo = {}, ![w].at = NoBranch,
                             ![w].sawHibernated = FALSE, ![w].sawEnabled = FALSE,
                             ![w].step = "marking", ![w].failed = failed,
                             ![w].stopping = stopping, ![w].left = BookkeepingTimeout]

SyncReturns(w) ==
    /\ worker[w].step = "syncing"
    /\ worker[w].todo = {} /\ worker[w].at = NoBranch
    /\ ToMarking(w, worker[w].failed, FALSE)
    /\ UNCHANGED <<row, branch, writes, faults>>

(* The sync stops before the last branch: it timed out, with or without the       *)
(* effect of an update in progress, or listing the branches failed.                *)
SyncAborts(w) ==
    /\ worker[w].step = "syncing"
    /\ \/ worker[w].left = 0 /\ worker[w].at = NoBranch /\ branch' = branch
       \/ worker[w].left = 0 /\ worker[w].at # NoBranch /\ branch' \in {branch, Updated(w)}
       \/ worker[w].at = NoBranch /\ branch' = branch       \* ListBranches failed
    /\ Fault
    /\ ToMarking(w, TRUE, FALSE)
    /\ UNCHANGED <<row, writes>>

(* The service stops: the sync ends as if it had timed out, but is retried at once. *)
Shutdown(w) ==
    /\ worker[w].step = "syncing"
    /\ \/ worker[w].at = NoBranch /\ branch' = branch
       \/ worker[w].at # NoBranch /\ branch' \in {branch, Updated(w)}
    /\ Fault
    /\ ToMarking(w, TRUE, TRUE)
    /\ UNCHANGED <<row, writes>>

(* 2^(attempts - 1), but no more than MaxBackoff. *)
Backoff(attempts) ==
    Sooner(IF attempts <= 1 THEN 1 ELSE 2 ^ Sooner(attempts - 1, 20), MaxBackoff)

(* next_retry_at, as of the time the sync returned. *)
RetryIn(w) ==
    Later(Longest, (IF worker[w].stopping THEN 0 ELSE Backoff(worker[w].attempts))
                       - (BookkeepingTimeout - worker[w].left))

(* Mutant of MarkedSynced: the version is not compared. *)
MarkedSyncedAnyVersion(version) ==
    [row EXCEPT !.lease = Longest, !.synced = TRUE, !.attempts = 0]

MarkedSynced(version) ==
    IF row.version = version
    THEN [row EXCEPT !.lease = Longest, !.synced = TRUE, !.attempts = 0]
    ELSE [row EXCEPT !.lease = Longest]

MarkedFailed(version, retryIn) ==
    IF row.version = version
    THEN [row EXCEPT !.lease = Longest, !.retry = retryIn]
    ELSE [row EXCEPT !.lease = Longest]

(* The bookkeeping write ends the sync, and the pass goes on to the next claim   *)
(* unless the service stops.  A write that fails ends the pass and leaves the     *)
(* lease to run out.                                                               *)
Mark(w) ==
    /\ worker[w].step = "marking"
    /\ \/ /\ row' = IF row.state # "present" THEN row
                    ELSE IF worker[w].failed
                         THEN MarkedFailed(worker[w].version, RetryIn(w))
                         ELSE MarkedSynced(worker[w].version)
          /\ worker' = [worker EXCEPT ![w] =
                            IF worker[w].stopping THEN Idle(TRUE)
                            ELSE [Idle(worker[w].awake) EXCEPT !.step = "claiming"]]
          /\ UNCHANGED faults
       \/ /\ Fault
          /\ worker' = [worker EXCEPT ![w] = Idle(worker[w].awake)]
          /\ UNCHANGED row
    /\ UNCHANGED <<branch, writes>>

(* The process dies, and is started again. *)
Crash(w) ==
    /\ worker[w].step # "idle"
    /\ Fault
    /\ worker' = [worker EXCEPT ![w] = Idle(TRUE)]
    /\ UNCHANGED <<row, branch, writes>>

-----------------------------------------------------------------------------
(* The rest of the system *)

(* The branch operator brings the cluster of a branch into line with it. *)
ReconcileBranch(b) ==
    /\ b \in Plain
    /\ branch[b].clusterHibernated # branch[b].hibernate
    /\ branch' = [branch EXCEPT ![b].clusterHibernated = branch[b].hibernate]
    /\ UNCHANGED <<row, worker, writes, faults>>

(* A unit of time passes.  A sync ends with its timeout, and so does the          *)
(* bookkeeping; the poll interval is one unit.                                    *)
Tick ==
    /\ \A w \in Workers :
           /\ worker[w].step = "claiming" => worker[w].age < ClaimDelay
           /\ worker[w].step \in {"syncing", "marking"} => worker[w].left > 0
    /\ row' = [row EXCEPT !.retry = Later(@ - 1, Longest), !.lease = Later(@ - 1, Longest)]
    /\ worker' = [w \in Workers |->
                     [worker[w] EXCEPT
                         !.awake = TRUE,
                         !.age = IF worker[w].step = "claiming" THEN @ + 1 ELSE @,
                         !.left = IF worker[w].step \in {"syncing", "marking"}
                                  THEN @ - 1 ELSE @]]
    /\ UNCHANGED <<branch, writes, faults>>

Next ==
    \/ \E disabled \in BOOLEAN : UpdateOrganizationStatus(disabled)
    \/ DeleteOrganizationStatus
    \/ \E w \in Workers :
           \/ StartPass(w) \/ ClaimOrganizationStatusForSync(w) \/ EndPass(w)
           \/ DescribeBranch(w) \/ UpdateBranch(w)
           \/ SyncReturns(w) \/ SyncAborts(w) \/ Shutdown(w)
           \/ Mark(w) \/ Crash(w)
    \/ \E b \in Branches : ReconcileBranch(b)
    \/ Tick

Spec == Init /\ [][Next]_vars

(* Time passes, and a worker is a loop that takes its next step; at most MaxFaults  *)
(* calls fail or run out of time.                                                    *)
FairSpec ==
    /\ Spec
    /\ WF_vars(Tick)
    /\ \A w \in Workers :
           /\ WF_vars(StartPass(w))
           /\ WF_vars(ClaimOrganizationStatusForSync(w) \/ EndPass(w))
           /\ WF_vars(DescribeBranch(w) \/ UpdateBranch(w) \/ SyncReturns(w))
           /\ WF_vars(Mark(w))
    /\ \A b \in Branches : WF_vars(ReconcileBranch(b))

-----------------------------------------------------------------------------
(* Properties *)

Active(w) == worker[w].step \in {"syncing", "marking"}

(* Two workers never sync the organization at once: the lease of a claim          *)
(* outlasts the sync and its bookkeeping (worker.go, Config.Lease).                *)
OneSyncAtATime == \A v, w \in Workers : Active(v) /\ Active(w) => v = w

(* Every branch has its scale-to-zero setting, and every branch with a wakeup     *)
(* pool its hibernation.                                                           *)
Converged(disabled) ==
    \A b \in Branches :
        /\ b \notin Plain => branch[b].hibernate = disabled
        /\ branch[b].s2zEnabled = (~disabled /\ b \in ScaleToZero)

(* A row that is marked synced describes the branches: no status that arrived     *)
(* during a sync, no failed update and no late worker leaves a branch behind.      *)
SyncedMeansConverged == row.synced => Converged(row.disabled)

(* A status that stays long enough is applied to the branches, whatever crashes   *)
(* and failed calls come first.                                                    *)
StatusIsApplied ==
    \A d \in BOOLEAN :
        row.state = "present" /\ row.disabled = d
            ~> row.state = "deleted" \/ row.disabled # d \/ Converged(d)
=============================================================================
