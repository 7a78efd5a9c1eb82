---------------------------- MODULE ProjectStore ----------------------------
(***************************************************************************)
(* The projects service: projects, their branches, and what a branch has on *)
(* its cell (its Postgres cluster and its entry in the IP filtering table).  *)
(*                                                                           *)
(* Requests run concurrently, over one PostgreSQL database and the RPCs of   *)
(* the cells.  A step of a request is one statement, or one commit, or one   *)
(* RPC; statements read what is committed.  Requests are ordered by          *)
(*                                                                           *)
(*   - the organization lock, that CreateProject takes and waits for;        *)
(*   - the project lock: shared by creations of branches, that do not wait,  *)
(*     exclusive for updates of the IP filtering, that do not wait either,   *)
(*     and for the DeleteProject RPC, that waits;                            *)
(*   - the locks PostgreSQL keeps on the rows that a transaction has changed. *)
(*                                                                           *)
(* An RPC that sets the IP filtering of branches takes effect at once, or    *)
(* fails with or without effect, which is what FilterTable promises.         *)
(***************************************************************************)
EXTENDS Integers, FiniteSets

CONSTANTS
    Requests,      \* concurrent requests
    Duties,        \* what each of them may ask for: [Requests -> SUBSET Kinds]
    Projects,      \* project IDs
    BranchIds,     \* branch IDs
    Cells,         \* cells
    Filters,       \* IP filtering settings
    Open,          \* the one that is disabled and has no CIDRs
    None,          \* no value
    MaxProjects,   \* the organization's limit on projects
    MaxBranches,   \* its limit on branches per project
    MaxDepth,      \* the maximum depth of the branch tree
    MaxStoreFaults \* bound on failed commits and RPCs

Kinds == {"createProject", "createBranch", "updateProject", "deleteBranch",
          "deleteProject", "deleteProjectRPC", "deleteProjectsInOrg"}

ASSUME FiltersAssumption == Open \in Filters /\ None \notin Filters
ASSUME DutiesAssumption == Duties \in [Requests -> SUBSET Kinds]
ASSUME IDsAssumption ==
    /\ IsFiniteSet(BranchIds) /\ IsFiniteSet(Projects) /\ IsFiniteSet(Requests)
    /\ None \notin BranchIds \cup Projects \cup Kinds
ASSUME LimitsAssumption == {MaxProjects, MaxBranches, MaxDepth, MaxStoreFaults} \subseteq Nat

VARIABLES
    project,   \* rows of projects: status and IP filtering
    branches,  \* rows of branches: status, project, cell, depth
    clusters,  \* branches that have a Postgres cluster on their cell
    entry,     \* their entries in the IP filtering table of the cell
    req,       \* the requests
    acked,     \* projects whose DeleteProject RPC has returned no error
    dirty,     \* projects with an update that failed after it had reached a cell
    storeFaults

storeVars == <<project, branches, clusters, entry, req, acked, dirty, storeFaults>>

Status == {"none", "active", "terminated"}

PCs == {"idle",
        "orglock", "limits", "insert",
        "branchlimits", "trylock", "insertbranch", "provision", "filter", "commitbranch",
        "tryexclusive", "read", "update", "list", "setcell", "commitupdate",
        "waitlock", "listbranches", "nextbranch", "readbranch", "mark", "deprovision", "unfilter",
        "commitdelete", "checkempty", "terminate"}

IdleRequest == [kind |-> None, pc |-> "idle", p |-> None, b |-> None, parent |-> None, cell |-> None,
         depth |-> 1, filter |-> Open, todo |-> {}, reached |-> FALSE, failed |-> FALSE]

(* A root branch has depth 1 whatever the maximum is. *)
Depths == {1} \cup 1 .. MaxDepth

Request ==
    [kind : Kinds \cup {None}, pc : PCs, p : Projects \cup {None}, b : BranchIds \cup {None},
     parent : BranchIds \cup {None}, cell : Cells \cup {None}, depth : Depths,
     filter : Filters, todo : SUBSET BranchIds, reached : BOOLEAN, failed : BOOLEAN]

StoreTypeOK ==
    /\ project \in [Projects -> [status : Status, filter : Filters]]
    /\ branches \in [BranchIds -> [status : Status, p : Projects \cup {None},
                                   cell : Cells \cup {None}, depth : Depths]]
    /\ clusters \subseteq BranchIds
    /\ entry \in [BranchIds -> Filters \cup {None}]
    /\ req \in [Requests -> Request]
    /\ acked \subseteq Projects
    /\ dirty \subseteq Projects
    /\ storeFaults \in Nat

NoBranchRow == [status |-> "none", p |-> None, cell |-> None, depth |-> 1]

StoreInit ==
    /\ project = [p \in Projects |-> [status |-> "none", filter |-> Open]]
    /\ branches = [b \in BranchIds |-> NoBranchRow]
    /\ clusters = {}
    /\ entry = [b \in BranchIds |-> None]
    /\ req = [r \in Requests |-> IdleRequest]
    /\ acked = {}
    /\ dirty = {}
    /\ storeFaults = 0

-----------------------------------------------------------------------------
(* What a statement sees, and the locks *)

ActiveProjects == {p \in Projects : project[p].status = "active"}
ActiveBranches(p) == {b \in BranchIds : branches[b].status = "active" /\ branches[b].p = p}

At(kinds, pcs) == {r \in Requests : req[r].kind \in kinds /\ req[r].pc \in pcs}
On(p) == {r \in Requests : req[r].p = p}

OrgLockHolders == At({"createProject"}, {"limits", "insert"})

SharedHolders(p) == On(p) \cap At({"createBranch"}, {"insertbranch", "provision", "filter", "commitbranch"})

ExclusiveHolders(p) ==
    On(p) \cap (At({"updateProject"}, PCs \ {"idle", "tryexclusive"})
                \cup At({"deleteProjectRPC"}, PCs \ {"idle", "waitlock"}))

ExclusiveWaiters(p) == On(p) \cap At({"deleteProjectRPC"}, {"waitlock"})

ProjectRowLocked(p) == On(p) \cap At({"updateProject"}, {"list", "setcell", "commitupdate"}) # {}

BranchRowLocked(b) ==
    \E r \in Requests : req[r].b = b /\ req[r].pc \in {"deprovision", "unfilter", "commitdelete"}

-----------------------------------------------------------------------------
(* Steps *)

Goto(r, pc) == req' = [req EXCEPT ![r].pc = pc]

(* The request returns; its transaction, if it has one, is rolled back or     *)
(* already committed, and its locks are released.                              *)
Return(r) == req' = [req EXCEPT ![r] = IdleRequest]

StoreFault == storeFaults < MaxStoreFaults /\ storeFaults' = storeFaults + 1

store == <<project, branches>>
cells == <<clusters, entry>>
ghosts == <<acked, dirty>>

-----------------------------------------------------------------------------
(* CreateProject *)

StartCreateProject(r) ==
    /\ req[r].pc = "idle"
    /\ "createProject" \in Duties[r]
    /\ \E p \in Projects, f \in Filters :
         /\ project[p].status = "none"
         /\ On(p) = {}
         /\ req' = [req EXCEPT ![r] = [IdleRequest EXCEPT !.kind = "createProject", !.pc = "orglock", !.p = p, !.filter = f]]
    /\ UNCHANGED <<store, cells, ghosts, storeFaults>>

(* Mutant of TakeOrgLock: creations of projects are not serialized. *)
TakeNoOrgLock(r) ==
    /\ req[r].pc = "orglock"
    /\ Goto(r, "limits")
    /\ UNCHANGED <<store, cells, ghosts, storeFaults>>

(* pg_advisory_xact_lock on the organization. *)
TakeOrgLock(r) ==
    /\ req[r].pc = "orglock"
    /\ OrgLockHolders = {}
    /\ Goto(r, "limits")
    /\ UNCHANGED <<store, cells, ghosts, storeFaults>>

(* enforceProjectCreationLimits; a limit of 0 is none.  The limit on the       *)
(* projects created within an hour may refuse any creation.                    *)
CheckProjectLimits(r) ==
    /\ req[r].pc = "limits"
    /\ \/ Return(r)
       \/ /\ MaxProjects # 0 => Cardinality(ActiveProjects) < MaxProjects
          /\ Goto(r, "insert")
    /\ UNCHANGED <<store, cells, ghosts, storeFaults>>

(* The insert and the commit; the name may be taken, the commit may fail. *)
InsertProject(r) ==
    /\ req[r].pc = "insert"
    /\ \/ project' = [project EXCEPT ![req[r].p] = [status |-> "active", filter |-> req[r].filter]]
       \/ UNCHANGED project
    /\ Return(r)
    /\ UNCHANGED <<branches, cells, ghosts, storeFaults>>

-----------------------------------------------------------------------------
(* CreateBranch *)

Unused(b) == /\ branches[b].status = "none"
             /\ b \notin clusters
             /\ entry[b] = None
             /\ \A r \in Requests : req[r].b # b

(* BuildPayload and what the provisioner reads before the transaction: the    *)
(* project, and for a child branch the parent, whose cell it goes to.  A root  *)
(* branch is allocated to some cell.                                           *)
StartCreateBranch(r) ==
    /\ req[r].pc = "idle"
    /\ "createBranch" \in Duties[r]
    /\ \E b \in BranchIds, p \in ActiveProjects : \E parent \in ActiveBranches(p) \cup {None} :
         \E c \in IF parent = None THEN Cells ELSE {branches[parent].cell} :
           /\ Unused(b)
           /\ req' = [req EXCEPT ![r] = [IdleRequest EXCEPT !.kind = "createBranch", !.pc = "branchlimits", !.p = p,
                !.b = b, !.parent = parent, !.cell = c, !.filter = project[p].filter]]
    /\ UNCHANGED <<store, cells, ghosts, storeFaults>>

(* Mutant of CheckBranchLimits: the limit itself is still allowed. *)
CheckBranchLimitsLate(r) ==
    /\ req[r].pc = "branchlimits"
    /\ \/ Return(r)
       \/ Cardinality(ActiveBranches(req[r].p)) <= MaxBranches /\ Goto(r, "trylock")
    /\ UNCHANGED <<store, cells, ghosts, storeFaults>>

(* enforceBranchCreationLimits, before the transaction and the lock.  The      *)
(* limits of the whole organization and of an hour may refuse any creation.    *)
CheckBranchLimits(r) ==
    /\ req[r].pc = "branchlimits"
    /\ \/ Return(r)
       \/ Cardinality(ActiveBranches(req[r].p)) < MaxBranches /\ Goto(r, "trylock")
    /\ UNCHANGED <<store, cells, ghosts, storeFaults>>

(* Mutant of TryShared: the lock of a waiting DeleteProject is overtaken. *)
TrySharedOvertaking(r) ==
    /\ req[r].pc = "trylock"
    /\ IF ExclusiveHolders(req[r].p) = {} THEN Goto(r, "insertbranch") ELSE Return(r)
    /\ UNCHANGED <<store, cells, ghosts, storeFaults>>

(* Mutant of TryShared: no lock is taken. *)
TryNothing(r) ==
    /\ req[r].pc = "trylock"
    /\ Goto(r, "insertbranch")
    /\ UNCHANGED <<store, cells, ghosts, storeFaults>>

(* tryProjectXactLockShared: ErrProjectBusy if the lock is held exclusively,  *)
(* or someone waits for it.                                                    *)
TryShared(r) ==
    /\ req[r].pc = "trylock"
    /\ IF ExclusiveHolders(req[r].p) \cup ExclusiveWaiters(req[r].p) = {}
         THEN Goto(r, "insertbranch")
         ELSE Return(r)
    /\ UNCHANGED <<store, cells, ghosts, storeFaults>>

(* Mutant of InsertBranch: the IP filtering is that of the project as it was   *)
(* read before the lock was taken.                                             *)
InsertBranchStale(r) ==
    /\ req[r].pc = "insertbranch"
    /\ LET p == req[r].p parent == req[r].parent IN
         \/ /\ p \in ActiveProjects
            /\ parent # None => parent \in ActiveBranches(p) /\ branches[parent].depth < MaxDepth
            /\ req' = [req EXCEPT ![r].pc = "provision",
                                  ![r].depth = IF parent = None THEN 1 ELSE branches[parent].depth + 1]
         \/ Return(r)
    /\ UNCHANGED <<store, cells, ghosts, storeFaults>>

(* The project and the parent are read again, and the row is inserted; the     *)
(* name may be taken, or the parent be too deep.                               *)
InsertBranch(r) ==
    /\ req[r].pc = "insertbranch"
    /\ LET p == req[r].p parent == req[r].parent IN
         \/ /\ p \in ActiveProjects
            /\ parent # None => parent \in ActiveBranches(p) /\ branches[parent].depth < MaxDepth
            /\ req' = [req EXCEPT ![r].pc = "provision",
                                  ![r].depth = IF parent = None THEN 1 ELSE branches[parent].depth + 1,
                                  ![r].filter = project[p].filter]
         \/ Return(r)
    /\ UNCHANGED <<store, cells, ghosts, storeFaults>>

(* CreatePostgresCluster on the cell; it may fail after it took effect. *)
ProvisionCluster(r) ==
    /\ req[r].pc = "provision"
    /\ \/ /\ clusters' = clusters \cup {req[r].b}
          /\ Goto(r, "filter")
          /\ UNCHANGED storeFaults
       \/ /\ StoreFault
          /\ clusters' \in {clusters, clusters \cup {req[r].b}}
          /\ Return(r)
    /\ UNCHANGED <<store, entry, ghosts>>

(* ApplyProjectIPFiltering, with the project that was read under the lock. *)
FilterBranch(r) ==
    /\ req[r].pc = "filter"
    /\ LET filtered == [entry EXCEPT ![req[r].b] = req[r].filter] IN
         \/ /\ entry' = IF req[r].filter = Open THEN entry ELSE filtered
            /\ Goto(r, "commitbranch")
            /\ UNCHANGED storeFaults
         \/ /\ req[r].filter # Open
            /\ StoreFault
            /\ entry' \in {entry, filtered}
            /\ Return(r)
    /\ UNCHANGED <<store, clusters, ghosts>>

(* The commit; when it fails, it may have taken effect. *)
CommitBranch(r) ==
    /\ req[r].pc = "commitbranch"
    /\ LET row == [status |-> "active", p |-> req[r].p, cell |-> req[r].cell, depth |-> req[r].depth]
           created == [branches EXCEPT ![req[r].b] = row]
       IN \/ branches' = created /\ UNCHANGED storeFaults
          \/ StoreFault /\ branches' \in {branches, created}
    /\ Return(r)
    /\ UNCHANGED <<project, cells, ghosts>>

-----------------------------------------------------------------------------
(* UpdateProject, of the IP filtering *)

StartUpdateProject(r) ==
    /\ req[r].pc = "idle"
    /\ "updateProject" \in Duties[r]
    /\ \E p \in Projects, f \in Filters :
         /\ project[p].status # "none"
         /\ req' = [req EXCEPT ![r] = [IdleRequest EXCEPT !.kind = "updateProject", !.pc = "tryexclusive", !.p = p, !.filter = f]]
    /\ UNCHANGED <<store, cells, ghosts, storeFaults>>

(* TryAcquireProjectLock. *)
TryExclusive(r) ==
    /\ req[r].pc = "tryexclusive"
    /\ IF SharedHolders(req[r].p) \cup ExclusiveHolders(req[r].p) \cup ExclusiveWaiters(req[r].p) = {}
         THEN Goto(r, "read")
         ELSE Return(r)
    /\ UNCHANGED <<store, cells, ghosts, storeFaults>>

ReadProject(r) ==
    /\ req[r].pc = "read"
    /\ IF req[r].p \in ActiveProjects THEN Goto(r, "update") ELSE Return(r)
    /\ UNCHANGED <<store, cells, ghosts, storeFaults>>

(* The row is changed, and locked up to the end of the transaction. *)
UpdateRow(r) ==
    /\ req[r].pc = "update"
    /\ ~ProjectRowLocked(req[r].p)
    /\ Goto(r, "list")
    /\ UNCHANGED <<store, cells, ghosts, storeFaults>>

(* applyIPFilteringToBranchCells lists the branches, on another connection. *)
ListBranches(r) ==
    /\ req[r].pc = "list"
    /\ IF req[r].p \in ActiveProjects
         THEN LET bs == ActiveBranches(req[r].p) IN
                req' = [req EXCEPT ![r].todo = bs, ![r].pc = IF bs = {} THEN "commitupdate" ELSE "setcell"]
         ELSE Return(r)
    /\ UNCHANGED <<store, cells, ghosts, storeFaults>>

(* SetBranchesIPFiltering for the branches of one cell; a failure ends the     *)
(* update, with the cells before it changed.                                   *)
SetCell(r) ==
    /\ req[r].pc = "setcell"
    /\ \E c \in {branches[b].cell : b \in req[r].todo} :
         LET bs == {b \in req[r].todo : branches[b].cell = c}
             set == [b \in BranchIds |-> IF b \in bs THEN req[r].filter ELSE entry[b]]
         IN \/ /\ entry' = set
               /\ req' = [req EXCEPT ![r].todo = @ \ bs, ![r].reached = TRUE,
                                     ![r].pc = IF req[r].todo = bs THEN "commitupdate" ELSE "setcell"]
               /\ UNCHANGED <<dirty, storeFaults>>
            \/ /\ StoreFault
               /\ entry' \in {entry, set}
               /\ dirty' = IF req[r].reached \/ entry' # entry THEN dirty \cup {req[r].p} ELSE dirty
               /\ Return(r)
    /\ UNCHANGED <<store, clusters, acked>>

(* Mutant of CommitUpdate: a failed commit is reported as a success. *)
CommitUpdateBlindly(r) ==
    /\ req[r].pc = "commitupdate"
    /\ LET set == [project EXCEPT ![req[r].p].filter = req[r].filter] IN
         \/ project' = set /\ UNCHANGED storeFaults
         \/ StoreFault /\ project' \in {project, set}
    /\ dirty' = dirty \ {req[r].p}
    /\ Return(r)
    /\ UNCHANGED <<branches, cells, acked>>

CommitUpdate(r) ==
    /\ req[r].pc = "commitupdate"
    /\ LET set == [project EXCEPT ![req[r].p].filter = req[r].filter] IN
         \/ /\ project' = set
            /\ dirty' = dirty \ {req[r].p}
            /\ UNCHANGED storeFaults
         \/ /\ StoreFault
            /\ project' \in {project, set}
            /\ dirty' = IF req[r].reached THEN dirty \cup {req[r].p} ELSE dirty
    /\ Return(r)
    /\ UNCHANGED <<branches, cells, acked>>

-----------------------------------------------------------------------------
(* DeleteBranch, and its steps within the deletion of a project *)

StartDeleteBranch(r) ==
    /\ req[r].pc = "idle"
    /\ "deleteBranch" \in Duties[r]
    /\ \E b \in BranchIds :
         /\ branches[b].status # "none"
         /\ req' = [req EXCEPT ![r] = [IdleRequest EXCEPT !.kind = "deleteBranch", !.pc = "readbranch", !.p = branches[b].p, !.b = b]]
    /\ UNCHANGED <<store, cells, ghosts, storeFaults>>

(* The deletion of a branch ends: BranchProvisioner.DeleteProject goes on with *)
(* the other branches, and deletes the project if none has failed.             *)
EndBranch(r, err) ==
    IF req[r].kind = "deleteBranch"
      THEN Return(r)
      ELSE LET left == req[r].todo \ {req[r].b} IN
             IF left = {} /\ (err \/ req[r].failed)
               THEN Return(r)
               ELSE req' = [req EXCEPT ![r].todo = left, ![r].b = None, ![r].failed = @ \/ err,
                                       ![r].pc = IF left = {} THEN "checkempty" ELSE "nextbranch"]

NextBranchOf(r) ==
    /\ req[r].pc = "nextbranch"
    /\ \E b \in req[r].todo : req' = [req EXCEPT ![r].b = b, ![r].pc = "readbranch"]
    /\ UNCHANGED <<store, cells, ghosts, storeFaults>>

(* The project and the branch must be active; a branch that is gone is no      *)
(* error for the deletion of its project.                                      *)
ReadBranch(r) ==
    /\ req[r].pc = "readbranch"
    /\ IF req[r].p \in ActiveProjects /\ branches[req[r].b].status = "active"
         THEN Goto(r, "mark")
         ELSE EndBranch(r, req[r].p \notin ActiveProjects)
    /\ UNCHANGED <<store, cells, ghosts, storeFaults>>

(* The row is changed: another deletion of the branch is waited for, and does  *)
(* not stop this one.                                                          *)
MarkBranch(r) ==
    /\ req[r].pc = "mark"
    /\ ~BranchRowLocked(req[r].b)
    /\ Goto(r, "deprovision")
    /\ UNCHANGED <<store, cells, ghosts, storeFaults>>

(* DeletePostgresCluster; no cluster is no error. *)
DeprovisionBranch(r) ==
    /\ req[r].pc = "deprovision"
    /\ \/ /\ clusters' = clusters \ {req[r].b}
          /\ Goto(r, "unfilter")
          /\ UNCHANGED storeFaults
       \/ /\ StoreFault
          /\ clusters' \in {clusters, clusters \ {req[r].b}}
          /\ EndBranch(r, TRUE)
    /\ UNCHANGED <<store, entry, ghosts>>

(* DeleteBranchIPFiltering, whose failure is logged. *)
UnfilterBranch(r) ==
    /\ req[r].pc = "unfilter"
    /\ \/ entry' = [entry EXCEPT ![req[r].b] = None] /\ UNCHANGED storeFaults
       \/ StoreFault /\ entry' \in {entry, [entry EXCEPT ![req[r].b] = None]}
    /\ Goto(r, "commitdelete")
    /\ UNCHANGED <<store, clusters, ghosts>>

CommitDelete(r) ==
    /\ req[r].pc = "commitdelete"
    /\ LET deleted == [branches EXCEPT ![req[r].b].status = "terminated"] IN
         \/ branches' = deleted /\ EndBranch(r, FALSE) /\ UNCHANGED storeFaults
         \/ StoreFault /\ branches' \in {branches, deleted} /\ EndBranch(r, TRUE)
    /\ UNCHANGED <<project, cells, ghosts>>

-----------------------------------------------------------------------------
(* Deletion of a project: by the API, which wants it empty, by the RPC, which   *)
(* holds the project lock, and with its organization, without the lock.         *)

StartPC == [deleteProject |-> "checkempty", deleteProjectRPC |-> "waitlock", deleteProjectsInOrg |-> "listbranches"]

StartDeleteProject(r) ==
    /\ req[r].pc = "idle"
    /\ \E p \in Projects, k \in Duties[r] \cap DOMAIN StartPC :
         /\ project[p].status # "none"
         /\ req' = [req EXCEPT ![r] = [IdleRequest EXCEPT !.kind = k, !.pc = StartPC[k], !.p = p]]
    /\ UNCHANGED <<store, cells, ghosts, storeFaults>>

(* Mutant of WaitLock: the lock is not waited for. *)
WaitNoLock(r) ==
    /\ req[r].pc = "waitlock"
    /\ Goto(r, "listbranches")
    /\ UNCHANGED <<store, cells, ghosts, storeFaults>>

(* AcquireProjectLock. *)
WaitLock(r) ==
    /\ req[r].pc = "waitlock"
    /\ SharedHolders(req[r].p) \cup ExclusiveHolders(req[r].p) = {}
    /\ Goto(r, "listbranches")
    /\ UNCHANGED <<store, cells, ghosts, storeFaults>>

(* BranchProvisioner.DeleteProject lists the branches of the active project. *)
ListForDeletion(r) ==
    /\ req[r].pc = "listbranches"
    /\ IF req[r].p \in ActiveProjects
         THEN LET bs == ActiveBranches(req[r].p) IN
                req' = [req EXCEPT ![r].todo = bs, ![r].pc = IF bs = {} THEN "checkempty" ELSE "nextbranch"]
         ELSE Return(r)
    /\ UNCHANGED <<store, cells, ghosts, storeFaults>>

(* DeleteProject of the store: ErrProjectNotEmpty. *)
CheckEmpty(r) ==
    /\ req[r].pc = "checkempty"
    /\ IF ActiveBranches(req[r].p) = {} THEN Goto(r, "terminate") ELSE Return(r)
    /\ UNCHANGED <<store, cells, ghosts, storeFaults>>

(* The row is changed, whatever its status is, and the transaction committed. *)
TerminateProject(r) ==
    /\ req[r].pc = "terminate"
    /\ ~ProjectRowLocked(req[r].p)
    /\ LET terminated == [project EXCEPT ![req[r].p].status = "terminated"] IN
         \/ /\ project' = terminated
            /\ acked' = IF req[r].kind = "deleteProjectRPC" THEN acked \cup {req[r].p} ELSE acked
            /\ UNCHANGED storeFaults
         \/ /\ StoreFault
            /\ project' \in {project, terminated}
            /\ UNCHANGED acked
    /\ Return(r)
    /\ UNCHANGED <<branches, cells, dirty>>

-----------------------------------------------------------------------------
Start(r) ==
    \/ StartCreateProject(r) \/ StartCreateBranch(r) \/ StartUpdateProject(r)
    \/ StartDeleteBranch(r) \/ StartDeleteProject(r)

(* Steps that may have to wait for another request, in the order of arrival. *)
Wait(r) == TakeOrgLock(r) \/ WaitLock(r) \/ UpdateRow(r) \/ MarkBranch(r) \/ TerminateProject(r)

Step(r) ==
    \/ CheckProjectLimits(r) \/ InsertProject(r)
    \/ CheckBranchLimits(r) \/ TryShared(r) \/ InsertBranch(r) \/ ProvisionCluster(r)
    \/ FilterBranch(r) \/ CommitBranch(r)
    \/ TryExclusive(r) \/ ReadProject(r) \/ ListBranches(r) \/ SetCell(r) \/ CommitUpdate(r)
    \/ NextBranchOf(r) \/ ReadBranch(r) \/ DeprovisionBranch(r) \/ UnfilterBranch(r) \/ CommitDelete(r)
    \/ ListForDeletion(r) \/ CheckEmpty(r)

StoreNext == \E r \in Requests : Start(r) \/ Wait(r) \/ Step(r)

StoreSpec == StoreInit /\ [][StoreNext]_storeVars

(* A request goes on with its steps; PostgreSQL grants locks in the order in    *)
(* which they were asked for.                                                   *)
StoreFairSpec == StoreSpec /\ \A r \in Requests : WF_storeVars(Step(r)) /\ SF_storeVars(Wait(r))

-----------------------------------------------------------------------------
(* Properties *)

(* The organization never has more active projects than its limit, however     *)
(* many creations overlap (CreateProject, enforceProjectCreationLimits).        *)
ProjectLimit == MaxProjects # 0 => Cardinality(ActiveProjects) <= MaxProjects

InFlight(p) == On(p) \cap At({"createBranch"}, {"trylock", "insertbranch", "provision", "filter", "commitbranch"})
Creators == {r \in Requests : "createBranch" \in Duties[r]}

(* A project can get beyond its limit of branches, since the limit is checked   *)
(* before the transaction (enforceBranchCreationLimits), but by no more than    *)
(* the creations that overlap, even counting the ones still under way.          *)
BranchOvershoot ==
    Creators # {} => \A p \in Projects :
      Cardinality(ActiveBranches(p)) + Cardinality(InFlight(p)) <= MaxBranches - 1 + Cardinality(Creators)

Effective(e) == IF e = None THEN Open ELSE e

Applying(p) == \E r \in On(p) : req[r].kind = "updateProject" /\ req[r].reached

(* Every branch that runs has the IP filtering of its project: branches that    *)
(* are created while it is updated, and branches of several cells, included.    *)
(* Only an update that failed half-way leaves them apart, and the next update   *)
(* that succeeds brings them together (UpdateProject, CreateBranch,             *)
(* applyIPFilteringToBranchCells, ApplyProjectIPFiltering).                      *)
FilterInForce ==
    \A p \in Projects \ dirty :
      ~Applying(p) => \A b \in ActiveBranches(p) \cap clusters : Effective(entry[b]) = project[p].filter

(* Once the DeleteProject RPC has returned no error, no branch of the project   *)
(* is active and none has a cluster, and no creation that was under way adds    *)
(* one later ("an in-flight branch create cannot commit after the cascade has   *)
(* run and leave live compute behind an acknowledged deletion").  And a deleted *)
(* branch has no cluster, whichever of its deletions failed before              *)
(* (DeleteBranch, DeprovisionBranch).                                           *)
DeletedIsGone ==
    \A b \in BranchIds :
        /\ branches[b].p \in acked => branches[b].status = "terminated"
        /\ branches[b].status = "terminated" => b \notin clusters

(* A project that is deleted has no active branch: creations of branches are    *)
(* "ordered against exclusive holders (IP filtering updates, project            *)
(* deletion)" (store.go).                                                       *)
DeletedProjectIsEmpty ==
    \A p \in Projects : project[p].status = "terminated" => ActiveBranches(p) = {}

(* Every request returns: no two wait for each other, and creations that keep   *)
(* coming do not starve a deletion that waits for the project lock.             *)
EveryRequestReturns == \A r \in Requests : req[r].pc # "idle" ~> req[r].pc = "idle"
=============================================================================
