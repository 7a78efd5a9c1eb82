------------------------- MODULE ProjectStepProofs -------------------------
(***************************************************************************)
(* The inductive invariant of the projects service, and the steps of a       *)
(* request that leave the database and the cells as they are: reads, checks, *)
(* locks and returns, for any number of requests, projects and branches.     *)
(***************************************************************************)
EXTENDS ProjectStore, FiniteSetTheorems, TLAPS

ProjectPCs == {"orglock", "limits", "insert"}
ProvisionPCs == {"provision", "filter", "commitbranch"}
SharedPCs == {"insertbranch"} \cup ProvisionPCs
CreatePCs == {"branchlimits", "trylock"} \cup SharedPCs
UpdatePCs == {"tryexclusive", "read", "update", "list", "setcell", "commitupdate"}
DeletePCs == {"readbranch", "mark", "deprovision", "unfilter", "commitdelete"}

(* What is in a request at each of its steps. *)
WellFormed(q) ==
    /\ q.pc = "idle" => q = IdleRequest
    /\ q.pc # "idle" => q.p \in Projects
    /\ q.pc \in ProjectPCs <=> q.kind = "createProject"
    /\ q.pc \in CreatePCs <=> q.kind = "createBranch"
    /\ q.pc \in UpdatePCs <=> q.kind = "updateProject"
    /\ q.kind = "deleteBranch" => q.pc \in DeletePCs
    /\ q.pc \in CreatePCs \cup DeletePCs => q.b \in BranchIds
    /\ q.pc \notin CreatePCs \cup DeletePCs => q.b = None
    /\ q.reached => q.pc \in {"setcell", "commitupdate"}
    /\ q.pc = "commitupdate" => q.todo = {}

(* A branch that is not new belongs to a project that is not new. *)
Rows ==
    \A b \in BranchIds :
        IF branches[b].status = "none"
        THEN branches[b].p = None
        ELSE branches[b].p \in Projects /\ project[branches[b].p].status # "none"

(* The project of an acknowledged deletion stays deleted. *)
AckedIsDeleted == \A p \in acked : project[p].status = "terminated"

Shared(q) == q.pc \in SharedPCs
Exclusive(q) ==
    \/ q.pc \in UpdatePCs \ {"tryexclusive"}
    \/ q.kind = "deleteProjectRPC" /\ q.pc \notin {"idle", "waitlock"}

(* Two requests: what the first one creates is its own, and the locks it has     *)
(* exclude the second one.                                                        *)
Apart(q, other) ==
    /\ q.pc \in ProjectPCs => other.p # q.p
    /\ q.pc \in CreatePCs => other.b # q.b
    /\ q.pc \in {"limits", "insert"} => other.pc \notin {"limits", "insert"}
    /\ Exclusive(q) /\ other.p = q.p => ~Shared(other) /\ ~Exclusive(other)

(* What a request creates is new, what others work on is not. *)
Known(q) ==
    /\ q.pc \in ProjectPCs => project[q.p].status = "none"
    /\ q.pc \notin ProjectPCs \cup {"idle"} => project[q.p].status # "none"
    /\ q.pc \in CreatePCs => branches[q.b].status = "none"
    /\ q.pc \in DeletePCs => branches[q.b].status # "none"
    /\ \A b \in q.todo : branches[b].status # "none" /\ branches[b].p = q.p

(* A creation of a project that has passed the check will not exceed the limit. *)
Allowed(q) == q.pc = "insert" => (MaxProjects # 0 => Cardinality(ActiveProjects) < MaxProjects)

(* A cluster is gone before its branch is; nothing is created in a project whose *)
(* deletion is acknowledged, and nothing is left in one that is about to be.     *)
Removed(q) ==
    /\ q.pc \in {"unfilter", "commitdelete"} => q.b \notin clusters
    /\ q.pc \in ProvisionPCs => q.p \notin acked
    /\ q.pc = "terminate" /\ q.kind = "deleteProjectRPC" => ActiveBranches(q.p) = {}

(* An update has set the branches it has left behind; a creation has the         *)
(* filtering of the project, and has set it before it commits.                   *)
Filtered(q) ==
    /\ q.pc \in {"setcell", "commitupdate"} =>
         \A b \in ActiveBranches(q.p) \cap clusters : b \in q.todo \/ Effective(entry[b]) = q.filter
    /\ q.pc \in ProvisionPCs => q.filter = project[q.p].filter
    /\ q.pc \in CreatePCs \ {"commitbranch"} => entry[q.b] = None
    /\ q.pc = "commitbranch" => Effective(entry[q.b]) = q.filter

Fits(q) == WellFormed(q) /\ Known(q) /\ Allowed(q) /\ Removed(q) /\ Filtered(q)

Good(r) == Fits(req[r]) /\ (req[r].kind = "createBranch" => r \in Creators)

Pairs == \A r, s \in Requests : r # s => Apart(req[r], req[s])

IInv ==
    /\ StoreTypeOK /\ Rows /\ AckedIsDeleted /\ Pairs
    /\ \A r \in Requests : Good(r)
    /\ ProjectLimit /\ BranchOvershoot /\ DeletedIsGone /\ FilterInForce

-----------------------------------------------------------------------------
(* What the ways to change a request do to it, field by field. *)

LEMMA IdleFields ==
    /\ IdleRequest.kind = None /\ IdleRequest.pc = "idle" /\ IdleRequest.p = None
    /\ IdleRequest.b = None /\ IdleRequest.parent = None /\ IdleRequest.cell = None
    /\ IdleRequest.depth = 1 /\ IdleRequest.filter = Open /\ IdleRequest.todo = {}
    /\ IdleRequest.reached = FALSE /\ IdleRequest.failed = FALSE
  BY DEF IdleRequest

LEMMA IdleTyped == IdleRequest \in Request
  BY FiltersAssumption, Zenon DEF IdleRequest, Request, PCs, Depths

LEMMA FieldTypes ==
    ASSUME NEW q \in Request
    PROVE  /\ q.kind \in Kinds \cup {None} /\ q.pc \in PCs /\ q.p \in Projects \cup {None}
           /\ q.b \in BranchIds \cup {None} /\ q.parent \in BranchIds \cup {None}
           /\ q.cell \in Cells \cup {None} /\ q.depth \in Depths /\ q.filter \in Filters
           /\ q.todo \in SUBSET BranchIds /\ q.reached \in BOOLEAN /\ q.failed \in BOOLEAN
  BY Zenon DEF Request

(* q is the request old at another step. *)
Moved(q, old, pc) ==
    /\ q.pc = pc /\ q.kind = old.kind /\ q.p = old.p /\ q.b = old.b /\ q.parent = old.parent
    /\ q.cell = old.cell /\ q.depth = old.depth /\ q.filter = old.filter /\ q.todo = old.todo
    /\ q.reached = old.reached /\ q.failed = old.failed

LEMMA GotoIs ==
    ASSUME StoreTypeOK, NEW r \in Requests, NEW pc \in PCs, Goto(r, pc)
    PROVE  \E q \in Request : req' = [req EXCEPT ![r] = q] /\ Moved(q, req[r], pc)
<1>1. req \in [Requests -> Request] /\ req[r] \in Request
  BY DEF StoreTypeOK
<1>2. req' = [req EXCEPT ![r] = [req[r] EXCEPT !.pc = pc]]
  BY <1>1 DEF Goto
<1>3. PICK q : q = [req[r] EXCEPT !.pc = pc]
  BY Zenon
<1>4. q \in Request /\ Moved(q, req[r], pc)
  BY <1>1, <1>3 DEF Request, Moved
<1> QED
  BY Zenon, <1>2, <1>3, <1>4

-----------------------------------------------------------------------------
(* Steps that change nothing but their request *)

InFlightPCs == {"trylock"} \cup SharedPCs

LEMMA Finite ==
    /\ \A p : IsFiniteSet(ActiveBranches(p)) /\ IsFiniteSet(InFlight(p))
    /\ IsFiniteSet(Creators) /\ IsFiniteSet(ActiveProjects)
  BY IDsAssumption, FS_Subset DEF ActiveBranches, InFlight, On, Creators, ActiveProjects

LEMMA Smaller ==
    ASSUME NEW S, NEW T, IsFiniteSet(T), S \subseteq T
    PROVE  Cardinality(S) \in Nat /\ Cardinality(T) \in Nat /\ Cardinality(S) <= Cardinality(T)
  BY FS_Subset, FS_CardinalityType

(* No more active branches and no more creations: the bound holds on. *)
LEMMA OvershootKept ==
    ASSUME BranchOvershoot, StoreTypeOK,
           \A p \in Projects : ActiveBranches(p)' \subseteq ActiveBranches(p) /\ InFlight(p)' \subseteq InFlight(p)
    PROVE  BranchOvershoot'
<1> SUFFICES ASSUME Creators # {}, NEW p \in Projects
             PROVE  Cardinality(ActiveBranches(p)') + Cardinality(InFlight(p)')
                      <= MaxBranches - 1 + Cardinality(Creators)
  BY DEF BranchOvershoot, Creators
<1>1. /\ Cardinality(ActiveBranches(p)') \in Nat /\ Cardinality(ActiveBranches(p)) \in Nat
      /\ Cardinality(ActiveBranches(p)') <= Cardinality(ActiveBranches(p))
  BY Finite, Smaller
<1>2. /\ Cardinality(InFlight(p)') \in Nat /\ Cardinality(InFlight(p)) \in Nat
      /\ Cardinality(InFlight(p)') <= Cardinality(InFlight(p))
  BY Finite, Smaller
<1>3. Cardinality(Creators) \in Nat /\ MaxBranches \in Nat
  BY Finite, FS_CardinalityType, LimitsAssumption
<1>4. Cardinality(ActiveBranches(p)) + Cardinality(InFlight(p)) <= MaxBranches - 1 + Cardinality(Creators)
  BY DEF BranchOvershoot
<1> QED
  BY <1>1, <1>2, <1>3, <1>4

(* A step that changes nothing but its own request keeps the invariant if the    *)
(* request is as it should be, by itself and among the others.                    *)
LEMMA RequestStep ==
    ASSUME IInv, NEW r \in Requests, NEW q \in Request, req' = [req EXCEPT ![r] = q],
           UNCHANGED <<store, cells, ghosts>>, storeFaults' \in Nat,
           Fits(q), q.kind = "createBranch" => r \in Creators,
           \A s \in Requests : s # r => Apart(q, req[s]) /\ Apart(req[s], q),
           req[r].reached => q.reached /\ q.p = req[r].p,
           BranchOvershoot'
    PROVE  IInv'
<1>1. /\ project' = project /\ branches' = branches /\ clusters' = clusters /\ entry' = entry
      /\ acked' = acked /\ dirty' = dirty
  BY DEF store, cells, ghosts
<1>2. /\ req' \in [Requests -> Request] /\ req'[r] = q
      /\ \A s \in Requests : s # r => req'[s] = req[s]
  BY DEF IInv, StoreTypeOK
<1>3. StoreTypeOK'
  BY <1>1, <1>2 DEF IInv, StoreTypeOK
<1>4. Rows' /\ AckedIsDeleted' /\ ProjectLimit' /\ DeletedIsGone'
  BY <1>1 DEF IInv, Rows, AckedIsDeleted, ProjectLimit, DeletedIsGone, ActiveProjects
<1>5. Pairs'
  BY <1>2 DEF IInv, Pairs
<1>6. ASSUME NEW s \in Requests PROVE Good(s)'
  <2>1. Fits(req'[s]) /\ (req'[s].kind = "createBranch" => s \in Creators)
    BY <1>2 DEF IInv, Good
  <2>2. ActiveProjects' = ActiveProjects /\ \A p : ActiveBranches(p)' = ActiveBranches(p)
    BY <1>1 DEF ActiveProjects, ActiveBranches
  <2>3. WellFormed(req[s])' /\ Known(req[s])'
    BY ZenonT(60), <1>1, <2>1 DEF Fits, WellFormed, Known
  <2>4. Allowed(req[s])' /\ Removed(req[s])'
    BY <1>1, <2>1, <2>2 DEF Fits, Allowed, Removed
  <2>5. Filtered(req[s])'
    BY <1>1, <2>1, <2>2 DEF Fits, Filtered, Effective
  <2> QED
    BY <2>1, <2>3, <2>4, <2>5 DEF Good, Fits, Creators
<1>7. FilterInForce'
  <2>1. \A p : ActiveBranches(p)' = ActiveBranches(p)
    BY <1>1 DEF ActiveBranches
  <2>2. ASSUME NEW p \in Projects, Applying(p) PROVE Applying(p)'
    <3>1. PICK s \in Requests : req[s].p = p /\ req[s].kind = "updateProject" /\ req[s].reached
      BY <2>2 DEF Applying, On
    <3>2. req'[s].p = p /\ req'[s].reached
      BY <1>2, <3>1
    <3>3. req'[s].kind = "updateProject"
      <4>1. req'[s].pc \in {"setcell", "commitupdate"} /\ WellFormed(req'[s])
        BY <1>6, <3>2 DEF Good, Fits, WellFormed
      <4> QED
        BY <4>1 DEF WellFormed, UpdatePCs
    <3> QED
      BY <3>2, <3>3 DEF Applying, On
  <2> QED
    BY <1>1, <2>1, <2>2 DEF IInv, FilterInForce
<1> QED
  BY <1>3, <1>4, <1>5, <1>6, <1>7 DEF IInv

(* The same, for a request that does not begin to be counted. *)
LEMMA PlainStep ==
    ASSUME IInv, NEW r \in Requests, NEW q \in Request, req' = [req EXCEPT ![r] = q],
           UNCHANGED <<store, cells, ghosts>>, storeFaults' \in Nat,
           Fits(q), q.kind = "createBranch" => r \in Creators,
           \A s \in Requests : s # r => Apart(q, req[s]) /\ Apart(req[s], q),
           req[r].reached => q.reached /\ q.p = req[r].p,
           q.pc \in InFlightPCs => req[r].pc \in InFlightPCs /\ q.p = req[r].p
    PROVE  IInv'
<1>1. /\ req \in [Requests -> Request] /\ req'[r] = q
      /\ \A s \in Requests : s # r => req'[s] = req[s]
  BY DEF IInv, StoreTypeOK
<1>2. \A p \in Projects : ActiveBranches(p)' = ActiveBranches(p)
  BY DEF ActiveBranches, store
<1>3. WellFormed(q) /\ WellFormed(req[r])
  BY DEF Fits, IInv, Good
<1>4. \A p \in Projects : InFlight(p)' \subseteq InFlight(p)
  BY <1>1, <1>3 DEF InFlight, On, At, InFlightPCs, SharedPCs, ProvisionPCs, WellFormed, CreatePCs
<1>5. BranchOvershoot'
  BY <1>2, <1>4, OvershootKept DEF IInv
<1> QED
  BY Zenon, <1>5, RequestStep

(* A request that has no lock it did not have before. *)
Keeps(n, q) ==
    /\ n.p = q.p /\ n.b = q.b
    /\ n.pc \in ProjectPCs => q.pc \in ProjectPCs
    /\ n.pc \in CreatePCs => q.pc \in CreatePCs
    /\ n.pc \in {"limits", "insert"} => q.pc \in {"limits", "insert"}
    /\ Shared(n) => Shared(q)
    /\ Exclusive(n) => Exclusive(q)

LEMMA KeepsApart ==
    ASSUME NEW n, NEW q, NEW o, Keeps(n, q), Apart(q, o), Apart(o, q)
    PROVE  Apart(n, o) /\ Apart(o, n)
  BY DEF Keeps, Apart

LEMMA IdleApart ==
    ASSUME NEW o, WellFormed(o)
    PROVE  Apart(IdleRequest, o) /\ Apart(o, IdleRequest)
<1>1. ~Exclusive(IdleRequest) /\ ~Shared(IdleRequest)
  BY IdleFields DEF Exclusive, Shared, SharedPCs, ProvisionPCs, UpdatePCs
<1>2. IdleRequest.pc \notin ProjectPCs \cup CreatePCs \cup {"limits", "insert"}
  BY IdleFields DEF ProjectPCs, CreatePCs, SharedPCs, ProvisionPCs
<1>3. o.pc \in ProjectPCs => o.p # None
  BY IDsAssumption DEF WellFormed, ProjectPCs
<1>4. o.pc \in CreatePCs => o.b # None
  BY IDsAssumption DEF WellFormed
<1> QED
  BY <1>1, <1>2, <1>3, <1>4, IdleFields DEF Apart

LEMMA IdleFits == WellFormed(IdleRequest) /\ Fits(IdleRequest)
<1>1. None \notin Kinds
  BY IDsAssumption
<1>2. WellFormed(IdleRequest)
  BY <1>1, IdleFields
  DEF WellFormed, Kinds, ProjectPCs, CreatePCs, UpdatePCs, DeletePCs, SharedPCs, ProvisionPCs
<1>3. Known(IdleRequest) /\ Allowed(IdleRequest) /\ Removed(IdleRequest) /\ Filtered(IdleRequest)
  BY IdleFields
  DEF Known, Allowed, Removed, Filtered, ProjectPCs, CreatePCs, DeletePCs, SharedPCs, ProvisionPCs
<1> QED
  BY <1>2, <1>3 DEF Fits

(* A request that has set nothing on any cell may return. *)
LEMMA ReturnStep ==
    ASSUME IInv, NEW r \in Requests, Return(r), ~req[r].reached,
           UNCHANGED <<store, cells, ghosts>>, storeFaults' \in Nat
    PROVE  IInv'
<1>1. IdleRequest \in Request /\ req' = [req EXCEPT ![r] = IdleRequest]
  BY IdleTyped DEF Return
<1>2. Fits(IdleRequest) /\ IdleRequest.kind # "createBranch"
  BY IdleFits, IdleFields, IDsAssumption DEF Kinds
<1>3. \A s \in Requests : s # r => Apart(IdleRequest, req[s]) /\ Apart(req[s], IdleRequest)
  BY IdleApart DEF IInv, Good, Fits
<1>4. IdleRequest.pc \notin InFlightPCs
  BY IdleFields DEF InFlightPCs, SharedPCs, ProvisionPCs
<1> QED
  BY Zenon, <1>1, <1>2, <1>3, <1>4, PlainStep

(* A request may go on if it takes no lock and is as it should be. *)
LEMMA KeepStep ==
    ASSUME IInv, NEW r \in Requests, NEW q \in Request, req' = [req EXCEPT ![r] = q],
           UNCHANGED <<store, cells, ghosts>>, storeFaults' \in Nat,
           Fits(q), q.kind = req[r].kind, Keeps(q, req[r]),
           req[r].reached => q.reached,
           q.pc \in InFlightPCs => req[r].pc \in InFlightPCs
    PROVE  IInv'
<1>1. \A s \in Requests : s # r => Apart(q, req[s]) /\ Apart(req[s], q)
  BY KeepsApart DEF IInv, Pairs
<1>2. q.kind = "createBranch" => r \in Creators
  BY Zenon DEF IInv, Good
<1>3. q.p = req[r].p
  BY DEF Keeps
<1> QED
  BY Zenon, <1>1, <1>2, <1>3, PlainStep

LEMMA GotoStep ==
    ASSUME IInv, NEW r \in Requests, NEW pc \in PCs, Goto(r, pc),
           UNCHANGED <<store, cells, ghosts>>, storeFaults' \in Nat,
           \A q \in Request : Moved(q, req[r], pc) => Fits(q) /\ Keeps(q, req[r]),
           pc \in InFlightPCs => req[r].pc \in InFlightPCs
    PROVE  IInv'
<1>1. PICK q \in Request : req' = [req EXCEPT ![r] = q] /\ Moved(q, req[r], pc)
  BY GotoIs DEF IInv
<1> QED
  BY Zenon, <1>1, KeepStep DEF Moved

-----------------------------------------------------------------------------
(* Creation of projects, up to the insert *)

USE DEF ProjectPCs, CreatePCs, SharedPCs, ProvisionPCs, UpdatePCs, DeletePCs

LEMMA StartCreateProjectInv ==
    ASSUME IInv, NEW r \in Requests, StartCreateProject(r) PROVE IInv'
<1>1. PICK p \in Projects, f \in Filters :
        /\ project[p].status = "none"
        /\ On(p) = {}
        /\ req' = [req EXCEPT ![r] = [IdleRequest EXCEPT !.kind = "createProject", !.pc = "orglock", !.p = p, !.filter = f]]
  BY Zenon DEF StartCreateProject
<1>2. PICK q : q = [IdleRequest EXCEPT !.kind = "createProject", !.pc = "orglock", !.p = p, !.filter = f]
  OBVIOUS
<1>3. /\ q \in Request /\ q.kind = "createProject" /\ q.pc = "orglock" /\ q.p = p /\ q.b = None
      /\ q.todo = {} /\ q.reached = FALSE
  BY Zenon, <1>2, IdleTyped, IdleFields DEF Request, Kinds, PCs
<1>4. Fits(q)
  BY <1>1, <1>3
  DEF Fits, WellFormed, Known, Allowed, Removed, Filtered
<1>5. ASSUME NEW s \in Requests, s # r PROVE Apart(q, req[s]) /\ Apart(req[s], q)
  <2>1. req[s].p # p /\ WellFormed(req[s])
    BY <1>1 DEF On, IInv, Good, Fits
  <2>2. req[s].pc \in CreatePCs => req[s].b # None
    BY <2>1, IDsAssumption DEF WellFormed
  <2> QED
    BY <1>3, <2>1, <2>2
    DEF Apart, Exclusive, Shared
<1>6. ~req[r].reached
  BY IdleFields DEF StartCreateProject, IInv, Good, Fits, WellFormed
<1> QED
  BY Zenon, <1>1, <1>2, <1>3, <1>4, <1>5, <1>6, PlainStep
  DEF StartCreateProject, InFlightPCs, IInv, StoreTypeOK

LEMMA TakeOrgLockInv ==
    ASSUME IInv, NEW r \in Requests, TakeOrgLock(r) PROVE IInv'
<1>1. PICK q \in Request : req' = [req EXCEPT ![r] = q] /\ Moved(q, req[r], "limits")
  BY GotoIs DEF TakeOrgLock, IInv, PCs
<1>2. Fits(req[r]) /\ req[r].pc = "orglock" /\ (q.kind = "createBranch" => r \in Creators)
  BY <1>1 DEF IInv, Good, TakeOrgLock, Moved
<1>3. Fits(q)
  BY ZenonT(60), <1>1, <1>2
  DEF Fits, Moved, WellFormed, Known, Allowed, Removed, Filtered
<1>4. ASSUME NEW s \in Requests, s # r PROVE Apart(q, req[s]) /\ Apart(req[s], q)
  <2>1. Apart(req[r], req[s]) /\ Apart(req[s], req[r]) /\ WellFormed(req[s])
    BY <1>4 DEF IInv, Pairs, Good, Fits
  <2>2. req[s].pc \notin {"limits", "insert"}
    BY <2>1 DEF TakeOrgLock, OrgLockHolders, At, WellFormed
  <2> QED
    BY <1>1, <1>2, <2>1, <2>2
    DEF Moved, Apart, Exclusive, Shared
<1> QED
  BY Zenon, <1>1, <1>2, <1>3, <1>4, PlainStep
  DEF TakeOrgLock, Moved, InFlightPCs, IInv, StoreTypeOK

LEMMA CheckProjectLimitsInv ==
    ASSUME IInv, NEW r \in Requests, CheckProjectLimits(r) PROVE IInv'
<1>1. /\ Fits(req[r]) /\ req[r].pc = "limits" /\ storeFaults' \in Nat
      /\ UNCHANGED <<store, cells, ghosts>>
  BY DEF IInv, Good, CheckProjectLimits, StoreTypeOK
<1>2. CASE Return(r)
  BY <1>1, <1>2, ReturnStep DEF Fits, WellFormed
<1>3. CASE Goto(r, "insert") /\ (MaxProjects # 0 => Cardinality(ActiveProjects) < MaxProjects)
  <2>1. ASSUME NEW q \in Request, Moved(q, req[r], "insert") PROVE Fits(q) /\ Keeps(q, req[r])
    BY ZenonT(60), <1>1, <1>3, <2>1
    DEF Moved, Fits, WellFormed, Known, Allowed, Removed, Filtered, Keeps, Exclusive, Shared
  <2> QED
    BY <1>1, <1>3, <2>1, GotoStep DEF PCs, InFlightPCs
<1> QED
  BY <1>2, <1>3 DEF CheckProjectLimits

-----------------------------------------------------------------------------
(* Creation of branches, up to the cluster *)

LEMMA StartCreateBranchInv ==
    ASSUME IInv, NEW r \in Requests, StartCreateBranch(r) PROVE IInv'
<1>1. PICK b \in BranchIds, p \in ActiveProjects :
        \E parent \in ActiveBranches(p) \cup {None} :
          \E c \in IF parent = None THEN Cells ELSE {branches[parent].cell} :
            /\ Unused(b)
            /\ req' = [req EXCEPT ![r] = [IdleRequest EXCEPT !.kind = "createBranch", !.pc = "branchlimits", !.p = p,
                 !.b = b, !.parent = parent, !.cell = c, !.filter = project[p].filter]]
  BY Zenon DEF StartCreateBranch
<1>2. PICK parent \in ActiveBranches(p) \cup {None} :
          \E c \in IF parent = None THEN Cells ELSE {branches[parent].cell} :
            /\ Unused(b)
            /\ req' = [req EXCEPT ![r] = [IdleRequest EXCEPT !.kind = "createBranch", !.pc = "branchlimits", !.p = p,
                 !.b = b, !.parent = parent, !.cell = c, !.filter = project[p].filter]]
  BY Zenon, <1>1
<1>3. PICK c \in IF parent = None THEN Cells ELSE {branches[parent].cell} :
            /\ Unused(b)
            /\ req' = [req EXCEPT ![r] = [IdleRequest EXCEPT !.kind = "createBranch", !.pc = "branchlimits", !.p = p,
                 !.b = b, !.parent = parent, !.cell = c, !.filter = project[p].filter]]
  BY Zenon, <1>2
<1>4. PICK q : q = [IdleRequest EXCEPT !.kind = "createBranch", !.pc = "branchlimits", !.p = p,
                 !.b = b, !.parent = parent, !.cell = c, !.filter = project[p].filter]
  OBVIOUS
<1>5. /\ p \in Projects /\ project[p].status = "active" /\ project[p].filter \in Filters
      /\ parent \in BranchIds \cup {None}
  BY DEF ActiveProjects, ActiveBranches, IInv, StoreTypeOK
<1>6. c \in Cells \cup {None}
  BY <1>5 DEF IInv, StoreTypeOK, ActiveBranches
<1>7. /\ q \in Request /\ q.kind = "createBranch" /\ q.pc = "branchlimits" /\ q.p = p /\ q.b = b
      /\ q.todo = {} /\ q.reached = FALSE
  BY Zenon, <1>4, <1>5, <1>6, IdleTyped, IdleFields DEF Request, Kinds, PCs
<1>8. Fits(q)
  BY <1>3, <1>5, <1>7 DEF Unused, Fits, WellFormed, Known, Allowed, Removed, Filtered
<1>9. ASSUME NEW s \in Requests, s # r PROVE Apart(q, req[s]) /\ Apart(req[s], q)
  <2>1. req[s].b # b /\ WellFormed(req[s]) /\ Known(req[s])
    BY <1>3 DEF Unused, IInv, Good, Fits
  <2>2. req[s].pc \in ProjectPCs => req[s].p # p
    BY ZenonT(60), <1>5, <2>1 DEF Known
  <2> QED
    BY ZenonT(60), <1>7, <2>1, <2>2 DEF Apart, Exclusive, Shared
<1>10. ~req[r].reached /\ r \in Creators
  BY IdleFields DEF StartCreateBranch, IInv, Good, Fits, WellFormed, Creators
<1> QED
  BY Zenon, <1>3, <1>4, <1>7, <1>8, <1>9, <1>10, PlainStep
  DEF StartCreateBranch, InFlightPCs, IInv, StoreTypeOK

LEMMA CheckBranchLimitsInv ==
    ASSUME IInv, NEW r \in Requests, CheckBranchLimits(r) PROVE IInv'
<1>1. /\ Fits(req[r]) /\ req[r].pc = "branchlimits" /\ storeFaults' \in Nat /\ r \in Creators
      /\ UNCHANGED <<store, cells, ghosts>>
  BY Zenon DEF IInv, Good, Fits, WellFormed, CheckBranchLimits, StoreTypeOK
<1>2. CASE Return(r)
  BY Zenon, <1>1, <1>2, ReturnStep DEF Fits, WellFormed
<1>3. CASE Goto(r, "trylock") /\ Cardinality(ActiveBranches(req[r].p)) < MaxBranches
  <2>1. PICK q \in Request : req' = [req EXCEPT ![r] = q] /\ Moved(q, req[r], "trylock")
    BY <1>3, GotoIs DEF IInv, PCs
  <2>2. Fits(q) /\ Keeps(q, req[r])
    BY Zenon, <1>1, <2>1
    DEF Moved, Fits, WellFormed, Known, Allowed, Removed, Filtered, Keeps, Exclusive, Shared
  <2>3. \A s \in Requests : s # r => Apart(q, req[s]) /\ Apart(req[s], q)
    BY <2>2, KeepsApart DEF IInv, Pairs
  <2>4. /\ req'[r] = q /\ \A s \in Requests : s # r => req'[s] = req[s]
    BY <2>1 DEF IInv, StoreTypeOK
  <2>5. \A p \in Projects : ActiveBranches(p)' = ActiveBranches(p)
    BY <1>1 DEF ActiveBranches, store
  <2>6. ASSUME Creators # {}, NEW p \in Projects
        PROVE  Cardinality(ActiveBranches(p)') + Cardinality(InFlight(p)') <= MaxBranches - 1 + Cardinality(Creators)
    <3>1. /\ Cardinality(ActiveBranches(p)) \in Nat /\ Cardinality(Creators) \in Nat /\ MaxBranches \in Nat
          /\ Cardinality(InFlight(p)) \in Nat
      BY Finite, FS_CardinalityType, LimitsAssumption
    <3>2. CASE p = req[r].p
      <4>1. InFlight(p)' \subseteq Creators
        BY <1>1, <2>4 DEF InFlight, At, On, IInv, Good
      <4>2. Cardinality(InFlight(p)') \in Nat /\ Cardinality(InFlight(p)') <= Cardinality(Creators)
        BY <4>1, Finite, Smaller
      <4> QED
        BY <1>3, <2>5, <3>1, <3>2, <4>2
    <3>3. CASE p # req[r].p
      <4>1. InFlight(p)' = InFlight(p)
        BY <2>1, <2>4, <3>3 DEF InFlight, At, On, Moved
      <4> QED
        BY <2>5, <2>6, <4>1 DEF IInv, BranchOvershoot
    <3> QED
      BY <3>2, <3>3
  <2>7. BranchOvershoot'
    BY <2>6 DEF BranchOvershoot, Creators
  <2> QED
    BY Zenon, <1>1, <2>1, <2>2, <2>3, <2>7, RequestStep DEF Moved
<1> QED
  BY ZenonT(60), <1>2, <1>3 DEF CheckBranchLimits

(* Who holds the project lock. *)
LEMMA HoldersAre ==
    ASSUME IInv, NEW s \in Requests
    PROVE  /\ Exclusive(req[s]) => s \in ExclusiveHolders(req[s].p)
           /\ Shared(req[s]) => s \in SharedHolders(req[s].p)
<1>1. WellFormed(req[s]) /\ req[s].pc \in PCs
  BY FieldTypes DEF IInv, Good, Fits, StoreTypeOK
<1> QED
  BY <1>1 DEF Exclusive, Shared, ExclusiveHolders, SharedHolders, On, At, WellFormed

LEMMA TrySharedInv ==
    ASSUME IInv, NEW r \in Requests, TryShared(r) PROVE IInv'
<1>1. /\ Fits(req[r]) /\ req[r].pc = "trylock" /\ storeFaults' \in Nat
      /\ UNCHANGED <<store, cells, ghosts>>
  BY DEF IInv, Good, TryShared, StoreTypeOK
<1>2. CASE Return(r)
  BY ZenonT(60), <1>1, <1>2, ReturnStep DEF Fits, WellFormed
<1>3. CASE Goto(r, "insertbranch") /\ ExclusiveHolders(req[r].p) = {}
  <2>1. PICK q \in Request : req' = [req EXCEPT ![r] = q] /\ Moved(q, req[r], "insertbranch")
    BY <1>3, GotoIs DEF IInv, PCs
  <2>2. Fits(q)
    BY ZenonT(60), <1>1, <2>1 DEF Moved, Fits, WellFormed, Known, Allowed, Removed, Filtered
  <2>3. ASSUME NEW s \in Requests, s # r PROVE Apart(q, req[s]) /\ Apart(req[s], q)
    <3>1. Apart(req[r], req[s]) /\ Apart(req[s], req[r])
      BY <2>3 DEF IInv, Pairs
    <3>2. req[s].p = req[r].p => ~Exclusive(req[s])
      BY <1>3, HoldersAre
    <3>3. ~Exclusive(q)
      BY ZenonT(60), <1>1, <2>1 DEF Moved, Exclusive, Fits, WellFormed
    <3> QED
      BY <1>1, <2>1, <3>1, <3>2, <3>3 DEF Moved, Apart
  <2>4. q.kind = "createBranch" => r \in Creators
    BY Zenon, <2>1 DEF Moved, IInv, Good
  <2> QED
    BY Zenon, <1>1, <2>1, <2>2, <2>3, <2>4, PlainStep DEF Moved, InFlightPCs
<1> QED
  BY <1>2, <1>3 DEF TryShared

LEMMA InsertBranchInv ==
    ASSUME IInv, NEW r \in Requests, InsertBranch(r) PROVE IInv'
<1>1. /\ Fits(req[r]) /\ req[r].pc = "insertbranch" /\ storeFaults' \in Nat
      /\ UNCHANGED <<store, cells, ghosts>> /\ req[r] \in Request
  BY DEF IInv, Good, InsertBranch, StoreTypeOK
<1>2. CASE Return(r)
  BY <1>1, <1>2, ReturnStep DEF Fits, WellFormed
<1>3. CASE ~Return(r)
  <2>1. PICK p, parent : p = req[r].p /\ parent = req[r].parent
    OBVIOUS
  <2>2. PICK depth : depth = IF parent = None THEN 1 ELSE branches[parent].depth + 1
    OBVIOUS
  <2>3. /\ p \in ActiveProjects
        /\ parent # None => parent \in ActiveBranches(p) /\ branches[parent].depth < MaxDepth
        /\ req' = [req EXCEPT ![r].pc = "provision", ![r].depth = depth, ![r].filter = project[p].filter]
    BY <1>3, <2>1, <2>2 DEF InsertBranch
  <2>4. PICK q : q = [req[r] EXCEPT !.pc = "provision", !.depth = depth, !.filter = project[p].filter]
    OBVIOUS
  <2>5. depth \in Depths
    BY <2>2, <2>3, LimitsAssumption DEF Depths, ActiveBranches, IInv, StoreTypeOK
  <2>6. p \in Projects /\ project[p].filter \in Filters /\ project[p].status = "active"
    BY <2>3 DEF ActiveProjects, IInv, StoreTypeOK
  <2>7. /\ q \in Request /\ q.kind = req[r].kind /\ q.pc = "provision" /\ q.p = p /\ q.b = req[r].b
        /\ q.filter = project[p].filter /\ q.todo = req[r].todo /\ q.reached = req[r].reached
    BY Zenon, <1>1, <2>1, <2>4, <2>5, <2>6 DEF Request, PCs
  <2>8. req' = [req EXCEPT ![r] = q]
    BY Zenon, <1>1, <2>3, <2>4 DEF IInv, StoreTypeOK
  <2>9. p \notin acked
    BY <2>6 DEF IInv, AckedIsDeleted
  <2>10. Fits(q) /\ Keeps(q, req[r])
    BY ZenonT(60), <1>1, <2>1, <2>6, <2>7, <2>9
    DEF Fits, WellFormed, Known, Allowed, Removed, Filtered, Keeps, Exclusive, Shared
  <2> QED
    BY Zenon, <1>1, <2>7, <2>8, <2>10, KeepStep DEF InFlightPCs
<1> QED
  BY <1>2, <1>3

-----------------------------------------------------------------------------
(* Updates of projects, up to the first cell *)

(* A new request on a project and a branch that exist. *)
LEMMA StartApart ==
    ASSUME IInv, NEW q, NEW s \in Requests,
           q.pc \notin ProjectPCs \cup CreatePCs, ~Exclusive(q), project[q.p].status # "none",
           q.b = None \/ branches[q.b].status # "none"
    PROVE  Apart(q, req[s]) /\ Apart(req[s], q)
<1>1. WellFormed(req[s]) /\ Known(req[s])
  BY DEF IInv, Good, Fits
<1>2. req[s].pc \in ProjectPCs => q.p # req[s].p
  BY <1>1 DEF Known
<1>3. req[s].pc \in CreatePCs => q.b # req[s].b
  BY ZenonT(60), <1>1, IDsAssumption DEF Known, WellFormed
<1>4. q.pc \notin {"limits", "insert"} /\ ~Shared(q)
  BY DEF Shared
<1> QED
  BY <1>2, <1>3, <1>4 DEF Apart

LEMMA StartUpdateProjectInv ==
    ASSUME IInv, NEW r \in Requests, StartUpdateProject(r) PROVE IInv'
<1>1. PICK p \in Projects, f \in Filters :
        /\ project[p].status # "none"
        /\ req' = [req EXCEPT ![r] = [IdleRequest EXCEPT !.kind = "updateProject", !.pc = "tryexclusive", !.p = p, !.filter = f]]
  BY Zenon DEF StartUpdateProject
<1>2. PICK q : q = [IdleRequest EXCEPT !.kind = "updateProject", !.pc = "tryexclusive", !.p = p, !.filter = f]
  OBVIOUS
<1>3. /\ q \in Request /\ q.kind = "updateProject" /\ q.pc = "tryexclusive" /\ q.p = p /\ q.b = None
      /\ q.todo = {} /\ q.reached = FALSE
  BY Zenon, <1>2, IdleTyped, IdleFields DEF Request, Kinds, PCs
<1>4. Fits(q)
  BY <1>1, <1>3 DEF Fits, WellFormed, Known, Allowed, Removed, Filtered
<1>5. \A s \in Requests : Apart(q, req[s]) /\ Apart(req[s], q)
  BY <1>1, <1>3, StartApart DEF Exclusive
<1>6. ~req[r].reached
  BY IdleFields DEF StartUpdateProject, IInv, Good, Fits, WellFormed
<1> QED
  BY Zenon, <1>1, <1>2, <1>3, <1>4, <1>5, <1>6, PlainStep
  DEF StartUpdateProject, InFlightPCs, IInv, StoreTypeOK

LEMMA TryExclusiveInv ==
    ASSUME IInv, NEW r \in Requests, TryExclusive(r) PROVE IInv'
<1>1. /\ Fits(req[r]) /\ req[r].pc = "tryexclusive" /\ storeFaults' \in Nat
      /\ UNCHANGED <<store, cells, ghosts>>
  BY DEF IInv, Good, TryExclusive, StoreTypeOK
<1>2. CASE Return(r)
  BY <1>1, <1>2, ReturnStep DEF Fits, WellFormed
<1>3. CASE Goto(r, "read") /\ SharedHolders(req[r].p) \cup ExclusiveHolders(req[r].p) = {}
  <2>1. PICK q \in Request : req' = [req EXCEPT ![r] = q] /\ Moved(q, req[r], "read")
    BY <1>3, GotoIs DEF IInv, PCs
  <2>2. Fits(q)
    BY Zenon, <1>1, <2>1 DEF Moved, Fits, WellFormed, Known, Allowed, Removed, Filtered
  <2>3. ASSUME NEW s \in Requests, s # r PROVE Apart(q, req[s]) /\ Apart(req[s], q)
    <3>1. Apart(req[r], req[s]) /\ Apart(req[s], req[r])
      BY <2>3 DEF IInv, Pairs
    <3>2. req[s].p = req[r].p => ~Exclusive(req[s]) /\ ~Shared(req[s])
      BY <1>3, HoldersAre
    <3> QED
      BY <1>1, <2>1, <3>1, <3>2 DEF Moved, Apart, Shared
  <2>4. q.kind # "createBranch"
    BY ZenonT(60), <1>1, <2>1 DEF Moved, Fits, WellFormed
  <2> QED
    BY Zenon, <1>1, <2>1, <2>2, <2>3, <2>4, PlainStep DEF Moved, InFlightPCs
<1> QED
  BY <1>2, <1>3 DEF TryExclusive

LEMMA ReadProjectInv ==
    ASSUME IInv, NEW r \in Requests, ReadProject(r) PROVE IInv'
<1>1. /\ Fits(req[r]) /\ req[r].pc = "read" /\ storeFaults' \in Nat
      /\ UNCHANGED <<store, cells, ghosts>>
  BY DEF IInv, Good, ReadProject, StoreTypeOK
<1>2. CASE Return(r)
  BY <1>1, <1>2, ReturnStep DEF Fits, WellFormed
<1>3. CASE Goto(r, "update")
  <2>1. ASSUME NEW q \in Request, Moved(q, req[r], "update") PROVE Fits(q) /\ Keeps(q, req[r])
    BY Zenon, <1>1, <2>1
    DEF Moved, Fits, WellFormed, Known, Allowed, Removed, Filtered, Keeps, Exclusive, Shared
  <2> QED
    BY <1>1, <1>3, <2>1, GotoStep DEF PCs, InFlightPCs
<1> QED
  BY <1>2, <1>3 DEF ReadProject

LEMMA UpdateRowInv ==
    ASSUME IInv, NEW r \in Requests, UpdateRow(r) PROVE IInv'
<1>1. /\ Fits(req[r]) /\ req[r].pc = "update" /\ storeFaults' \in Nat
      /\ UNCHANGED <<store, cells, ghosts>>
  BY DEF IInv, Good, UpdateRow, StoreTypeOK
<1>2. ASSUME NEW q \in Request, Moved(q, req[r], "list") PROVE Fits(q) /\ Keeps(q, req[r])
  BY Zenon, <1>1, <1>2
  DEF Moved, Fits, WellFormed, Known, Allowed, Removed, Filtered, Keeps, Exclusive, Shared
<1> QED
  BY Zenon, <1>1, <1>2, GotoStep DEF UpdateRow, PCs, InFlightPCs

LEMMA ListBranchesInv ==
    ASSUME IInv, NEW r \in Requests, ListBranches(r) PROVE IInv'
<1>1. /\ Fits(req[r]) /\ req[r].pc = "list" /\ storeFaults' \in Nat
      /\ UNCHANGED <<store, cells, ghosts>> /\ req[r] \in Request
  BY DEF IInv, Good, ListBranches, StoreTypeOK
<1>2. CASE Return(r)
  BY ZenonT(60), <1>1, <1>2, ReturnStep DEF Fits, WellFormed
<1>3. CASE ~Return(r)
  <2>1. PICK bs : bs = ActiveBranches(req[r].p)
    OBVIOUS
  <2>2. PICK pc : pc = IF bs = {} THEN "commitupdate" ELSE "setcell"
    OBVIOUS
  <2>3. req' = [req EXCEPT ![r].todo = bs, ![r].pc = pc]
    BY <1>3, <2>1, <2>2 DEF ListBranches
  <2>4. PICK q : q = [req[r] EXCEPT !.todo = bs, !.pc = pc]
    OBVIOUS
  <2>5. bs \in SUBSET BranchIds /\ pc \in PCs /\ pc \in {"commitupdate", "setcell"}
    BY <2>1, <2>2 DEF ActiveBranches, PCs
  <2>6. /\ q \in Request /\ q.kind = req[r].kind /\ q.pc = pc /\ q.p = req[r].p /\ q.b = req[r].b
        /\ q.filter = req[r].filter /\ q.todo = bs /\ q.reached = req[r].reached
    BY Zenon, <1>1, <2>4, <2>5 DEF Request
  <2>7. req' = [req EXCEPT ![r] = q]
    BY Zenon, <1>1, <2>3, <2>4 DEF IInv, StoreTypeOK
  <2>8. \A b \in bs : branches[b].status # "none" /\ branches[b].p = req[r].p
    BY <2>1 DEF ActiveBranches
  <2>9. WellFormed(q) /\ Known(q) /\ Allowed(q) /\ Removed(q)
    BY ZenonT(60), <1>1, <2>2, <2>5, <2>6, <2>8 DEF Fits, WellFormed, Known, Allowed, Removed
  <2>10. Filtered(q)
    BY ZenonT(60), <2>1, <2>5, <2>6 DEF Filtered
  <2>11. Keeps(q, req[r])
    BY <1>1, <2>5, <2>6 DEF Keeps, Exclusive, Shared
  <2> QED
    BY Zenon, <1>1, <2>5, <2>6, <2>7, <2>9, <2>10, <2>11, KeepStep DEF InFlightPCs, Fits
<1> QED
  BY <1>2, <1>3

-----------------------------------------------------------------------------
(* Deletions, apart from what they delete *)

LEMMA StartDeleteBranchInv ==
    ASSUME IInv, NEW r \in Requests, StartDeleteBranch(r) PROVE IInv'
<1>1. PICK b \in BranchIds :
        /\ branches[b].status # "none"
        /\ req' = [req EXCEPT ![r] = [IdleRequest EXCEPT !.kind = "deleteBranch", !.pc = "readbranch", !.p = branches[b].p, !.b = b]]
  BY Zenon DEF StartDeleteBranch
<1>2. PICK q : q = [IdleRequest EXCEPT !.kind = "deleteBranch", !.pc = "readbranch", !.p = branches[b].p, !.b = b]
  OBVIOUS
<1>3. branches[b].p \in Projects /\ project[branches[b].p].status # "none"
  BY <1>1 DEF IInv, Rows
<1>4. /\ q \in Request /\ q.kind = "deleteBranch" /\ q.pc = "readbranch" /\ q.p = branches[b].p /\ q.b = b
      /\ q.todo = {} /\ q.reached = FALSE
  BY Zenon, <1>2, <1>3, IdleTyped, IdleFields DEF Request, Kinds, PCs
<1>5. Fits(q)
  BY <1>1, <1>3, <1>4 DEF Fits, WellFormed, Known, Allowed, Removed, Filtered
<1>6. \A s \in Requests : Apart(q, req[s]) /\ Apart(req[s], q)
  BY <1>1, <1>3, <1>4, StartApart DEF Exclusive
<1>7. ~req[r].reached
  BY IdleFields DEF StartDeleteBranch, IInv, Good, Fits, WellFormed
<1> QED
  BY Zenon, <1>1, <1>2, <1>4, <1>5, <1>6, <1>7, PlainStep
  DEF StartDeleteBranch, InFlightPCs, IInv, StoreTypeOK

LEMMA StartDeleteProjectInv ==
    ASSUME IInv, NEW r \in Requests, StartDeleteProject(r) PROVE IInv'
<1>1. PICK p \in Projects, k \in Duties[r] \cap DOMAIN StartPC :
        /\ project[p].status # "none"
        /\ req' = [req EXCEPT ![r] = [IdleRequest EXCEPT !.kind = k, !.pc = StartPC[k], !.p = p]]
  BY Zenon DEF StartDeleteProject
<1>2. PICK pc : pc = StartPC[k]
  OBVIOUS
<1>3. /\ k \in {"deleteProject", "deleteProjectRPC", "deleteProjectsInOrg"}
      /\ pc \in {"checkempty", "waitlock", "listbranches"}
      /\ k = "deleteProjectRPC" => pc = "waitlock"
  BY <1>2 DEF StartPC
<1>4. PICK q : q = [IdleRequest EXCEPT !.kind = k, !.pc = pc, !.p = p]
  OBVIOUS
<1>5. /\ q \in Request /\ q.kind = k /\ q.pc = pc /\ q.p = p /\ q.b = None
      /\ q.todo = {} /\ q.reached = FALSE
  BY ZenonT(60), <1>3, <1>4, IdleTyped, IdleFields DEF Request, Kinds, PCs
<1>6. Fits(q)
  BY <1>1, <1>3, <1>5 DEF Fits, WellFormed, Known, Allowed, Removed, Filtered
<1>7. ~Exclusive(q) /\ q.pc \notin ProjectPCs \cup CreatePCs \cup InFlightPCs /\ q.kind # "createBranch"
  BY <1>3, <1>5 DEF Exclusive, InFlightPCs
<1>8. \A s \in Requests : Apart(q, req[s]) /\ Apart(req[s], q)
  BY <1>1, <1>5, <1>7, StartApart
<1>9. ~req[r].reached
  BY IdleFields DEF StartDeleteProject, IInv, Good, Fits, WellFormed
<1> QED
  BY Zenon, <1>1, <1>2, <1>4, <1>5, <1>6, <1>7, <1>8, <1>9, PlainStep
  DEF StartDeleteProject, IInv, StoreTypeOK

LEMMA WaitLockInv ==
    ASSUME IInv, NEW r \in Requests, WaitLock(r) PROVE IInv'
<1>1. /\ Fits(req[r]) /\ req[r].pc = "waitlock" /\ storeFaults' \in Nat
      /\ UNCHANGED <<store, cells, ghosts>>
  BY DEF IInv, Good, WaitLock, StoreTypeOK
<1>2. PICK q \in Request : req' = [req EXCEPT ![r] = q] /\ Moved(q, req[r], "listbranches")
  BY GotoIs DEF WaitLock, IInv, PCs
<1>3. Fits(q)
  BY Zenon, <1>1, <1>2 DEF Moved, Fits, WellFormed, Known, Allowed, Removed, Filtered
<1>4. ASSUME NEW s \in Requests, s # r PROVE Apart(q, req[s]) /\ Apart(req[s], q)
  <2>1. Apart(req[r], req[s]) /\ Apart(req[s], req[r])
    BY <1>4 DEF IInv, Pairs
  <2>2. req[s].p = req[r].p => ~Exclusive(req[s]) /\ ~Shared(req[s])
    BY ZenonT(60), HoldersAre DEF WaitLock
  <2> QED
    BY <1>1, <1>2, <2>1, <2>2 DEF Moved, Apart, Shared
<1>5. q.kind # "createBranch"
  BY ZenonT(60), <1>1, <1>2 DEF Moved, Fits, WellFormed
<1> QED
  BY Zenon, <1>1, <1>2, <1>3, <1>4, <1>5, PlainStep DEF Moved, InFlightPCs

LEMMA ListForDeletionInv ==
    ASSUME IInv, NEW r \in Requests, ListForDeletion(r) PROVE IInv'
<1>1. /\ Fits(req[r]) /\ req[r].pc = "listbranches" /\ storeFaults' \in Nat
      /\ UNCHANGED <<store, cells, ghosts>> /\ req[r] \in Request
  BY DEF IInv, Good, ListForDeletion, StoreTypeOK
<1>2. CASE Return(r)
  BY ZenonT(60), <1>1, <1>2, ReturnStep DEF Fits, WellFormed
<1>3. CASE ~Return(r)
  <2>1. PICK bs : bs = ActiveBranches(req[r].p)
    OBVIOUS
  <2>2. PICK pc : pc = IF bs = {} THEN "checkempty" ELSE "nextbranch"
    OBVIOUS
  <2>3. req' = [req EXCEPT ![r].todo = bs, ![r].pc = pc]
    BY <1>3, <2>1, <2>2 DEF ListForDeletion
  <2>4. PICK q : q = [req[r] EXCEPT !.todo = bs, !.pc = pc]
    OBVIOUS
  <2>5. bs \in SUBSET BranchIds /\ pc \in PCs /\ pc \in {"checkempty", "nextbranch"}
    BY <2>1, <2>2 DEF ActiveBranches, PCs
  <2>6. /\ q \in Request /\ q.kind = req[r].kind /\ q.pc = pc /\ q.p = req[r].p /\ q.b = req[r].b
        /\ q.filter = req[r].filter /\ q.todo = bs /\ q.reached = req[r].reached
    BY Zenon, <1>1, <2>4, <2>5 DEF Request
  <2>7. req' = [req EXCEPT ![r] = q]
    BY Zenon, <1>1, <2>3, <2>4 DEF IInv, StoreTypeOK
  <2>8. \A b \in bs : branches[b].status # "none" /\ branches[b].p = req[r].p
    BY <2>1 DEF ActiveBranches
  <2>9. Fits(q)
    BY ZenonT(60), <1>1, <2>5, <2>6, <2>8 DEF Fits, WellFormed, Known, Allowed, Removed, Filtered
  <2>10. Keeps(q, req[r])
    BY ZenonT(60), <1>1, <2>5, <2>6 DEF Keeps, Exclusive, Shared
  <2> QED
    BY Zenon, <1>1, <2>5, <2>6, <2>7, <2>9, <2>10, KeepStep DEF InFlightPCs
<1> QED
  BY <1>2, <1>3

LEMMA NextBranchOfInv ==
    ASSUME IInv, NEW r \in Requests, NextBranchOf(r) PROVE IInv'
<1>1. /\ Fits(req[r]) /\ req[r].pc = "nextbranch" /\ storeFaults' \in Nat
      /\ UNCHANGED <<store, cells, ghosts>> /\ req[r] \in Request
  BY DEF IInv, Good, NextBranchOf, StoreTypeOK
<1>2. PICK b \in req[r].todo : req' = [req EXCEPT ![r].b = b, ![r].pc = "readbranch"]
  BY Zenon DEF NextBranchOf
<1>3. PICK q : q = [req[r] EXCEPT !.b = b, !.pc = "readbranch"]
  OBVIOUS
<1>4. b \in BranchIds /\ branches[b].status # "none"
  BY <1>1, FieldTypes DEF Fits, Known
<1>5. /\ q \in Request /\ q.kind = req[r].kind /\ q.pc = "readbranch" /\ q.p = req[r].p /\ q.b = b
      /\ q.filter = req[r].filter /\ q.todo = req[r].todo /\ q.reached = req[r].reached
  BY Zenon, <1>1, <1>3, <1>4 DEF Request, PCs
<1>6. req' = [req EXCEPT ![r] = q]
  BY Zenon, <1>1, <1>2, <1>3 DEF IInv, StoreTypeOK
<1>7. Fits(q)
  BY Zenon, <1>1, <1>4, <1>5 DEF Fits, WellFormed, Known, Allowed, Removed, Filtered
<1>8. ASSUME NEW s \in Requests, s # r PROVE Apart(q, req[s]) /\ Apart(req[s], q)
  <2>1. Apart(req[r], req[s]) /\ Apart(req[s], req[r]) /\ Known(req[s])
    BY Zenon, <1>8 DEF IInv, Pairs, Good, Fits
  <2>2. req[s].pc \in CreatePCs => req[s].b # b
    BY ZenonT(60), <1>4, <2>1 DEF Known
  <2>3. (Exclusive(q) <=> Exclusive(req[r])) /\ ~Shared(q)
    BY <1>1, <1>5 DEF Exclusive, Shared
  <2> QED
    BY Zenon, <1>1, <1>5, <2>1, <2>2, <2>3 DEF Apart
<1>9. q.kind # "createBranch"
  BY <1>5, <1>7 DEF Fits, WellFormed
<1> QED
  BY Zenon, <1>1, <1>5, <1>6, <1>7, <1>8, <1>9, PlainStep DEF InFlightPCs

(* The deletion of a branch has ended: the request is over, or goes on without it. *)
Ended(q, old) ==
    \/ q = IdleRequest
    \/ /\ q.pc \in {"checkempty", "nextbranch"} /\ q.kind = old.kind /\ q.kind # "deleteBranch"
       /\ q.p = old.p /\ q.b = None /\ q.todo \subseteq old.todo /\ q.reached = old.reached

LEMMA EndBranchIs ==
    ASSUME StoreTypeOK, NEW r \in Requests, NEW err \in BOOLEAN, EndBranch(r, err)
    PROVE  \E q \in Request : req' = [req EXCEPT ![r] = q] /\ Ended(q, req[r])
<1>1. req \in [Requests -> Request] /\ req[r] \in Request
  BY DEF StoreTypeOK
<1>2. CASE Return(r)
  BY Zenon, <1>2, IdleTyped DEF Return, Ended
<1>3. CASE ~Return(r)
  <2>1. PICK left : left = req[r].todo \ {req[r].b}
    BY Zenon
  <2>2. PICK pc, failed : pc = (IF left = {} THEN "checkempty" ELSE "nextbranch") /\ failed = (req[r].failed \/ err)
    OBVIOUS
  <2>3. /\ req[r].kind # "deleteBranch"
        /\ req' = [req EXCEPT ![r].todo = left, ![r].b = None, ![r].failed = @ \/ err, ![r].pc = pc]
    BY Zenon, <1>3, <2>1, <2>2 DEF EndBranch
  <2>4. PICK q : q = [req[r] EXCEPT !.todo = left, !.b = None, !.failed = failed, !.pc = pc]
    OBVIOUS
  <2>5. left \in SUBSET BranchIds /\ pc \in PCs /\ failed \in BOOLEAN
    <3>1. failed \in BOOLEAN
      BY <2>2
    <3> QED
      BY <1>1, <2>1, <2>2, <3>1, FieldTypes DEF PCs
  <2>6. req' = [req EXCEPT ![r] = q]
    BY Zenon, <1>1, <2>2, <2>3, <2>4
  <2>7. q \in Request
    BY <1>1, <2>4, <2>5, Zenon DEF Request
  <2>8. /\ q.pc = pc /\ q.kind = req[r].kind /\ q.p = req[r].p /\ q.b = None /\ q.todo = left
        /\ q.reached = req[r].reached
    BY <1>1, <2>4 DEF Request
  <2>9. Ended(q, req[r])
    BY <2>1, <2>2, <2>3, <2>8 DEF Ended
  <2> QED
    BY Zenon, <2>6, <2>7, <2>9
<1> QED
  BY <1>2, <1>3

LEMMA EndedFits ==
    ASSUME NEW old, NEW q, Ended(q, old), old.pc \in DeletePCs, Fits(old)
    PROVE  /\ Fits(q) /\ ~old.reached /\ q.kind # "createBranch"
           /\ q.pc \in {"idle", "checkempty", "nextbranch"}
<1>1. ~old.reached
  BY DEF Fits, WellFormed
<1>2. CASE q = IdleRequest
  BY <1>1, <1>2, IdleFits, IdleFields, IDsAssumption DEF Kinds
<1>3. CASE q # IdleRequest
  BY ZenonT(60), <1>1, <1>3 DEF Ended, Fits, WellFormed, Known, Allowed, Removed, Filtered
<1> QED
  BY <1>2, <1>3

LEMMA EndedApart ==
    ASSUME NEW old, NEW q, NEW o, Ended(q, old), old.pc \in DeletePCs,
           Fits(o), Apart(old, o), Apart(o, old)
    PROVE  Apart(q, o) /\ Apart(o, q)
<1>1. CASE q = IdleRequest
  BY <1>1, IdleApart DEF Fits
<1>2. CASE q # IdleRequest
  <2>1. Exclusive(q) => Exclusive(old)
    BY <1>2 DEF Ended, Exclusive
  <2>2. ~Shared(q) /\ q.pc \notin ProjectPCs \cup CreatePCs /\ q.p = old.p /\ q.b = None
    BY <1>2 DEF Ended, Shared
  <2>3. o.pc \in CreatePCs => o.b # None
    BY ZenonT(60), IDsAssumption DEF Fits, WellFormed
  <2> QED
    BY <2>1, <2>2, <2>3 DEF Apart
<1> QED
  BY <1>1, <1>2

LEMMA ReadBranchInv ==
    ASSUME IInv, NEW r \in Requests, ReadBranch(r) PROVE IInv'
<1>1. /\ Fits(req[r]) /\ req[r].pc = "readbranch" /\ storeFaults' \in Nat
      /\ UNCHANGED <<store, cells, ghosts>>
  BY DEF IInv, Good, ReadBranch, StoreTypeOK
<1>2. CASE Goto(r, "mark")
  <2>1. ASSUME NEW q \in Request, Moved(q, req[r], "mark") PROVE Fits(q) /\ Keeps(q, req[r])
    BY Zenon, <1>1, <2>1
    DEF Moved, Fits, WellFormed, Known, Allowed, Removed, Filtered, Keeps, Exclusive, Shared
  <2> QED
    BY <1>1, <1>2, <2>1, GotoStep DEF PCs, InFlightPCs
<1>3. CASE EndBranch(r, req[r].p \notin ActiveProjects)
  <2>1. PICK q \in Request : req' = [req EXCEPT ![r] = q] /\ Ended(q, req[r])
    <3>1. (req[r].p \notin ActiveProjects) \in BOOLEAN
      OBVIOUS
    <3> QED
      BY Zenon, <1>3, <3>1, EndBranchIs DEF IInv
  <2>2. Fits(q) /\ q.kind # "createBranch" /\ ~req[r].reached
    BY <1>1, <2>1, EndedFits
  <2>3. \A s \in Requests : s # r => Apart(q, req[s]) /\ Apart(req[s], q)
    BY <1>1, <2>1, EndedApart DEF IInv, Pairs, Good
  <2>4. q.pc \notin InFlightPCs
    BY <2>1, IdleFields DEF Ended, InFlightPCs
  <2> QED
    BY Zenon, <1>1, <2>1, <2>2, <2>3, <2>4, PlainStep
<1> QED
  BY <1>2, <1>3 DEF ReadBranch

LEMMA MarkBranchInv ==
    ASSUME IInv, NEW r \in Requests, MarkBranch(r) PROVE IInv'
<1>1. /\ Fits(req[r]) /\ req[r].pc = "mark" /\ storeFaults' \in Nat
      /\ UNCHANGED <<store, cells, ghosts>>
  BY DEF IInv, Good, MarkBranch, StoreTypeOK
<1>2. ASSUME NEW q \in Request, Moved(q, req[r], "deprovision") PROVE Fits(q) /\ Keeps(q, req[r])
  BY Zenon, <1>1, <1>2
  DEF Moved, Fits, WellFormed, Known, Allowed, Removed, Filtered, Keeps, Exclusive, Shared
<1> QED
  BY ZenonT(60), <1>1, <1>2, GotoStep DEF MarkBranch, PCs, InFlightPCs

LEMMA CheckEmptyInv ==
    ASSUME IInv, NEW r \in Requests, CheckEmpty(r) PROVE IInv'
<1>1. /\ Fits(req[r]) /\ req[r].pc = "checkempty" /\ storeFaults' \in Nat
      /\ UNCHANGED <<store, cells, ghosts>>
  BY DEF IInv, Good, CheckEmpty, StoreTypeOK
<1>2. CASE Return(r)
  BY ZenonT(60), <1>1, <1>2, ReturnStep DEF Fits, WellFormed
<1>3. CASE Goto(r, "terminate") /\ ActiveBranches(req[r].p) = {}
  <2>1. ASSUME NEW q \in Request, Moved(q, req[r], "terminate") PROVE Fits(q) /\ Keeps(q, req[r])
    BY Zenon, <1>1, <1>3, <2>1
    DEF Moved, Fits, WellFormed, Known, Allowed, Removed, Filtered, Keeps, Exclusive, Shared
  <2> QED
    BY Zenon, <1>1, <1>3, <2>1, GotoStep DEF PCs, InFlightPCs
<1> QED
  BY Zenon, <1>2, <1>3 DEF CheckEmpty
===============================================================================
