------------------------- MODULE ProjectStoreProofs -------------------------
(***************************************************************************)
(* What the projects service promises of limits, deletions and IP filtering, *)
(* for any number of requests, projects, branches and cells, and any number  *)
(* of failed commits and RPCs.                                               *)
(***************************************************************************)
EXTENDS ProjectStepProofs

USE DEF ProjectPCs, CreatePCs, SharedPCs, ProvisionPCs, UpdatePCs, DeletePCs

-----------------------------------------------------------------------------
(* Steps that change the database or a cell *)

(* What a step of one request leaves of the others, whatever else it changes. *)
LEMMA Framed ==
    ASSUME IInv, NEW r \in Requests, NEW q \in Request, req' = [req EXCEPT ![r] = q],
           WellFormed(q), q.kind = "createBranch" => r \in Creators,
           \A s \in Requests : s # r => Apart(q, req[s]) /\ Apart(req[s], q)
    PROVE  /\ req' \in [Requests -> Request] /\ req'[r] = q
           /\ \A s \in Requests : s # r => req'[s] = req[s]
           /\ Pairs'
           /\ \A s \in Requests : WellFormed(req'[s]) /\ (req'[s].kind = "createBranch" => s \in Creators)
<1>1. /\ req' \in [Requests -> Request] /\ req'[r] = q
      /\ \A s \in Requests : s # r => req'[s] = req[s]
  BY DEF IInv, StoreTypeOK
<1>2. Pairs'
  BY <1>1 DEF IInv, Pairs
<1>3. \A s \in Requests : WellFormed(req'[s]) /\ (req'[s].kind = "createBranch" => s \in Creators)
  BY <1>1 DEF IInv, Good, Fits
<1> QED
  BY <1>1, <1>2, <1>3

LEMMA ReturnFramed ==
    ASSUME IInv, NEW r \in Requests, Return(r)
    PROVE  /\ req' \in [Requests -> Request] /\ req'[r] = IdleRequest
           /\ \A s \in Requests : s # r => req'[s] = req[s]
           /\ Pairs'
           /\ \A s \in Requests : WellFormed(req'[s]) /\ (req'[s].kind = "createBranch" => s \in Creators)
<1>1. IdleRequest \in Request /\ req' = [req EXCEPT ![r] = IdleRequest]
  BY IdleTyped DEF Return
<1>2. WellFormed(IdleRequest) /\ IdleRequest.kind # "createBranch"
  BY IdleFits, IdleFields, IDsAssumption DEF Kinds
<1>3. \A s \in Requests : s # r => Apart(IdleRequest, req[s]) /\ Apart(req[s], IdleRequest)
  BY IdleApart DEF IInv, Good, Fits
<1> QED
  BY Zenon, <1>1, <1>2, <1>3, Framed

LEMMA IdleFitsNext == Known(IdleRequest)' /\ Allowed(IdleRequest)' /\ Removed(IdleRequest)' /\ Filtered(IdleRequest)'
  BY Zenon, IdleFields DEF Known, Allowed, Removed, Filtered, IdleRequest

LEMMA FaultsCounted ==
    ASSUME IInv, StoreFault \/ UNCHANGED storeFaults PROVE storeFaults' \in Nat
  BY DEF StoreFault, IInv, StoreTypeOK

LEMMA GoodNext ==
    ASSUME NEW s \in Requests, NEW o, req'[s] = o, WellFormed(o), o.kind = "createBranch" => s \in Creators,
           Known(o)', Allowed(o)', Removed(o)', Filtered(o)'
    PROVE  Good(s)'
<1>1. WellFormed(req[s])'
  BY DEF WellFormed
<1>2. Known(req[s])' /\ Allowed(req[s])' /\ Removed(req[s])' /\ Filtered(req[s])'
  BY Zenon DEF Known, Allowed, Removed, Filtered
<1> QED
  BY <1>1, <1>2 DEF Good, Fits, Creators

(* An update that goes on is still one that is being applied. *)
LEMMA ApplyingKept ==
    ASSUME IInv, NEW r \in Requests, NEW p,
           \A s \in Requests : s # r => req'[s] = req[s],
           req[r].reached /\ req[r].p = p =>
             req'[r].reached /\ req'[r].p = p /\ req'[r].kind = req[r].kind,
           Applying(p)
    PROVE  Applying(p)'
<1>1. PICK s \in Requests : req[s].p = p /\ req[s].kind = "updateProject" /\ req[s].reached
  BY DEF Applying, On
<1>2. req'[s].p = p /\ req'[s].kind = "updateProject" /\ req'[s].reached
  BY <1>1
<1> QED
  BY <1>2 DEF Applying, On

LEMMA InFlightKept ==
    ASSUME IInv, NEW r \in Requests, \A s \in Requests : s # r => req'[s] = req[s],
           WellFormed(req'[r]),
           req'[r].pc \in InFlightPCs => req[r].pc \in InFlightPCs /\ req'[r].p = req[r].p
    PROVE  \A p \in Projects : InFlight(p)' \subseteq InFlight(p)
<1>1. WellFormed(req[r])
  BY DEF IInv, Good, Fits
<1> QED
  BY ZenonT(60), <1>1 DEF InFlight, On, At, InFlightPCs, WellFormed

(* What a request has on a cell, and another one's view of it: a new branch gets *)
(* something, or a branch loses it.                                               *)
LEMMA CellStep ==
    ASSUME IInv, NEW r \in Requests, NEW q \in Request, req' = [req EXCEPT ![r] = q],
           UNCHANGED <<store, ghosts>>, storeFaults' \in Nat,
           clusters' \subseteq BranchIds, entry' \in [BranchIds -> Filters \cup {None}],
           NEW b \in BranchIds, b = req[r].b,
           \A o \in BranchIds : o # b => (o \in clusters' <=> o \in clusters) /\ entry'[o] = entry[o],
           \/ req[r].pc \in CreatePCs
           \/ req[r].pc \in DeletePCs /\ clusters' \subseteq clusters /\ (b \notin clusters' \/ entry' = entry),
           WellFormed(q), Known(q), Removed(q)', Filtered(q)', q.pc # "insert",
           q.kind = "createBranch" => r \in Creators,
           \A s \in Requests : s # r => Apart(q, req[s]) /\ Apart(req[s], q),
           q.pc \in InFlightPCs => req[r].pc \in InFlightPCs /\ q.p = req[r].p
    PROVE  IInv'
<1>1. project' = project /\ branches' = branches /\ acked' = acked /\ dirty' = dirty
  BY DEF store, ghosts
<1>2. /\ req' \in [Requests -> Request] /\ req'[r] = q
      /\ \A s \in Requests : s # r => req'[s] = req[s]
      /\ Pairs'
      /\ \A s \in Requests : WellFormed(req'[s]) /\ (req'[s].kind = "createBranch" => s \in Creators)
  BY Zenon, Framed
<1>3. StoreTypeOK'
  BY <1>1, <1>2 DEF IInv, StoreTypeOK
<1>4. Rows' /\ AckedIsDeleted' /\ ProjectLimit'
  BY Zenon, <1>1 DEF IInv, Rows, AckedIsDeleted, ProjectLimit, ActiveProjects
<1>5. ActiveProjects' = ActiveProjects /\ \A p : ActiveBranches(p)' = ActiveBranches(p)
  BY Zenon, <1>1 DEF ActiveProjects, ActiveBranches
<1>6. BranchOvershoot'
  BY <1>2, <1>5, InFlightKept, OvershootKept DEF IInv
<1>7. Fits(req[r])
  BY DEF IInv, Good
<1>8. req[r].pc \in CreatePCs => branches[b].status = "none"
  BY Zenon, <1>7 DEF Fits, Known
<1>9. DeletedIsGone'
  BY <1>1, <1>8 DEF IInv, DeletedIsGone
(* No active branch that has a cluster is concerned. *)
<1>10. ASSUME NEW p, NEW o \in ActiveBranches(p) \cap clusters'
       PROVE  o \in clusters /\ entry'[o] = entry[o]
  BY <1>8 DEF ActiveBranches
<1>11. FilterInForce'
  <2>1. \A p \in Projects : Applying(p) => Applying(p)'
    BY Zenon, <1>2, <1>7, ApplyingKept DEF Fits, WellFormed
  <2>2. ASSUME NEW p \in Projects \ dirty, ~Applying(p)', NEW o \in ActiveBranches(p) \cap clusters'
        PROVE  Effective(entry'[o]) = project[p].filter
    <3>1. ~Applying(p) /\ o \in ActiveBranches(p) \cap clusters /\ entry'[o] = entry[o]
      BY <1>10, <2>1, <2>2
    <3> QED
      BY <3>1 DEF IInv, FilterInForce
  <2> QED
    BY Zenon, <1>1, <1>5, <2>2 DEF FilterInForce, Effective
<1>12. ASSUME NEW s \in Requests PROVE Good(s)'
  <2>1. CASE s = r
    <3>1. Known(q)' /\ Allowed(q)'
      BY <1>1 DEF Known, Allowed
    <3> QED
      BY <1>2, <2>1, <3>1, GoodNext
  <2>2. CASE s # r
    <3>1. PICK o \in Request : o = req[s]
      BY DEF IInv, StoreTypeOK
    <3>2. Fits(o) /\ req'[s] = o /\ Apart(req[r], o) /\ Apart(o, req[r]) /\ (o.kind = "createBranch" => s \in Creators)
      BY <1>2, <2>2, <3>1 DEF IInv, Good, Pairs
    <3>3. Known(o)' /\ Allowed(o)'
      BY Zenon, <1>1, <1>5, <3>2 DEF Fits, Known, Allowed
    <3>4. Removed(o)'
      <4>1. o.pc \in {"unfilter", "commitdelete"} => o.b \notin clusters'
        BY Zenon, <3>2 DEF Fits, Removed, Apart, WellFormed
      <4> QED
        BY Zenon, <1>1, <1>5, <3>2, <4>1 DEF Fits, Removed
    <3>5. Filtered(o)'
      <4>1. o.pc \in CreatePCs => entry'[o.b] = entry[o.b]
        BY Zenon, <3>2 DEF Apart, Fits, WellFormed
      <4>2. Filtered(o)
        BY <3>2 DEF Fits
      <4>3. ASSUME o.pc \in {"setcell", "commitupdate"}, NEW c \in ActiveBranches(o.p)' \cap clusters'
            PROVE  c \in o.todo \/ Effective(entry'[c]) = o.filter
        <5>1. c \in ActiveBranches(o.p) \cap clusters /\ entry'[c] = entry[c]
          BY <1>5, <1>10, <4>3
        <5> QED
          BY Zenon, <4>2, <4>3, <5>1 DEF Filtered
      <4>4. /\ o.pc \in ProvisionPCs => o.filter = project'[o.p].filter
            /\ o.pc \in CreatePCs \ {"commitbranch"} => entry'[o.b] = None
        BY <1>1, <4>1, <4>2 DEF Filtered
      <4>5. o.pc = "commitbranch" => Effective(entry'[o.b]) = o.filter
        BY <4>1, <4>2 DEF Filtered, CreatePCs
      <4> QED
        BY Zenon, <4>3, <4>4, <4>5 DEF Filtered, Effective
    <3> QED
      BY Zenon, <3>2, <3>3, <3>4, <3>5, GoodNext DEF Fits
  <2> QED
    BY <2>1, <2>2
<1> QED
  BY <1>2, <1>3, <1>4, <1>6, <1>9, <1>11, <1>12 DEF IInv

LEMMA InsertProjectInv ==
    ASSUME IInv, NEW r \in Requests, InsertProject(r) PROVE IInv'
<1>1. /\ Fits(req[r]) /\ req[r].pc = "insert" /\ Return(r) /\ ~req[r].reached /\ req[r] \in Request
      /\ branches' = branches /\ clusters' = clusters /\ entry' = entry
      /\ acked' = acked /\ dirty' = dirty /\ storeFaults' = storeFaults
  BY Zenon DEF IInv, Good, Fits, WellFormed, InsertProject, StoreTypeOK, cells, ghosts
<1>2. CASE project' = project
  BY <1>1, <1>2, ReturnStep DEF store, cells, ghosts, IInv, StoreTypeOK
<1>3. CASE project' = [project EXCEPT ![req[r].p] = [status |-> "active", filter |-> req[r].filter]]
  <2>1. PICK p : p = req[r].p
    OBVIOUS
  <2>2. p \in Projects /\ project[p].status = "none" /\ req[r].filter \in Filters
    BY Zenon, <1>1, <2>1, FieldTypes DEF Fits, WellFormed, Known
  <2>3. /\ project' \in [Projects -> [status : Status, filter : Filters]]
        /\ project'[p].status = "active"
        /\ \A o \in Projects : o # p => project'[o] = project[o]
    BY <1>3, <2>1, <2>2 DEF IInv, StoreTypeOK, Status
  <2>4. /\ req' \in [Requests -> Request] /\ req'[r] = IdleRequest
        /\ \A s \in Requests : s # r => req'[s] = req[s]
        /\ Pairs'
        /\ \A s \in Requests : WellFormed(req'[s]) /\ (req'[s].kind = "createBranch" => s \in Creators)
    BY <1>1, ReturnFramed
  <2>5. StoreTypeOK'
    BY <1>1, <2>3, <2>4 DEF IInv, StoreTypeOK
  <2>6. Rows' /\ AckedIsDeleted' /\ DeletedIsGone'
    BY SMTT(40), <1>1, <2>2, <2>3 DEF IInv, Rows, AckedIsDeleted, DeletedIsGone, StoreTypeOK
  <2>7. \A o : ActiveBranches(o)' = ActiveBranches(o)
    BY <1>1 DEF ActiveBranches
  <2>8. BranchOvershoot'
    BY <2>4, <2>7, IdleFields, InFlightKept, OvershootKept DEF IInv, InFlightPCs
  <2>9. ProjectLimit'
    <3>1. ActiveProjects' = ActiveProjects \cup {p} /\ p \notin ActiveProjects
      BY <2>2, <2>3 DEF ActiveProjects
    <3>2. Cardinality(ActiveProjects') = Cardinality(ActiveProjects) + 1 /\ Cardinality(ActiveProjects) \in Nat
      BY <3>1, Finite, FS_AddElement, FS_CardinalityType
    <3>3. MaxProjects # 0 => Cardinality(ActiveProjects) < MaxProjects
      BY <1>1 DEF Fits, Allowed
    <3> QED
      BY <3>2, <3>3, LimitsAssumption DEF ProjectLimit
  <2>10. FilterInForce'
    <3>1. \A o \in Projects : Applying(o) => Applying(o)'
      BY Zenon, <1>1, <2>4, ApplyingKept
    <3>2. ActiveBranches(p) = {}
      BY <2>2, IDsAssumption DEF ActiveBranches, IInv, Rows
    <3> QED
      BY SMTT(40), <1>1, <2>3, <2>7, <3>1, <3>2 DEF IInv, FilterInForce, Effective
  <2>11. ASSUME NEW s \in Requests PROVE Good(s)'
    <3>1. CASE s = r
      BY Zenon, <2>4, <3>1, IdleFitsNext DEF Good, Fits, WellFormed, Creators
    <3>2. CASE s # r
      <4>1. /\ Fits(req[s]) /\ req'[s] = req[s] /\ req[s].p # p /\ req[s].pc # "insert"
            /\ req[s].pc # "idle" => project'[req[s].p] = project[req[s].p]
        BY Zenon, <1>1, <2>1, <2>3, <2>4, <3>2 DEF IInv, Good, Pairs, Apart, Fits, WellFormed
      <4>2. Known(req[s])' /\ Allowed(req[s])'
        BY Zenon, <1>1, <4>1 DEF Fits, Known, Allowed
      <4>3. Removed(req[s])'
        BY Zenon, <1>1, <2>7, <4>1 DEF Fits, Removed
      <4>4. Filtered(req[s])'
        BY ZenonT(60), <1>1, <2>7, <4>1 DEF Fits, Filtered, Effective
      <4> QED
        BY Zenon, <2>4, <4>2, <4>3, <4>4 DEF Good, Fits, WellFormed, Creators
    <3> QED
      BY <3>1, <3>2
  <2> QED
    BY Zenon, <2>4, <2>5, <2>6, <2>8, <2>9, <2>10, <2>11 DEF IInv
<1> QED
  BY Zenon, <1>2, <1>3 DEF InsertProject

LEMMA ProvisionClusterInv ==
    ASSUME IInv, NEW r \in Requests, ProvisionCluster(r) PROVE IInv'
<1>1. /\ Fits(req[r]) /\ req[r].pc = "provision" /\ r \in Creators
      /\ UNCHANGED <<store, ghosts>> /\ entry' = entry
  BY Zenon DEF IInv, Good, Fits, WellFormed, ProvisionCluster
<1>2. PICK b \in BranchIds : b = req[r].b
  BY Zenon, <1>1 DEF Fits, WellFormed
<1>3. clusters' \in {clusters, clusters \cup {b}} /\ storeFaults' \in Nat
  BY <1>2 DEF ProvisionCluster, StoreFault, IInv, StoreTypeOK
<1>4. /\ clusters' \subseteq BranchIds /\ entry' \in [BranchIds -> Filters \cup {None}]
      /\ \A o \in BranchIds : o # b => (o \in clusters' <=> o \in clusters) /\ entry'[o] = entry[o]
  BY <1>1, <1>3 DEF IInv, StoreTypeOK
<1>5. PICK q \in Request : req' = [req EXCEPT ![r] = q] /\ (q = IdleRequest \/ Moved(q, req[r], "filter"))
  BY GotoIs, IdleTyped DEF ProvisionCluster, Return, IInv, PCs
<1>6. CASE q = IdleRequest
  <2>1. \A s \in Requests : s # r => Apart(q, req[s]) /\ Apart(req[s], q)
    BY Zenon, <1>6, IdleApart DEF IInv, Good, Fits
  <2>2. q.pc = "idle" /\ q.kind # "createBranch"
    BY <1>6, IdleFields, IDsAssumption DEF Kinds
  <2>3. WellFormed(q) /\ Known(q) /\ Removed(q)' /\ Filtered(q)'
    BY <1>6, IdleFits, IdleFitsNext DEF Fits
  <2> QED
    BY Zenon, <1>1, <1>2, <1>3, <1>4, <1>5, <2>1, <2>2, <2>3, CellStep DEF InFlightPCs
<1>7. CASE Moved(q, req[r], "filter")
  <2>1. WellFormed(q) /\ Known(q) /\ Keeps(q, req[r])
    BY Zenon, <1>1, <1>7 DEF Moved, Fits, WellFormed, Known, Keeps, Exclusive, Shared
  <2>2. \A s \in Requests : s # r => Apart(q, req[s]) /\ Apart(req[s], q)
    BY <2>1, KeepsApart DEF IInv, Pairs
  <2>3. Removed(q)' /\ Filtered(q)'
    BY Zenon, <1>1, <1>7 DEF Moved, Fits, Removed, Filtered, store, ghosts
  <2> QED
    BY Zenon, <1>1, <1>2, <1>3, <1>4, <1>5, <1>7, <2>1, <2>2, <2>3, CellStep DEF InFlightPCs, Moved
<1> QED
  BY <1>5, <1>6, <1>7

LEMMA FilterBranchInv ==
    ASSUME IInv, NEW r \in Requests, FilterBranch(r) PROVE IInv'
<1>1. /\ Fits(req[r]) /\ req[r].pc = "filter" /\ r \in Creators /\ req[r] \in Request
      /\ UNCHANGED <<store, ghosts>> /\ clusters' = clusters
  BY Zenon DEF IInv, Good, Fits, WellFormed, FilterBranch, StoreTypeOK
<1>2. PICK b \in BranchIds : b = req[r].b
  BY Zenon, <1>1 DEF Fits, WellFormed
<1>3. req[r].filter \in Filters /\ entry[b] = None /\ None \notin Filters
  BY Zenon, <1>1, <1>2, FieldTypes, FiltersAssumption DEF Fits, Filtered
<1>4. entry' \in {entry, [entry EXCEPT ![b] = req[r].filter]} /\ storeFaults' \in Nat
  BY <1>2 DEF FilterBranch, StoreFault, IInv, StoreTypeOK
<1>5. /\ clusters' \subseteq BranchIds /\ entry' \in [BranchIds -> Filters \cup {None}]
      /\ \A o \in BranchIds : o # b => (o \in clusters' <=> o \in clusters) /\ entry'[o] = entry[o]
  BY Zenon, <1>1, <1>3, <1>4 DEF IInv, StoreTypeOK
<1>6. CASE Return(r)
  <2>1. \A s \in Requests : s # r => Apart(IdleRequest, req[s]) /\ Apart(req[s], IdleRequest)
    BY Zenon, IdleApart DEF IInv, Good, Fits
  <2>2. IdleRequest.pc = "idle" /\ IdleRequest.kind # "createBranch"
    BY IdleFields, IDsAssumption DEF Kinds
  <2>3. /\ WellFormed(IdleRequest) /\ Known(IdleRequest)
        /\ Removed(IdleRequest)' /\ Filtered(IdleRequest)'
    BY IdleFits, IdleFitsNext DEF Fits
  <2>4. IdleRequest \in Request /\ req' = [req EXCEPT ![r] = IdleRequest]
    BY <1>6, IdleTyped DEF Return
  <2> QED
    BY ZenonT(60), <1>1, <1>2, <1>4, <1>5, <2>1, <2>2, <2>3, <2>4, CellStep DEF InFlightPCs
<1>7. CASE /\ entry' = IF req[r].filter = Open THEN entry ELSE [entry EXCEPT ![b] = req[r].filter]
           /\ Goto(r, "commitbranch")
  <2>1. PICK q \in Request : req' = [req EXCEPT ![r] = q] /\ Moved(q, req[r], "commitbranch")
    BY <1>7, GotoIs DEF IInv, PCs
  <2>2. WellFormed(q) /\ Known(q) /\ Keeps(q, req[r])
    BY Zenon, <1>1, <2>1 DEF Moved, Fits, WellFormed, Known, Keeps, Exclusive, Shared
  <2>3. \A s \in Requests : s # r => Apart(q, req[s]) /\ Apart(req[s], q)
    BY <2>2, KeepsApart DEF IInv, Pairs
  <2>4. Effective(entry[b])' = req[r].filter
    BY Zenon, <1>3, <1>7 DEF Effective, IInv, StoreTypeOK
  <2>5. Removed(q)' /\ Filtered(q)'
    BY Zenon, <1>1, <1>2, <2>1, <2>4 DEF Moved, Fits, Removed, Filtered, store, ghosts
  <2>6. q.pc = "commitbranch" /\ q.p = req[r].p /\ req[r].pc \in InFlightPCs
    BY Zenon, <1>1, <2>1 DEF Moved, InFlightPCs
  <2> QED
    BY Zenon, <1>1, <1>2, <1>4, <1>5, <2>1, <2>2, <2>3, <2>5, <2>6, CellStep
<1> QED
  BY <1>2, <1>6, <1>7 DEF FilterBranch

LEMMA DeprovisionBranchInv ==
    ASSUME IInv, NEW r \in Requests, DeprovisionBranch(r) PROVE IInv'
<1>1. /\ Fits(req[r]) /\ req[r].pc = "deprovision"
      /\ UNCHANGED <<store, ghosts>> /\ entry' = entry
  BY DEF IInv, Good, DeprovisionBranch
<1>2. PICK b \in BranchIds : b = req[r].b
  BY <1>1 DEF Fits, WellFormed
<1>3. clusters' \in {clusters, clusters \ {b}} /\ storeFaults' \in Nat
  <2>1. StoreFault \/ UNCHANGED storeFaults
    BY Zenon DEF DeprovisionBranch
  <2> QED
    BY Zenon, <1>2, <2>1, FaultsCounted DEF DeprovisionBranch
<1>4. /\ clusters' \subseteq BranchIds /\ entry' \in [BranchIds -> Filters \cup {None}]
      /\ \A o \in BranchIds : o # b => (o \in clusters' <=> o \in clusters) /\ entry'[o] = entry[o]
      /\ clusters' \subseteq clusters
  BY <1>1, <1>3 DEF IInv, StoreTypeOK
<1>5. CASE EndBranch(r, TRUE)
  <2>1. PICK q \in Request : req' = [req EXCEPT ![r] = q] /\ Ended(q, req[r])
    BY Zenon, <1>5, EndBranchIs DEF IInv
  <2>2. Fits(q) /\ q.kind # "createBranch"
    BY <1>1, <2>1, EndedFits
  <2>3. \A s \in Requests : s # r => Apart(q, req[s]) /\ Apart(req[s], q)
    BY <1>1, <2>1, EndedApart DEF IInv, Pairs, Good
  <2>4. q.pc \in {"idle", "checkempty", "nextbranch"}
    BY <2>1, IdleFields DEF Ended
  <2>5. Removed(q)' /\ Filtered(q)'
    BY <2>4 DEF Removed, Filtered
  <2> QED
    BY ZenonT(60), <1>1, <1>2, <1>3, <1>4, <2>1, <2>2, <2>3, <2>4, <2>5, CellStep DEF InFlightPCs, Fits
<1>6. CASE clusters' = clusters \ {b} /\ Goto(r, "unfilter")
  <2>1. PICK q \in Request : req' = [req EXCEPT ![r] = q] /\ Moved(q, req[r], "unfilter")
    BY <1>6, GotoIs DEF IInv, PCs
  <2>2. WellFormed(q) /\ Known(q) /\ Keeps(q, req[r])
    BY Zenon, <1>1, <2>1 DEF Moved, Fits, WellFormed, Known, Keeps, Exclusive, Shared
  <2>3. \A s \in Requests : s # r => Apart(q, req[s]) /\ Apart(req[s], q)
    BY <2>2, KeepsApart DEF IInv, Pairs
  <2>4. Removed(q)' /\ Filtered(q)' /\ q.kind # "createBranch"
    BY Zenon, <1>1, <1>2, <1>6, <2>1, <2>2 DEF Moved, Removed, Filtered, WellFormed
  <2> QED
    BY ZenonT(60), <1>1, <1>2, <1>3, <1>4, <2>1, <2>2, <2>3, <2>4, CellStep DEF InFlightPCs, Moved
<1> QED
  BY Zenon, <1>2, <1>5, <1>6 DEF DeprovisionBranch

LEMMA UnfilterBranchInv ==
    ASSUME IInv, NEW r \in Requests, UnfilterBranch(r) PROVE IInv'
<1>1. /\ Fits(req[r]) /\ req[r].pc = "unfilter" /\ Goto(r, "commitdelete")
      /\ UNCHANGED <<store, ghosts>> /\ clusters' = clusters
  BY Zenon DEF IInv, Good, UnfilterBranch
<1>2. PICK b \in BranchIds : b = req[r].b
  BY <1>1 DEF Fits, WellFormed
<1>3. /\ entry' \in {entry, [entry EXCEPT ![b] = None]} /\ storeFaults' \in Nat
      /\ b \notin clusters'
  <2>1. StoreFault \/ UNCHANGED storeFaults
    BY DEF UnfilterBranch
  <2> QED
    BY <1>1, <1>2, <2>1, FaultsCounted DEF UnfilterBranch, Fits, Removed
<1>4. /\ clusters' \subseteq BranchIds /\ entry' \in [BranchIds -> Filters \cup {None}]
      /\ \A o \in BranchIds : o # b => (o \in clusters' <=> o \in clusters) /\ entry'[o] = entry[o]
  BY <1>1, <1>3 DEF IInv, StoreTypeOK
<1>5. PICK q \in Request : req' = [req EXCEPT ![r] = q] /\ Moved(q, req[r], "commitdelete")
  BY <1>1, GotoIs DEF IInv, PCs
<1>6. WellFormed(q) /\ Known(q) /\ Keeps(q, req[r])
  BY Zenon, <1>1, <1>5 DEF Moved, Fits, WellFormed, Known, Keeps, Exclusive, Shared
<1>7. \A s \in Requests : s # r => Apart(q, req[s]) /\ Apart(req[s], q)
  BY <1>6, KeepsApart DEF IInv, Pairs
<1>8. Removed(q)' /\ Filtered(q)' /\ q.kind # "createBranch"
  BY Zenon, <1>1, <1>2, <1>3, <1>5, <1>6 DEF Moved, Removed, Filtered, WellFormed
<1>9. q.pc # "insert" /\ q.pc \notin InFlightPCs /\ req[r].pc \in DeletePCs /\ clusters' \subseteq clusters
  BY <1>1, <1>5 DEF Moved, InFlightPCs
<1>10. req' = [req EXCEPT ![r] = q] /\ storeFaults' \in Nat /\ b \notin clusters'
  BY <1>3, <1>5
<1>11. UNCHANGED <<store, ghosts>>
  BY Zenon, <1>1
<1> QED
  BY Zenon, <1>2, <1>4, <1>6, <1>7, <1>8, <1>9, <1>10, <1>11, CellStep

LEMMA CommitBranchInv ==
    ASSUME IInv, NEW r \in Requests, CommitBranch(r) PROVE IInv'
<1>1. /\ Fits(req[r]) /\ req[r].pc = "commitbranch" /\ Return(r) /\ req[r] \in Request /\ ~req[r].reached
      /\ project' = project /\ clusters' = clusters /\ entry' = entry
      /\ acked' = acked /\ dirty' = dirty /\ storeFaults' \in Nat
  <2>1. StoreFault \/ UNCHANGED storeFaults
    BY Zenon DEF CommitBranch
  <2>2. Fits(req[r]) /\ req[r].pc = "commitbranch" /\ req[r] \in Request
    BY Zenon DEF IInv, Good, CommitBranch, StoreTypeOK
  <2> QED
    BY Zenon, <2>1, <2>2, FaultsCounted DEF Fits, WellFormed, CommitBranch, cells, ghosts
<1>2. CASE branches' = branches
  BY Zenon, <1>1, <1>2, ReturnStep DEF store, cells, ghosts
<1>3. PICK row : row = [status |-> "active", p |-> req[r].p, cell |-> req[r].cell, depth |-> req[r].depth]
  BY Zenon
<1>4. CASE branches' = [branches EXCEPT ![req[r].b] = row]
  <2>1. PICK b \in BranchIds, p \in Projects : b = req[r].b /\ p = req[r].p
    BY Zenon, <1>1 DEF Fits, WellFormed
  <2>2. branches[b].status = "none" /\ project[p].status # "none"
    BY Zenon, <1>1, <2>1 DEF Fits, Known
  <2>3. row \in [status : Status, p : Projects \cup {None}, cell : Cells \cup {None}, depth : Depths]
    BY Zenon, <1>1, <1>3, <2>1, FieldTypes DEF Status
  <2>4. /\ branches' \in [BranchIds -> [status : Status, p : Projects \cup {None},
                                        cell : Cells \cup {None}, depth : Depths]]
        /\ branches'[b].status = "active" /\ branches'[b].p = p
        /\ \A o \in BranchIds : o # b => branches'[o] = branches[o]
    BY Zenon, <1>3, <1>4, <2>1, <2>3 DEF IInv, StoreTypeOK
  <2>5. /\ req' \in [Requests -> Request] /\ req'[r] = IdleRequest
        /\ \A s \in Requests : s # r => req'[s] = req[s]
        /\ Pairs'
        /\ \A s \in Requests : WellFormed(req'[s]) /\ (req'[s].kind = "createBranch" => s \in Creators)
    BY <1>1, ReturnFramed
  <2>6. StoreTypeOK'
    BY <1>1, <2>4, <2>5 DEF IInv, StoreTypeOK
  <2>7. Rows' /\ AckedIsDeleted' /\ ProjectLimit'
    BY <1>1, <2>2, <2>4 DEF IInv, Rows, AckedIsDeleted, ProjectLimit, ActiveProjects
  <2>8. DeletedIsGone'
    BY Zenon, <1>1, <2>1, <2>4 DEF IInv, DeletedIsGone, Fits, Removed
  <2>9. /\ ActiveBranches(p)' = ActiveBranches(p) \cup {b} /\ b \notin ActiveBranches(p)
        /\ \A o : o # p => ActiveBranches(o)' = ActiveBranches(o)
    BY <2>2, <2>4 DEF ActiveBranches
  <2>10. BranchOvershoot'
    <3> SUFFICES ASSUME Creators # {}, NEW o \in Projects
                 PROVE  Cardinality(ActiveBranches(o)') + Cardinality(InFlight(o)')
                          <= MaxBranches - 1 + Cardinality(Creators)
      BY DEF BranchOvershoot, Creators
    <3>1. \A i \in Projects : InFlight(i)' \subseteq InFlight(i)
      BY <2>5, IdleFields, InFlightKept DEF InFlightPCs
    <3>2. Cardinality(ActiveBranches(o)) + Cardinality(InFlight(o)) <= MaxBranches - 1 + Cardinality(Creators)
      BY DEF IInv, BranchOvershoot
    <3>3. /\ Cardinality(ActiveBranches(o)) \in Nat /\ Cardinality(Creators) \in Nat /\ MaxBranches \in Nat
          /\ Cardinality(InFlight(o)) \in Nat
      BY Finite, FS_CardinalityType, LimitsAssumption
    <3>4. CASE o = p
      <4>1. Cardinality(ActiveBranches(p)') = Cardinality(ActiveBranches(p)) + 1
        BY Zenon, <2>9, Finite, FS_AddElement
      <4>2. r \in InFlight(p) /\ InFlight(p)' \subseteq InFlight(p) \ {r}
        BY Zenon, <1>1, <2>1, <2>5, <3>1, IdleFields, IDsAssumption DEF InFlight, On, At, Fits, WellFormed, Kinds
      <4>3. /\ IsFiniteSet(InFlight(p) \ {r})
            /\ Cardinality(InFlight(p) \ {r}) = Cardinality(InFlight(p)) - 1
        BY ZenonT(60), <4>2, Finite, FS_RemoveElement
      <4>4. Cardinality(InFlight(p)') \in Nat /\ Cardinality(InFlight(p)') <= Cardinality(InFlight(p)) - 1
        BY <4>2, <4>3, Smaller
      <4> QED
        BY <3>2, <3>3, <3>4, <4>1, <4>4
    <3>5. CASE o # p
      <4>1. Cardinality(InFlight(o)') \in Nat /\ Cardinality(InFlight(o)') <= Cardinality(InFlight(o))
        BY <3>1, Finite, Smaller
      <4> QED
        BY <2>9, <3>2, <3>3, <3>5, <4>1
    <3> QED
      BY <3>4, <3>5
  <2>11. FilterInForce'
    <3>1. \A o \in Projects : Applying(o) => Applying(o)'
      BY <1>1, <2>5, ApplyingKept
    <3>2. Effective(entry[b]) = project[p].filter
      BY Zenon, <1>1, <2>1 DEF Fits, Filtered
    <3> QED
      BY ZenonT(60), <1>1, <2>9, <3>1, <3>2 DEF IInv, FilterInForce, Effective
  <2>12. ASSUME NEW s \in Requests PROVE Good(s)'
    <3>1. CASE s = r
      BY Zenon, <2>5, <3>1, IdleFitsNext DEF Good, Fits, WellFormed, Creators
    <3>2. CASE s # r
      <4>1. PICK o \in Request : o = req[s]
        BY DEF IInv, StoreTypeOK
      <4>2. Fits(o) /\ req'[s] = o /\ o.b # b /\ (o.kind = "createBranch" => s \in Creators)
        BY Zenon, <1>1, <2>1, <2>5, <3>2, <4>1 DEF IInv, Good, Pairs, Apart
      <4>3. Exclusive(o) => o.p # p
        BY Zenon, <1>1, <2>1, <3>2, <4>1 DEF IInv, Pairs, Apart, Shared
      <4>4. o.todo \subseteq BranchIds /\ b \notin o.todo
        BY Zenon, <2>2, <4>2, FieldTypes DEF Fits, Known
      <4>5. Known(o)'
        <5>1. o.pc \in CreatePCs \cup DeletePCs => branches'[o.b] = branches[o.b]
          BY Zenon, <2>4, <4>2 DEF Fits, WellFormed
        <5>2. \A i \in o.todo : branches'[i] = branches[i]
          BY <2>4, <4>4
        <5> QED
          BY Zenon, <1>1, <4>2, <5>1, <5>2 DEF Fits, Known
      <4>6. Allowed(o)'
        BY Zenon, <1>1, <4>2 DEF Fits, Allowed, ActiveProjects
      <4>7. Removed(o)'
        BY Zenon, <1>1, <2>9, <4>2, <4>3 DEF Fits, Removed, Exclusive
      <4>8. Filtered(o)'
        <5>1. o.pc \in {"setcell", "commitupdate"} => ActiveBranches(o.p)' = ActiveBranches(o.p)
          BY <2>9, <4>3 DEF Exclusive
        <5> QED
          BY Zenon, <1>1, <4>2, <5>1 DEF Fits, Filtered, Effective
      <4> QED
        BY Zenon, <4>2, <4>5, <4>6, <4>7, <4>8, GoodNext DEF Fits
    <3> QED
      BY <3>1, <3>2
  <2> QED
    BY <2>5, <2>6, <2>7, <2>8, <2>10, <2>11, <2>12 DEF IInv
<1> QED
  BY <1>2, <1>3, <1>4 DEF CommitBranch

(* Only one request works on the IP filtering of a project. *)
LEMMA AloneOn ==
    ASSUME IInv, NEW r \in Requests, NEW s \in Requests, Exclusive(req[r]), s # r, req[s].p = req[r].p
    PROVE  ~Exclusive(req[s]) /\ ~Shared(req[s]) /\ ~req[s].reached
  BY Zenon DEF IInv, Pairs, Apart, Good, Fits, WellFormed, Exclusive

LEMMA SetCellInv ==
    ASSUME IInv, NEW r \in Requests, SetCell(r) PROVE IInv'
<1>1. /\ Fits(req[r]) /\ req[r].pc = "setcell" /\ req[r] \in Request /\ storeFaults' \in Nat
      /\ project' = project /\ branches' = branches /\ clusters' = clusters /\ acked' = acked
      /\ req[r].kind = "updateProject" /\ Exclusive(req[r])
  <2>1. StoreFault \/ UNCHANGED storeFaults
    BY Zenon DEF SetCell
  <2>2. Fits(req[r]) /\ req[r].pc = "setcell" /\ req[r] \in Request
    BY Zenon DEF IInv, Good, SetCell, StoreTypeOK
  <2>3. UNCHANGED <<store, clusters, acked>>
    BY Zenon DEF SetCell
  <2> QED
    BY Zenon, <2>1, <2>2, <2>3, FaultsCounted DEF Fits, WellFormed, Exclusive, store
<1>2. PICK c \in {branches[b].cell : b \in req[r].todo} :
        LET bs == {b \in req[r].todo : branches[b].cell = c}
            set == [b \in BranchIds |-> IF b \in bs THEN req[r].filter ELSE entry[b]]
        IN \/ /\ entry' = set
              /\ req' = [req EXCEPT ![r].todo = @ \ bs, ![r].reached = TRUE,
                                    ![r].pc = IF req[r].todo = bs THEN "commitupdate" ELSE "setcell"]
              /\ UNCHANGED <<dirty, storeFaults>>
           \/ /\ StoreFault
              /\ entry' \in {entry, set}
              /\ dirty' = IF req[r].reached \/ entry' # entry THEN dirty \cup {req[r].p} ELSE dirty
              /\ Return(r)
  BY Zenon DEF SetCell
<1>3. PICK bs : bs = {b \in req[r].todo : branches[b].cell = c}
  BY Zenon
<1>4. PICK set : set = [b \in BranchIds |-> IF b \in bs THEN req[r].filter ELSE entry[b]]
  BY Zenon
<1>5. PICK p \in Projects : p = req[r].p
  BY Zenon, <1>1 DEF Fits, WellFormed
<1>6. /\ req[r].filter \in Filters /\ Effective(req[r].filter) = req[r].filter
      /\ req[r].todo \in SUBSET BranchIds /\ bs \subseteq req[r].todo
      /\ \A b \in bs : branches[b].p = p /\ branches[b].status # "none"
  BY Zenon, <1>1, <1>3, <1>5, FieldTypes, FiltersAssumption DEF Effective, Fits, Known
<1>7. entry' \in {entry, set} /\ entry' \in [BranchIds -> Filters \cup {None}]
  BY Zenon, <1>2, <1>3, <1>4, <1>6 DEF IInv, StoreTypeOK
<1>8. \A b \in BranchIds : b \notin bs => entry'[b] = entry[b]
  BY <1>4, <1>7
<1>9. ActiveProjects' = ActiveProjects /\ \A o : ActiveBranches(o)' = ActiveBranches(o)
  BY <1>1 DEF ActiveProjects, ActiveBranches
<1>10. Rows' /\ AckedIsDeleted' /\ ProjectLimit' /\ DeletedIsGone'
  BY <1>1, <1>9 DEF IInv, Rows, AckedIsDeleted, ProjectLimit, DeletedIsGone
(* The others: their projects, or their new branches, are not concerned. *)
<1>11. ASSUME NEW s \in Requests, s # r, NEW o \in Request, o = req[s]
       PROVE  Known(o)' /\ Allowed(o)' /\ Removed(o)' /\ Filtered(o)'
  <2>1. Fits(o)
    BY <1>11 DEF IInv, Good
  <2>2. Known(o)' /\ Allowed(o)' /\ Removed(o)'
    BY Zenon, <1>1, <1>9, <2>1 DEF Fits, Known, Allowed, Removed
  <2>3. o.pc \in {"setcell", "commitupdate"} =>
          \A b \in ActiveBranches(o.p) : b \in BranchIds /\ entry'[b] = entry[b]
    <3>1. Exclusive(o) => o.p # p
      BY <1>1, <1>5, <1>11, AloneOn
    <3> QED
      BY <1>6, <1>8, <3>1 DEF Exclusive, ActiveBranches
  <2>4. o.pc \in CreatePCs => entry'[o.b] = entry[o.b]
    BY Zenon, <1>6, <1>8, <2>1 DEF Fits, Known, WellFormed
  <2>5. ActiveBranches(o.p)' = ActiveBranches(o.p) /\ clusters' = clusters /\ project' = project
    BY Zenon, <1>1, <1>9
  <2>6. Filtered(o)
    BY <2>1 DEF Fits
  <2>7. o.pc \in {"setcell", "commitupdate"} =>
          \A b \in ActiveBranches(o.p)' \cap clusters' : b \in o.todo \/ Effective(entry'[b]) = o.filter
    BY <2>3, <2>5, <2>6 DEF Filtered
  <2>8. Filtered(o)'
    BY <2>4, <2>5, <2>6, <2>7 DEF Filtered, Effective
  <2> QED
    BY <2>2, <2>8
<1>12. ASSUME NEW o \in Projects \ dirty, o # p, ~Applying(o),
              NEW b \in ActiveBranches(o)' \cap clusters'
       PROVE  Effective(entry[b])' = project'[o].filter
  <2>1. b \in BranchIds /\ b \notin bs
    BY Zenon, <1>1, <1>6, <1>12 DEF ActiveBranches
  <2> QED
    BY SMTT(40), <1>1, <1>8, <1>9, <1>12, <2>1 DEF IInv, FilterInForce, Effective
<1>13. ASSUME req' \in [Requests -> Request], \A s \in Requests : s # r => req'[s] = req[s],
              Pairs', \A s \in Requests : WellFormed(req'[s]) /\ (req'[s].kind = "createBranch" => s \in Creators),
              NEW q, req'[r] = q, Known(q)', Allowed(q)', Removed(q)', Filtered(q)',
              q.pc \notin InFlightPCs,
              dirty' \subseteq Projects, FilterInForce'
       PROVE  IInv'
  <2>1. StoreTypeOK'
    BY Zenon, <1>1, <1>7, <1>13 DEF IInv, StoreTypeOK
  <2>2. BranchOvershoot'
    BY Zenon, <1>9, <1>13, InFlightKept, OvershootKept DEF IInv
  <2>3. ASSUME NEW s \in Requests PROVE Good(s)'
    <3>1. PICK o \in Request : o = req'[s]
      BY Zenon, <1>13
    <3>2. s # r => Known(o)' /\ Allowed(o)' /\ Removed(o)' /\ Filtered(o)'
      BY <1>11, <1>13, <3>1
    <3>3. s = r => Known(o)' /\ Allowed(o)' /\ Removed(o)' /\ Filtered(o)'
      BY <1>13, <3>1
    <3> QED
      BY Zenon, <1>13, <3>1, <3>2, <3>3, GoodNext
  <2> QED
    BY Zenon, <1>10, <1>13, <2>1, <2>2, <2>3 DEF IInv
<1>14. CASE /\ entry' = set
            /\ req' = [req EXCEPT ![r].todo = @ \ bs, ![r].reached = TRUE,
                                  ![r].pc = IF req[r].todo = bs THEN "commitupdate" ELSE "setcell"]
            /\ UNCHANGED <<dirty, storeFaults>>
  <2>1. PICK pc, left : pc = (IF req[r].todo = bs THEN "commitupdate" ELSE "setcell") /\ left = req[r].todo \ bs
    BY Zenon
  <2>2. PICK q : q = [req[r] EXCEPT !.todo = left, !.reached = TRUE, !.pc = pc]
    OBVIOUS
  <2>3. pc \in PCs /\ pc \in {"commitupdate", "setcell"} /\ left \in SUBSET BranchIds
    BY <1>6, <2>1 DEF PCs
  <2>4. /\ q \in Request /\ q.kind = req[r].kind /\ q.pc = pc /\ q.p = p /\ q.b = req[r].b
        /\ q.filter = req[r].filter /\ q.todo = left /\ q.reached = TRUE
    BY Zenon, <1>1, <1>5, <2>2, <2>3 DEF Request
  <2>5. req' = [req EXCEPT ![r] = q]
    BY Zenon, <1>1, <1>14, <2>1, <2>2 DEF IInv, StoreTypeOK
  <2>6. WellFormed(q) /\ Keeps(q, req[r])
    BY Zenon, <1>1, <1>5, <1>6, <2>1, <2>3, <2>4 DEF Fits, WellFormed, Keeps, Exclusive, Shared
  <2>7. \A s \in Requests : s # r => Apart(q, req[s]) /\ Apart(req[s], q)
    BY <2>6, KeepsApart DEF IInv, Pairs
  <2>8. /\ req' \in [Requests -> Request] /\ req'[r] = q
        /\ \A s \in Requests : s # r => req'[s] = req[s]
        /\ Pairs'
        /\ \A s \in Requests : WellFormed(req'[s]) /\ (req'[s].kind = "createBranch" => s \in Creators)
    BY Zenon, <1>1, <2>4, <2>5, <2>6, <2>7, Framed
  <2>9. Known(q)' /\ Allowed(q)' /\ Removed(q)'
    BY Zenon, <1>1, <1>5, <2>1, <2>3, <2>4 DEF Fits, Known, Allowed, Removed
  <2>10. ASSUME NEW b \in ActiveBranches(p) \cap clusters
         PROVE  b \in left \/ Effective(entry[b])' = req[r].filter
    <3>1. b \in req[r].todo \/ Effective(entry[b]) = req[r].filter
      BY Zenon, <1>1, <1>5, <2>10 DEF Fits, Filtered
    <3>2. CASE b \in bs
      BY <1>4, <1>6, <1>14, <2>10, <3>2 DEF ActiveBranches, Effective
    <3>3. CASE b \notin bs
      BY <1>8, <2>1, <2>10, <3>1, <3>3 DEF ActiveBranches, Effective
    <3> QED
      BY Zenon, <3>2, <3>3
  <2>11. Filtered(q)'
    BY Zenon, <1>1, <1>9, <2>3, <2>4, <2>10 DEF Filtered
  <2>12. FilterInForce'
    <3>1. Applying(p)'
      BY Zenon, <1>1, <2>4, <2>8 DEF Applying, On
    <3>2. ASSUME NEW o \in Projects, o # p, Applying(o) PROVE Applying(o)'
      BY <1>5, <2>8, <3>2, ApplyingKept
    <3> QED
      BY <1>12, <1>14, <3>1, <3>2 DEF FilterInForce
  <2>13. dirty' \subseteq Projects
    BY <1>14 DEF IInv, StoreTypeOK
  <2> QED
    BY Zenon, <1>13, <2>3, <2>4, <2>8, <2>9, <2>11, <2>12, <2>13 DEF InFlightPCs
<1>15. CASE /\ dirty' = IF req[r].reached \/ entry' # entry THEN dirty \cup {req[r].p} ELSE dirty
            /\ Return(r)
  <2>1. CASE ~req[r].reached /\ entry' = entry
    BY Zenon, <1>1, <1>15, <2>1, ReturnStep DEF store, cells, ghosts
  <2>2. CASE req[r].reached \/ entry' # entry
    <3>1. /\ req' \in [Requests -> Request] /\ req'[r] = IdleRequest
          /\ \A s \in Requests : s # r => req'[s] = req[s]
          /\ Pairs'
          /\ \A s \in Requests : WellFormed(req'[s]) /\ (req'[s].kind = "createBranch" => s \in Creators)
      BY <1>15, ReturnFramed
    <3>2. dirty' = dirty \cup {p} /\ dirty' \subseteq Projects
      BY <1>5, <1>15, <2>2 DEF IInv, StoreTypeOK
    <3>3. ASSUME NEW o \in Projects, o # p, Applying(o) PROVE Applying(o)'
      BY <1>5, <3>1, <3>3, ApplyingKept
    <3>4. FilterInForce'
      BY <1>12, <3>2, <3>3 DEF FilterInForce
    <3> QED
      BY Zenon, <1>13, <3>1, <3>2, <3>4, IdleFitsNext, IdleFields DEF InFlightPCs
  <2> QED
    BY <2>1, <2>2
<1> QED
  BY Zenon, <1>2, <1>3, <1>4, <1>14, <1>15

LEMMA CommitUpdateInv ==
    ASSUME IInv, NEW r \in Requests, CommitUpdate(r) PROVE IInv'
<1>1. /\ Fits(req[r]) /\ req[r].pc = "commitupdate" /\ Return(r) /\ req[r] \in Request /\ storeFaults' \in Nat
      /\ branches' = branches /\ clusters' = clusters /\ entry' = entry /\ acked' = acked
      /\ Exclusive(req[r])
  BY DEF IInv, Good, Fits, WellFormed, Exclusive, CommitUpdate, StoreFault, StoreTypeOK, cells
<1>2. PICK p \in Projects : p = req[r].p
  BY Zenon, <1>1 DEF Fits, WellFormed
<1>3. PICK set : set = [project EXCEPT ![p].filter = req[r].filter]
  BY Zenon
<1>4. /\ set \in [Projects -> [status : Status, filter : Filters]]
      /\ set[p].filter = req[r].filter /\ set[p].status = project[p].status
      /\ \A o \in Projects : o # p => set[o] = project[o]
  BY <1>1, <1>3, FieldTypes DEF IInv, StoreTypeOK
<1>5. project' \in {project, set} /\ dirty' \in {dirty, dirty \ {p}, dirty \cup {p}}
  BY <1>2, <1>3 DEF CommitUpdate
<1>6. /\ project' \in [Projects -> [status : Status, filter : Filters]]
      /\ \A o \in Projects : project'[o].status = project[o].status /\ (o # p => project'[o] = project[o])
  BY <1>4, <1>5 DEF IInv, StoreTypeOK
<1>7. /\ req' \in [Requests -> Request] /\ req'[r] = IdleRequest
      /\ \A s \in Requests : s # r => req'[s] = req[s]
      /\ Pairs'
      /\ \A s \in Requests : WellFormed(req'[s]) /\ (req'[s].kind = "createBranch" => s \in Creators)
  BY <1>1, ReturnFramed
<1>8. StoreTypeOK'
  BY <1>1, <1>5, <1>6, <1>7 DEF IInv, StoreTypeOK
<1>9. ActiveProjects' = ActiveProjects /\ \A o : ActiveBranches(o)' = ActiveBranches(o)
  BY <1>1, <1>6 DEF ActiveProjects, ActiveBranches
<1>10. Rows' /\ AckedIsDeleted' /\ ProjectLimit' /\ DeletedIsGone'
  BY ZenonT(60), <1>1, <1>6, <1>9 DEF IInv, Rows, AckedIsDeleted, ProjectLimit, DeletedIsGone, StoreTypeOK
<1>11. BranchOvershoot'
  BY ZenonT(60), <1>7, <1>9, IdleFields, InFlightKept, OvershootKept DEF IInv, InFlightPCs
(* Every branch that runs has the new filtering. *)
<1>12. \A b \in ActiveBranches(p) \cap clusters : Effective(entry[b]) = req[r].filter
  BY Zenon, <1>1, <1>2 DEF Fits, Filtered, WellFormed
<1>13. FilterInForce'
  <2> SUFFICES ASSUME NEW o \in Projects \ dirty', ~Applying(o)', NEW b \in ActiveBranches(o) \cap clusters
               PROVE  Effective(entry[b]) = project'[o].filter
    BY Zenon, <1>1, <1>9 DEF FilterInForce, Effective
  <2>1. CASE o # p
    <3>1. o \in Projects \ dirty /\ ~Applying(o)
      BY Zenon, <1>2, <1>5, <1>7, <2>1, ApplyingKept
    <3> QED
      BY Zenon, <1>6, <2>1, <3>1 DEF IInv, FilterInForce
  <2>2. CASE o = p /\ project' = set
    BY <1>4, <1>12, <2>2
  <2>3. CASE o = p /\ project' # set
    <3>1. project' = project /\ ~req[r].reached /\ p \notin dirty
      BY <1>2, <1>3, <1>5, <2>3 DEF CommitUpdate
    <3>2. ~Applying(p)
      BY Zenon, <1>1, <1>2, <3>1, AloneOn DEF Applying, On
    <3> QED
      BY <2>3, <3>1, <3>2 DEF IInv, FilterInForce
  <2> QED
    BY <2>1, <2>2, <2>3
<1>14. ASSUME NEW s \in Requests PROVE Good(s)'
  <2>1. CASE s = r
    BY Zenon, <1>7, <2>1, IdleFitsNext DEF Good, Fits, WellFormed, Creators
  <2>2. CASE s # r
    <3>1. PICK o \in Request : o = req[s]
      BY DEF IInv, StoreTypeOK
    <3>2. Fits(o) /\ req'[s] = o /\ (o.kind = "createBranch" => s \in Creators)
      BY <1>7, <2>2, <3>1 DEF IInv, Good
    <3>3. o.pc # "idle" => project'[o.p].status = project[o.p].status
      BY <1>6, <3>2 DEF Fits, WellFormed
    <3>4. Known(o)'
      BY Zenon, <1>1, <3>2, <3>3 DEF Fits, Known
    <3>5. Allowed(o)' /\ Removed(o)'
      BY Zenon, <1>1, <1>9, <3>2 DEF Fits, Allowed, Removed
    <3>6. o.pc \in ProvisionPCs => project'[o.p] = project[o.p]
      <4>1. o.pc \in ProvisionPCs => o.p \in Projects
        BY Zenon, <3>2 DEF Fits, WellFormed
      <4>2. o.pc \in ProvisionPCs => o.p # p
        BY Zenon, <1>1, <1>2, <2>2, <3>1, AloneOn DEF Shared
      <4> QED
        BY <1>6, <4>1, <4>2
    <3>7. Filtered(o)'
      BY Zenon, <1>1, <1>9, <3>2, <3>6 DEF Fits, Filtered, Effective
    <3> QED
      BY Zenon, <3>2, <3>4, <3>5, <3>7, GoodNext DEF Fits
  <2> QED
    BY <2>1, <2>2
<1> QED
  BY <1>7, <1>8, <1>10, <1>11, <1>13, <1>14 DEF IInv

LEMMA CommitDeleteInv ==
    ASSUME IInv, NEW r \in Requests, CommitDelete(r) PROVE IInv'
<1>1. /\ Fits(req[r]) /\ req[r].pc = "commitdelete" /\ storeFaults' \in Nat
      /\ project' = project /\ clusters' = clusters /\ entry' = entry
      /\ acked' = acked /\ dirty' = dirty
  <2>1. StoreFault \/ UNCHANGED storeFaults
    BY Zenon DEF CommitDelete
  <2> QED
    BY <2>1, FaultsCounted DEF IInv, Good, CommitDelete, cells, ghosts
<1>2. PICK b \in BranchIds : b = req[r].b
  BY Zenon, <1>1 DEF Fits, WellFormed
<1>3. b \notin clusters /\ branches[b].status # "none"
  BY ZenonT(60), <1>1, <1>2 DEF Fits, Known, Removed
<1>4. branches' \in {branches, [branches EXCEPT ![b].status = "terminated"]}
  BY Zenon, <1>2 DEF CommitDelete
<1>5. /\ branches' \in [BranchIds -> [status : Status, p : Projects \cup {None},
                                      cell : Cells \cup {None}, depth : Depths]]
      /\ \A o \in BranchIds : /\ branches'[o].p = branches[o].p
                              /\ branches'[o].status = branches[o].status \/ (o = b /\ branches'[o].status = "terminated")
  BY <1>4 DEF IInv, StoreTypeOK, Status
<1>6. PICK q \in Request : req' = [req EXCEPT ![r] = q] /\ Ended(q, req[r])
  BY Zenon, EndBranchIs DEF CommitDelete, IInv
<1>7. /\ Fits(q) /\ ~req[r].reached /\ q.kind # "createBranch"
      /\ q.pc \in {"idle", "checkempty", "nextbranch"}
  BY <1>1, <1>6, EndedFits
<1>8. \A s \in Requests : s # r => Apart(q, req[s]) /\ Apart(req[s], q)
  BY <1>1, <1>6, EndedApart DEF IInv, Pairs, Good
<1>9. /\ req' \in [Requests -> Request] /\ req'[r] = q
      /\ \A s \in Requests : s # r => req'[s] = req[s]
      /\ Pairs'
      /\ \A s \in Requests : WellFormed(req'[s]) /\ (req'[s].kind = "createBranch" => s \in Creators)
  BY Zenon, <1>6, <1>7, <1>8, Framed DEF Fits
<1>10. StoreTypeOK'
  BY <1>1, <1>5, <1>9 DEF IInv, StoreTypeOK
<1>11. ActiveProjects' = ActiveProjects /\ \A o : ActiveBranches(o)' \subseteq ActiveBranches(o)
  BY <1>1, <1>5 DEF ActiveProjects, ActiveBranches
<1>12. Rows' /\ AckedIsDeleted' /\ ProjectLimit'
  BY ZenonT(60), <1>1, <1>3, <1>5, <1>11 DEF IInv, Rows, AckedIsDeleted, ProjectLimit
<1>13. DeletedIsGone'
  BY Zenon, <1>1, <1>3, <1>5 DEF IInv, DeletedIsGone
<1>14. BranchOvershoot'
  BY Zenon, <1>7, <1>9, <1>11, InFlightKept, OvershootKept DEF IInv, InFlightPCs
<1>15. FilterInForce'
  <2>1. \A o \in Projects : Applying(o) => Applying(o)'
    BY ZenonT(60), <1>7, <1>9, ApplyingKept
  <2> QED
    BY Zenon, <1>1, <1>11, <2>1 DEF IInv, FilterInForce, Effective
<1>16. ASSUME NEW s \in Requests PROVE Good(s)'
  <2>1. CASE s = r
    <3>1. \A o \in q.todo : o \in BranchIds
      BY FieldTypes
    <3>2. Known(q)'
      <4>1. Known(q)
        BY <1>7 DEF Fits
      <4>2. \A o \in q.todo : branches'[o].status # "none" /\ branches'[o].p = q.p
        BY <1>5, <3>1, <4>1 DEF Known
      <4> QED
        BY ZenonT(60), <1>1, <1>7, <4>1, <4>2 DEF Known
    <3>3. Allowed(q)' /\ Removed(q)' /\ Filtered(q)'
      BY <1>7 DEF Allowed, Removed, Filtered
    <3> QED
      BY ZenonT(60), <1>9, <2>1, <3>2, <3>3, GoodNext
  <2>2. CASE s # r
    <3>1. PICK o \in Request : o = req[s]
      BY DEF IInv, StoreTypeOK
    <3>2. /\ Fits(o) /\ req'[s] = o /\ (o.kind = "createBranch" => s \in Creators)
          /\ o.pc \in CreatePCs => o.b # b
      BY Zenon, <1>2, <1>9, <2>2, <3>1 DEF IInv, Good, Pairs, Apart
    <3>3. Known(o)'
      <4>1. \A i \in o.todo : i \in BranchIds
        BY FieldTypes
      <4>2. \A i \in BranchIds : branches[i].status # "none" => branches'[i].status # "none"
        BY Zenon, <1>5
      <4>3. /\ o.pc \in CreatePCs => branches'[o.b].status = branches[o.b].status
            /\ o.pc \in DeletePCs => o.b \in BranchIds
        BY Zenon, <1>5, <3>2 DEF Fits, WellFormed
      <4>4. Known(o)
        BY <3>2 DEF Fits
      <4>5. \A i \in o.todo : branches'[i].status # "none" /\ branches'[i].p = o.p
        BY ZenonT(60), <1>5, <4>1, <4>2, <4>4 DEF Known
      <4> QED
        BY Zenon, <1>1, <4>2, <4>3, <4>4, <4>5 DEF Known
    <3>4. Allowed(o)' /\ Removed(o)'
      BY Zenon, <1>1, <1>11, <3>2 DEF Fits, Allowed, Removed
    <3>5. Filtered(o)'
      BY Zenon, <1>1, <1>11, <3>2 DEF Fits, Filtered, Effective
    <3> QED
      BY <3>2, <3>3, <3>4, <3>5, GoodNext DEF Fits
  <2> QED
    BY <2>1, <2>2
<1> QED
  BY ZenonT(60), <1>9, <1>10, <1>12, <1>13, <1>14, <1>15, <1>16 DEF IInv

LEMMA TerminateProjectInv ==
    ASSUME IInv, NEW r \in Requests, TerminateProject(r) PROVE IInv'
<1>1. /\ Fits(req[r]) /\ req[r].pc = "terminate" /\ Return(r) /\ storeFaults' \in Nat /\ ~req[r].reached
      /\ branches' = branches /\ clusters' = clusters /\ entry' = entry /\ dirty' = dirty
  BY DEF IInv, Good, Fits, WellFormed, TerminateProject, StoreFault, StoreTypeOK, cells
<1>2. PICK p \in Projects : p = req[r].p
  BY <1>1 DEF Fits, WellFormed
<1>3. PICK terminated : terminated = [project EXCEPT ![p].status = "terminated"]
  BY Zenon
<1>4. /\ project' \in {project, terminated} /\ acked' \in {acked, acked \cup {p}}
      /\ p \in acked' \ acked => project' = terminated /\ req[r].kind = "deleteProjectRPC"
  BY <1>2, <1>3 DEF TerminateProject
<1>5. /\ terminated \in [Projects -> [status : Status, filter : Filters]]
      /\ terminated[p].status = "terminated"
      /\ \A o \in Projects : terminated[o].filter = project[o].filter /\ (o # p => terminated[o] = project[o])
  BY <1>3 DEF IInv, StoreTypeOK, Status
<1>6. /\ project' \in [Projects -> [status : Status, filter : Filters]]
      /\ \A o \in Projects : /\ project'[o].filter = project[o].filter
                             /\ \/ project'[o].status = project[o].status
                                \/ o = p /\ project'[o].status = "terminated"
  BY <1>4, <1>5 DEF IInv, StoreTypeOK
<1>7. /\ req' \in [Requests -> Request] /\ req'[r] = IdleRequest
      /\ \A s \in Requests : s # r => req'[s] = req[s]
      /\ Pairs'
      /\ \A s \in Requests : WellFormed(req'[s]) /\ (req'[s].kind = "createBranch" => s \in Creators)
  BY <1>1, ReturnFramed
<1>8. StoreTypeOK'
  BY <1>1, <1>4, <1>6, <1>7 DEF IInv, StoreTypeOK
<1>9. \A o : ActiveBranches(o)' = ActiveBranches(o)
  BY <1>1 DEF ActiveBranches
<1>10. ActiveProjects' \subseteq ActiveProjects
  BY <1>6 DEF ActiveProjects
<1>11. /\ Cardinality(ActiveProjects') \in Nat /\ Cardinality(ActiveProjects) \in Nat
       /\ Cardinality(ActiveProjects') <= Cardinality(ActiveProjects) /\ MaxProjects \in Nat
  BY <1>10, Finite, Smaller, LimitsAssumption
<1>12. ProjectLimit'
  BY <1>11 DEF IInv, ProjectLimit
<1>13. Rows'
  BY Zenon, <1>1, <1>6 DEF IInv, Rows
<1>14. AckedIsDeleted'
  BY SMTT(40), <1>4, <1>5, <1>6 DEF IInv, AckedIsDeleted, StoreTypeOK
(* The RPC has emptied the project, and nothing could be added to it since. *)
<1>15. ASSUME p \in acked' \ acked, NEW b \in BranchIds, branches[b].p = p
       PROVE  branches[b].status = "terminated"
  <2>1. ActiveBranches(p) = {}
    BY Zenon, <1>1, <1>2, <1>4, <1>15 DEF Fits, Removed
  <2>2. branches[b].status # "none" /\ branches[b].status \in Status
    BY <1>15, IDsAssumption DEF IInv, Rows, StoreTypeOK
  <2> QED
    BY <1>15, <2>1, <2>2 DEF ActiveBranches, Status
<1>16. DeletedIsGone'
  BY Zenon, <1>1, <1>4, <1>15 DEF IInv, DeletedIsGone
<1>17. BranchOvershoot'
  BY ZenonT(60), <1>7, <1>9, IdleFields, InFlightKept, OvershootKept DEF IInv, InFlightPCs
<1>18. FilterInForce'
  <2>1. \A o \in Projects : Applying(o) => Applying(o)'
    BY Zenon, <1>1, <1>7, ApplyingKept
  <2> QED
    BY Zenon, <1>1, <1>6, <1>9, <2>1 DEF IInv, FilterInForce, Effective
<1>19. ASSUME NEW s \in Requests PROVE Good(s)'
  <2>1. CASE s = r
    BY Zenon, <1>7, <2>1, IdleFitsNext DEF Good, Fits, WellFormed, Creators
  <2>2. CASE s # r
    <3>1. PICK o \in Request : o = req[s]
      BY DEF IInv, StoreTypeOK
    <3>2. /\ Fits(o) /\ req'[s] = o /\ (o.kind = "createBranch" => s \in Creators)
          /\ o.pc \in ProjectPCs => o.p # p
      BY Zenon, <1>2, <1>7, <2>2, <3>1 DEF IInv, Good, Pairs, Apart
    <3>3. /\ o.pc # "idle" => project'[o.p].filter = project[o.p].filter
          /\ o.pc # "idle" /\ project[o.p].status # "none" => project'[o.p].status # "none"
          /\ o.pc \in ProjectPCs => project'[o.p].status = project[o.p].status
      BY ZenonT(60), <1>6, <3>2 DEF Fits, WellFormed
    <3>4. Known(o)'
      BY Zenon, <1>1, <3>2, <3>3 DEF Fits, Known
    <3>5. Allowed(o)'
      <4>1. Cardinality(ActiveProjects)' = Cardinality(ActiveProjects')
        OBVIOUS
      <4>2. Allowed(o)
        BY Zenon, <3>2 DEF Fits
      <4> QED
        BY SMTT(40), <1>11, <4>1, <4>2 DEF Allowed
    <3>6. Removed(o)'
      <4>1. o.pc \in ProvisionPCs /\ o.p = p => req[r].kind # "deleteProjectRPC"
        BY ZenonT(60), <1>1, <1>2, <2>2, <3>1, AloneOn DEF Exclusive, Shared
      <4> QED
        BY Zenon, <1>1, <1>4, <1>9, <3>2, <4>1 DEF Fits, Removed
    <3>7. Filtered(o)'
      BY Zenon, <1>1, <1>9, <3>2, <3>3 DEF Fits, Filtered, Effective
    <3> QED
      BY Zenon, <3>2, <3>4, <3>5, <3>6, <3>7, GoodNext DEF Fits
  <2> QED
    BY <2>1, <2>2
<1> QED
  BY Zenon, <1>7, <1>8, <1>12, <1>13, <1>14, <1>16, <1>17, <1>18, <1>19 DEF IInv

-----------------------------------------------------------------------------
LEMMA InitInv == StoreInit => IInv
<1> SUFFICES ASSUME StoreInit PROVE IInv
  OBVIOUS
<1>1. /\ \A p \in Projects : project[p] = [status |-> "none", filter |-> Open]
      /\ \A b \in BranchIds : branches[b] = NoBranchRow
      /\ \A r \in Requests : req[r] = IdleRequest
  BY DEF StoreInit
<1>2. NoBranchRow \in [status : Status, p : Projects \cup {None}, cell : Cells \cup {None}, depth : Depths]
  BY DEF NoBranchRow, Status, Depths
<1>3. StoreTypeOK
  BY <1>2, IdleTyped, FiltersAssumption DEF StoreInit, StoreTypeOK, Status
<1>4. Rows /\ AckedIsDeleted /\ DeletedIsGone
  BY <1>1 DEF StoreInit, Rows, AckedIsDeleted, DeletedIsGone, NoBranchRow
<1>5. Pairs
  BY <1>1, IdleApart, IdleFits DEF Pairs
<1>6. \A r \in Requests : Good(r)
  BY <1>1, IdleFits, IdleFields, IDsAssumption DEF Good, Kinds
<1>7. ActiveProjects = {} /\ \A p : ActiveBranches(p) = {}
  BY SMTT(40), <1>1 DEF ActiveProjects, ActiveBranches, NoBranchRow
<1>8. ProjectLimit
  BY <1>7, FS_EmptySet, LimitsAssumption DEF ProjectLimit
<1>9. BranchOvershoot
  <2> SUFFICES ASSUME Creators # {}, NEW p \in Projects
               PROVE  Cardinality(ActiveBranches(p)) + Cardinality(InFlight(p))
                        <= MaxBranches - 1 + Cardinality(Creators)
    BY DEF BranchOvershoot
  <2>1. InFlight(p) = {}
    BY <1>1, IdleFields DEF InFlight, On, At
  <2>2. Cardinality(Creators) \in Nat /\ Cardinality(Creators) # 0 /\ MaxBranches \in Nat
    BY Finite, FS_CardinalityType, FS_EmptySet, LimitsAssumption
  <2>3. Cardinality(ActiveBranches(p)) = 0 /\ Cardinality(InFlight(p)) = 0
    BY <1>7, <2>1, FS_EmptySet
  <2> QED
    BY <2>2, <2>3
<1>10. FilterInForce
  BY <1>7 DEF FilterInForce
<1> QED
  BY <1>3, <1>4, <1>5, <1>6, <1>8, <1>9, <1>10 DEF IInv

LEMMA StutterInv == IInv /\ UNCHANGED storeVars => IInv'
<1> SUFFICES ASSUME IInv, UNCHANGED storeVars PROVE IInv'
  OBVIOUS
<1>1. /\ project' = project /\ branches' = branches /\ clusters' = clusters /\ entry' = entry
      /\ req' = req /\ acked' = acked /\ dirty' = dirty /\ storeFaults' = storeFaults
  BY DEF storeVars
<1>2. StoreTypeOK' /\ Rows' /\ AckedIsDeleted' /\ Pairs' /\ ProjectLimit' /\ DeletedIsGone'
  BY <1>1 DEF IInv, StoreTypeOK, Rows, AckedIsDeleted, Pairs, ProjectLimit, ActiveProjects, DeletedIsGone
<1>3. \A p : ActiveBranches(p)' = ActiveBranches(p) /\ InFlight(p)' = InFlight(p) /\ Applying(p)' = Applying(p)
  BY <1>1 DEF ActiveBranches, InFlight, On, At, Applying
<1>4. BranchOvershoot'
  BY <1>3, OvershootKept DEF IInv
<1>5. FilterInForce'
  BY <1>1, <1>3 DEF IInv, FilterInForce, Effective
<1>6. ASSUME NEW r \in Requests PROVE Good(r)'
  <2>1. PICK o : o = req[r]
    OBVIOUS
  <2>2. Fits(o) /\ req'[r] = o /\ (o.kind = "createBranch" => r \in Creators)
    BY <1>1, <2>1 DEF IInv, Good
  <2>3. Known(o)' /\ Allowed(o)' /\ Removed(o)'
    BY Zenon, <1>1, <1>3, <2>2 DEF Fits, Known, Allowed, Removed, ActiveProjects
  <2>4. Filtered(o)'
    BY Zenon, <1>1, <1>3, <2>2 DEF Fits, Filtered, Effective
  <2> QED
    BY ZenonT(60), <2>2, <2>3, <2>4, GoodNext DEF Fits
<1> QED
  BY <1>2, <1>4, <1>5, <1>6 DEF IInv

LEMMA NextInv == IInv /\ [StoreNext]_storeVars => IInv'
<1> SUFFICES ASSUME IInv, [StoreNext]_storeVars PROVE IInv'
  OBVIOUS
<1>1. CASE UNCHANGED storeVars
  BY <1>1, StutterInv
<1>2. ASSUME NEW r \in Requests, Start(r) PROVE IInv'
  BY <1>2, StartCreateProjectInv, StartCreateBranchInv, StartUpdateProjectInv, StartDeleteBranchInv,
     StartDeleteProjectInv DEF Start
<1>3. ASSUME NEW r \in Requests, Wait(r) PROVE IInv'
  BY <1>3, TakeOrgLockInv, WaitLockInv, UpdateRowInv, MarkBranchInv, TerminateProjectInv DEF Wait
<1>4. ASSUME NEW r \in Requests, Step(r) PROVE IInv'
  BY <1>4, CheckProjectLimitsInv, InsertProjectInv, CheckBranchLimitsInv, TrySharedInv, InsertBranchInv,
     ProvisionClusterInv, FilterBranchInv, CommitBranchInv, TryExclusiveInv, ReadProjectInv,
     ListBranchesInv, SetCellInv, CommitUpdateInv, NextBranchOfInv, ReadBranchInv, DeprovisionBranchInv,
     UnfilterBranchInv, CommitDeleteInv, ListForDeletionInv, CheckEmptyInv DEF Step
<1> QED
  BY <1>1, <1>2, <1>3, <1>4 DEF StoreNext

(* The inductive invariant holds in every state of every instance. *)
THEOREM StoreIsSound == StoreSpec => []IInv
  BY InitInv, NextInv, PTL DEF StoreSpec

(* The organization never gets beyond its limit of projects: the check and the   *)
(* insert of CreateProject are under one lock of the organization.               *)
THEOREM ProjectsWithinLimit == StoreSpec => []ProjectLimit
<1>1. IInv => ProjectLimit
  BY DEF IInv
<1> QED
  BY <1>1, StoreIsSound, PTL

(* CreateBranch overshoots the limit of a project by less than the number of     *)
(* requests that may create branches.                                            *)
THEOREM OvershootIsBounded == StoreSpec => []BranchOvershoot
<1>1. IInv => BranchOvershoot
  BY DEF IInv
<1> QED
  BY <1>1, StoreIsSound, PTL

(* What the DeleteProject RPC has acknowledged stays deleted, and a deleted       *)
(* branch has no cluster, with whatever else is under way.                        *)
THEOREM DeletionsAreFinal == StoreSpec => []DeletedIsGone
<1>1. IInv => DeletedIsGone
  BY DEF IInv
<1> QED
  BY <1>1, StoreIsSound, PTL

(* Branches that run have the IP filtering of their project, unless an update    *)
(* failed half-way: the lock of the project keeps creations and updates apart.    *)
THEOREM FilteringIsInForce == StoreSpec => []FilterInForce
<1>1. IInv => FilterInForce
  BY DEF IInv
<1> QED
  BY <1>1, StoreIsSound, PTL
=============================================================================
