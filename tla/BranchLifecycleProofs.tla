----------------------- MODULE BranchLifecycleProofs -----------------------
(***************************************************************************)
(* Safety of the branch life cycle, for every set of branches, clusters and *)
(* calls and for every value of the bounds.                                  *)
(***************************************************************************)
EXTENDS BranchLifecycle, TLAPS

(* Deleting clusters keeps the types of the cluster and volume objects. *)
LEMMA DeleteTypes ==
    ASSUME TypeOK, NEW cs \in SUBSET Clusters
    PROVE  /\ Without(cs) \in [Clusters -> ClusterObject]
           /\ Reclaim(cs) \in [1..MaxXVols -> XVolObject]
<1>1. ASSUME NEW c \in Clusters
      PROVE  [cluster[c] EXCEPT !.st = "gone", !.owner = None] \in ClusterObject
  <2>1. cluster[c] \in ClusterObject
    BY DEF TypeOK
  <2> QED
    BY Zenon, <2>1 DEF ClusterObject
<1>2. Without(cs) \in [Clusters -> ClusterObject]
  BY Zenon, <1>1 DEF TypeOK, Without
<1>3. ASSUME NEW v \in 1..MaxXVols
      PROVE  [xvol[v] EXCEPT !.live = FALSE] \in XVolObject
  <2>1. xvol[v] \in XVolObject
    BY DEF TypeOK
  <2> QED
    BY Zenon, <2>1 DEF XVolObject
<1>4. Reclaim(cs) \in [1..MaxXVols -> XVolObject]
  BY <1>3 DEF TypeOK, Reclaim
<1> QED
  BY <1>2, <1>4

(* A volume number that has just been handed out is a volume name. *)
LEMMA ProvisionTypes ==
    ASSUME TypeOK, Provision
    PROVE  /\ xvol' \in [1..MaxXVols -> XVolObject]
           /\ xvols' \in 0..MaxXVols
           /\ xvols + 1 \in XVolName
  BY BoundsAssumption DEF TypeOK, Provision, XVolObject, XVolName

(* One lemma per shape of update: the record stays of its type. *)
LEMMA WkGoto ==
    ASSUME TypeOK, NEW b \in Branches, NEW p \in WkPC,
           wk' = [wk EXCEPT ![b].pc = p]
    PROVE  wk' \in [Branches -> WkState]
<1>1. wk[b] \in WkState
  BY DEF TypeOK
<1>2. [wk[b] EXCEPT !.pc = p] \in WkState
  BY <1>1 DEF WkState
<1>3. wk' = [wk EXCEPT ![b] = [wk[b] EXCEPT !.pc = p]]
  BY DEF TypeOK
<1> QED
  BY <1>2, <1>3 DEF TypeOK

LEMMA WkGotoTaken ==
    ASSUME TypeOK, NEW b \in Branches, NEW p \in WkPC, NEW n \in ClusterName,
           wk' = [wk EXCEPT ![b].pc = p, ![b].taken = n]
    PROVE  wk' \in [Branches -> WkState]
<1>1. wk[b] \in WkState
  BY DEF TypeOK
<1>2. [wk[b] EXCEPT !.pc = p, !.taken = n] \in WkState
  BY Zenon, <1>1 DEF WkState
<1>3. wk' = [wk EXCEPT ![b] = [wk[b] EXCEPT !.pc = p, !.taken = n]]
  BY Zenon DEF TypeOK
<1> QED
  BY <1>2, <1>3 DEF TypeOK

LEMMA WkGotoTerminal ==
    ASSUME TypeOK, NEW b \in Branches, NEW p \in WkPC, NEW t \in BOOLEAN,
           wk' = [wk EXCEPT ![b].pc = p, ![b].terminal = t]
    PROVE  wk' \in [Branches -> WkState]
<1>1. wk[b] \in WkState
  BY DEF TypeOK
<1>2. [wk[b] EXCEPT !.pc = p, !.terminal = t] \in WkState
  BY Zenon, <1>1 DEF WkState
<1>3. wk' = [wk EXCEPT ![b] = [wk[b] EXCEPT !.pc = p, !.terminal = t]]
  BY Zenon DEF TypeOK
<1> QED
  BY <1>2, <1>3 DEF TypeOK

LEMMA WkGotoIdle ==
    ASSUME TypeOK, NEW b \in Branches, wk' = [wk EXCEPT ![b] = WkIdle]
    PROVE  wk' \in [Branches -> WkState]
<1>1. WkIdle \in WkState
  BY BoundsAssumption DEF WkState, WkIdle, WkPC, ClusterName, XVolName
<1> QED
  BY <1>1 DEF TypeOK

LEMMA BranchAssigned ==
    ASSUME TypeOK, NEW b \in Branches, NEW n \in ClusterName, NEW t \in BOOLEAN,
           branch' = [branch EXCEPT ![b].name = n, ![b].awaiting = t]
    PROVE  branch' \in [Branches -> BranchObject]
<1>1. branch[b] \in BranchObject
  BY DEF TypeOK
<1>2. [branch[b] EXCEPT !.name = n, !.awaiting = t] \in BranchObject
  BY Zenon, <1>1 DEF BranchObject
<1>3. branch' = [branch EXCEPT ![b] = [branch[b] EXCEPT !.name = n, !.awaiting = t]]
  BY Zenon DEF TypeOK
<1> QED
  BY <1>2, <1>3 DEF TypeOK

LEMMA BranchNamed ==
    ASSUME TypeOK, NEW b \in Branches, NEW n \in ClusterName,
           branch' = [branch EXCEPT ![b].name = n]
    PROVE  branch' \in [Branches -> BranchObject]
<1>1. branch[b] \in BranchObject
  BY DEF TypeOK
<1>2. [branch[b] EXCEPT !.name = n] \in BranchObject
  BY <1>1 DEF BranchObject
<1>3. branch' = [branch EXCEPT ![b] = [branch[b] EXCEPT !.name = n]]
  BY DEF TypeOK
<1> QED
  BY <1>2, <1>3 DEF TypeOK

LEMMA BranchAwaiting ==
    ASSUME TypeOK, NEW b \in Branches, NEW t \in BOOLEAN,
           branch' = [branch EXCEPT ![b].awaiting = t]
    PROVE  branch' \in [Branches -> BranchObject]
<1>1. branch[b] \in BranchObject
  BY DEF TypeOK
<1>2. [branch[b] EXCEPT !.awaiting = t] \in BranchObject
  BY <1>1 DEF BranchObject
<1>3. branch' = [branch EXCEPT ![b] = [branch[b] EXCEPT !.awaiting = t]]
  BY DEF TypeOK
<1> QED
  BY <1>2, <1>3 DEF TypeOK

LEMMA BranchPrimary ==
    ASSUME TypeOK, NEW b \in Branches, NEW v \in XVolName,
           branch' = [branch EXCEPT ![b].primary = v]
    PROVE  branch' \in [Branches -> BranchObject]
<1>1. branch[b] \in BranchObject
  BY DEF TypeOK
<1>2. [branch[b] EXCEPT !.primary = v] \in BranchObject
  BY <1>1 DEF BranchObject
<1>3. branch' = [branch EXCEPT ![b] = [branch[b] EXCEPT !.primary = v]]
  BY DEF TypeOK
<1> QED
  BY <1>2, <1>3 DEF TypeOK

LEMMA WurStatus ==
    ASSUME TypeOK, NEW b \in Branches, NEW t \in {"unknown", "true", "false"},
           wur' = [wur EXCEPT ![b].st = t]
    PROVE  wur' \in [Branches -> WurObject]
<1>1. wur[b] \in WurObject
  BY DEF TypeOK
<1>2. [wur[b] EXCEPT !.st = t] \in WurObject
  BY <1>1 DEF WurObject
<1>3. wur' = [wur EXCEPT ![b] = [wur[b] EXCEPT !.st = t]]
  BY DEF TypeOK
<1> QED
  BY <1>2, <1>3 DEF TypeOK

LEMMA ClusterClaimed ==
    ASSUME TypeOK, NEW c \in Clusters,
           cluster' = [cluster EXCEPT ![c].st = "live"]
    PROVE  cluster' \in [Clusters -> ClusterObject]
<1>1. cluster[c] \in ClusterObject
  BY DEF TypeOK
<1>2. [cluster[c] EXCEPT !.st = "live"] \in ClusterObject
  BY <1>1 DEF ClusterObject
<1>3. cluster' = [cluster EXCEPT ![c] = [cluster[c] EXCEPT !.st = "live"]]
  BY DEF TypeOK
<1> QED
  BY <1>2, <1>3 DEF TypeOK

LEMMA ClusterOwned ==
    ASSUME TypeOK, NEW c \in Clusters, NEW b \in Branches,
           cluster' = [cluster EXCEPT ![c].owner = b]
    PROVE  cluster' \in [Clusters -> ClusterObject]
<1>1. cluster[c] \in ClusterObject
  BY DEF TypeOK
<1>2. [cluster[c] EXCEPT !.owner = b] \in ClusterObject
  BY <1>1 DEF ClusterObject
<1>3. cluster' = [cluster EXCEPT ![c] = [cluster[c] EXCEPT !.owner = b]]
  BY DEF TypeOK
<1> QED
  BY <1>2, <1>3 DEF TypeOK

LEMMA ClusterSwapped ==
    ASSUME TypeOK, NEW c \in Clusters, NEW v \in XVolName,
           cluster' = [cluster EXCEPT ![c].xvol = v]
    PROVE  cluster' \in [Clusters -> ClusterObject]
<1>1. cluster[c] \in ClusterObject
  BY DEF TypeOK
<1>2. [cluster[c] EXCEPT !.xvol = v] \in ClusterObject
  BY <1>1 DEF ClusterObject
<1>3. cluster' = [cluster EXCEPT ![c] = [cluster[c] EXCEPT !.xvol = v]]
  BY DEF TypeOK
<1> QED
  BY <1>2, <1>3 DEF TypeOK

LEMMA BrGoto ==
    ASSUME TypeOK, NEW b \in Branches, NEW p \in BrPC,
           br' = [br EXCEPT ![b].pc = p]
    PROVE  br' \in [Branches -> BrState]
<1>1. br[b] \in BrState
  BY DEF TypeOK
<1>2. [br[b] EXCEPT !.pc = p] \in BrState
  BY <1>1 DEF BrState
<1>3. br' = [br EXCEPT ![b] = [br[b] EXCEPT !.pc = p]]
  BY DEF TypeOK
<1> QED
  BY <1>2, <1>3 DEF TypeOK

LEMMA BrGotoPrimary ==
    ASSUME TypeOK, NEW b \in Branches, NEW p \in BrPC, NEW v \in XVolName,
           br' = [br EXCEPT ![b].pc = p, ![b].primary = v]
    PROVE  br' \in [Branches -> BrState]
<1>1. br[b] \in BrState
  BY DEF TypeOK
<1>2. [br[b] EXCEPT !.pc = p, !.primary = v] \in BrState
  BY Zenon, <1>1 DEF BrState
<1>3. br' = [br EXCEPT ![b] = [br[b] EXCEPT !.pc = p, !.primary = v]]
  BY Zenon DEF TypeOK
<1> QED
  BY <1>2, <1>3 DEF TypeOK

LEMMA BrGotoIdle ==
    ASSUME TypeOK, NEW b \in Branches, br' = [br EXCEPT ![b] = BrIdle]
    PROVE  br' \in [Branches -> BrState]
<1>1. BrIdle \in BrState
  BY BoundsAssumption DEF BrState, BrIdle, BrPC, ClusterName, XVolName
<1> QED
  BY <1>1 DEF TypeOK

LEMMA CallGotoIdle ==
    ASSUME TypeOK, NEW k \in Calls, call' = [call EXCEPT ![k] = CallIdle]
    PROVE  call' \in [Calls -> CallState]
<1>1. CallIdle \in CallState
  BY BoundsAssumption DEF CallState, CallIdle, CallPC, ClusterName, XVolName
<1> QED
  BY <1>1 DEF TypeOK

(* Initially every object is absent or idle. *)
LEMMA InitTypes == Init => TypeOK
  BY BoundsAssumption
  DEF Init, TypeOK, NoBranchObject, NoWur, WkIdle, BrIdle, CallIdle,
      BranchObject, ClusterObject, XVolObject, WurObject, WkState, BrState,
      CallState, WkPC, BrPC, CallPC, ClusterName, XVolName

(* No step takes a variable out of its type. *)
LEMMA StepTypes == TypeOK /\ [Next]_vars => TypeOK'
<1> SUFFICES ASSUME TypeOK, [Next]_vars PROVE TypeOK'
  OBVIOUS
<1> USE BoundsAssumption, NoneAssumption
<1>1. ASSUME NEW c \in Clusters, PoolRefill(c) PROVE TypeOK'
  BY <1>1, ProvisionTypes DEF PoolRefill, TypeOK, ClusterObject
<1>2. ASSUME NEW c \in Clusters, PoolShrink(c) PROVE TypeOK'
  BY <1>2, DeleteTypes DEF PoolShrink, TypeOK
<1>3. ASSUME NEW c \in Clusters, SidecarDecide(c) PROVE TypeOK'
  BY <1>3 DEF SidecarDecide, TypeOK, ClusterObject
<1>4. ASSUME NEW c \in Clusters, SidecarPatch(c) PROVE TypeOK'
  <2>1. /\ sidecar[c] \in Branches
        /\ branch' = [branch EXCEPT ![sidecar[c]].name = None]
    BY <1>4 DEF SidecarPatch, TypeOK
  <2>2. branch' \in [Branches -> BranchObject]
    BY Zenon, <2>1, BranchNamed DEF ClusterName
  <2> QED
    BY <1>4, <2>2 DEF SidecarPatch, TypeOK
<1>5. ASSUME NEW c \in Clusters, SidecarFail(c) PROVE TypeOK'
  BY <1>5 DEF SidecarFail, Fault, TypeOK
<1>6. ASSUME NEW k \in Calls, NEW b \in Branches, WakeBranch(k, b) PROVE TypeOK'
  <2>1. branch' \in [Branches -> BranchObject]
    BY Zenon, <1>6, BranchAwaiting DEF WakeBranch
  <2>2. branch[b].primary \in XVolName
    BY DEF TypeOK, BranchObject
  <2>3. [pc |-> "get", b |-> b, name |-> None, xvol |-> branch[b].primary] \in CallState
    BY <2>2 DEF CallState, CallPC, ClusterName
  <2>4. call' \in [Calls -> CallState]
    BY <1>6, <2>3 DEF WakeBranch, TypeOK
  <2> QED
    BY <1>6, <2>1, <2>4 DEF WakeBranch, TypeOK
<1>7. ASSUME NEW k \in Calls, NEW b \in Branches, NEW c \in Clusters,
             CreateClaim(k, b, c)
      PROVE  TypeOK'
  <2>1. cluster' \in [Clusters -> ClusterObject]
    BY Zenon, <1>7, ClusterClaimed DEF CreateClaim, Claim
  <2>2. [pc |-> "branch", b |-> b, name |-> c, xvol |-> 0] \in CallState
    BY DEF CallState, CallPC, ClusterName, XVolName
  <2>3. call' \in [Calls -> CallState]
    BY <1>7, <2>2 DEF CreateClaim, TypeOK
  <2> QED
    BY <1>7, <2>1, <2>3 DEF CreateClaim, TypeOK
<1>8. ASSUME NEW k \in Calls, CreateBranch(k) PROVE TypeOK'
  <2>1. call[k].name \in ClusterName
    BY DEF TypeOK, CallState
  <2>2. [exists |-> TRUE, name |-> call[k].name, awaiting |-> FALSE, primary |-> 0]
          \in BranchObject
    BY <2>1 DEF BranchObject, XVolName
  <2>3. branch' \in [Branches -> BranchObject]
    BY Zenon, <1>8, <2>2 DEF CreateBranch, TypeOK
  <2>4. call' \in [Calls -> CallState]
    BY Zenon, <1>8, CallGotoIdle DEF CreateBranch
  <2> QED
    BY <1>8, <2>3, <2>4 DEF CreateBranch, TypeOK
<1>9. ASSUME NEW k \in Calls, EnsureGet(k) PROVE TypeOK'
  <2>1. call[k] \in CallState
    BY DEF TypeOK
  <2>2. /\ [call[k] EXCEPT !.pc = "create"] \in CallState
        /\ [call[k] EXCEPT !.pc = "delete"] \in CallState
        /\ CallIdle \in CallState
    BY <2>1 DEF CallState, CallPC, CallIdle, ClusterName, XVolName
  <2>3. call' \in [Calls -> CallState]
    BY <1>9, <2>2 DEF EnsureGet, TypeOK
  <2> QED
    BY <1>9, <2>3 DEF EnsureGet, TypeOK
<1>10. ASSUME NEW k \in Calls, EnsureDelete(k) PROVE TypeOK'
  <2>1. NoWur \in WurObject
    BY DEF WurObject, NoWur, XVolName
  <2>2. wur' \in [Branches -> WurObject]
    BY Zenon, <1>10, <2>1 DEF EnsureDelete, TypeOK
  <2>3. call' \in [Calls -> CallState]
    BY <1>10 DEF EnsureDelete, TypeOK, CallState, CallPC
  <2> QED
    BY <1>10, <2>2, <2>3 DEF EnsureDelete, TypeOK
<1>11. ASSUME NEW k \in Calls, EnsureCreate(k) PROVE TypeOK'
  <2>1. requests' \in 0..MaxRequests
    BY <1>11 DEF EnsureCreate, TypeOK
  <2>2. call[k].xvol \in XVolName
    BY DEF TypeOK, CallState
  <2>3. requests < MaxRequests =>
          [st |-> "new", uid |-> requests + 1, xvol |-> call[k].xvol] \in WurObject
    BY <2>2 DEF WurObject, TypeOK
  <2>4. wur' \in [Branches -> WurObject]
    BY Zenon, <1>11, <2>3 DEF EnsureCreate, TypeOK
  <2>5. call' \in [Calls -> CallState]
    BY Zenon, <1>11, CallGotoIdle DEF EnsureCreate
  <2> QED
    BY <1>11, <2>1, <2>4, <2>5 DEF EnsureCreate, TypeOK
<1>12. ASSUME NEW k \in Calls, CallFail(k) PROVE TypeOK'
  <2>1. call' \in [Calls -> CallState]
    BY Zenon, <1>12, CallGotoIdle DEF CallFail
  <2> QED
    BY <1>12, <2>1 DEF CallFail, Fault, TypeOK
<1>13. ASSUME NEW b \in Branches, HibernateBranch(b) PROVE TypeOK'
  <2>1. branch' = [branch EXCEPT ![b].name = None, ![b].awaiting = FALSE]
    BY <1>13 DEF HibernateBranch
  <2>2. branch' \in [Branches -> BranchObject]
    BY Zenon, <2>1, BranchAssigned DEF ClusterName
  <2> QED
    BY <1>13, <2>2 DEF HibernateBranch, TypeOK
<1>14. ASSUME NEW b \in Branches, SyncBranch(b) PROVE TypeOK'
  BY <1>14 DEF SyncBranch, TypeOK
<1>15. ASSUME NEW b \in Branches, SyncWur(b) PROVE TypeOK'
  BY <1>15 DEF SyncWur, TypeOK, WurObject
<1>16. ASSUME NEW b \in Branches, WkSkip(b) PROVE TypeOK'
  BY <1>16 DEF WkSkip, TypeOK
<1>17. ASSUME NEW b \in Branches, WkExpire(b) PROVE TypeOK'
  <2>1. NoWur \in WurObject
    BY DEF WurObject, NoWur, XVolName
  <2> QED
    BY <1>17, <2>1 DEF WkExpire, TypeOK
<1>18. ASSUME NEW b \in Branches, WkBegin(b) PROVE TypeOK'
  <2>1. wur' \in [Branches -> WurObject]
    BY Zenon, <1>18, WurStatus DEF WkBegin
  <2>2. seenWur[b].uid \in 0..MaxRequests /\ seenWur[b].xvol \in XVolName
    BY DEF TypeOK, WurObject
  <2>3. [WkIdle EXCEPT !.pc = "begun", !.uid = seenWur[b].uid,
                       !.xvol = seenWur[b].xvol] \in WkState
    BY Zenon, <2>2 DEF WkState, WkIdle, WkPC, ClusterName
  <2>4. wk' \in [Branches -> WkState]
    BY <1>18, <2>3 DEF WkBegin, TypeOK
  <2> QED
    BY <1>18, <2>1, <2>4 DEF WkBegin, TypeOK
<1>19. ASSUME NEW b \in Branches, WkGetBranch(b) PROVE TypeOK'
  <2>1. wk[b] \in WkState /\ seenBranch[b].name \in ClusterName
    BY DEF TypeOK, BranchObject
  <2> DEFINE p == CASE ~seenBranch[b].exists -> "failing"
                    [] seenBranch[b].name # None -> "named"
                    [] OTHER -> "noname"
  <2>2. /\ p \in WkPC
        /\ wk' = [wk EXCEPT ![b].name = seenBranch[b].name, ![b].pc = p]
    BY <1>19 DEF WkGetBranch, WkPC
  <2> HIDE DEF p
  <2>3. wk' \in [Branches -> WkState]
    BY Zenon, <2>1, <2>2 DEF TypeOK, WkState
  <2> QED
    BY <1>19, <2>3 DEF WkGetBranch, TypeOK
<1>20. ASSUME NEW b \in Branches, NEW c \in Clusters, WkTake(b, c) PROVE TypeOK'
  <2>1. cluster' \in [Clusters -> ClusterObject]
    BY Zenon, <1>20, ClusterClaimed DEF WkTake, Claim
  <2>2. wk' = [wk EXCEPT ![b].pc = "claimed", ![b].taken = c]
    BY <1>20 DEF WkTake
  <2>3. "claimed" \in WkPC /\ c \in ClusterName
    BY DEF WkPC, ClusterName
  <2>4. wk' \in [Branches -> WkState]
    BY Zenon, <2>2, <2>3, WkGotoTaken
  <2> QED
    BY <1>20, <2>1, <2>4 DEF WkTake, TypeOK
<1>21. ASSUME NEW b \in Branches, WkTakeFails(b) PROVE TypeOK'
  <2>1. wk' \in [Branches -> WkState]
    <3>1. wk' = [wk EXCEPT ![b].pc = "failing"] /\ "failing" \in WkPC
      BY <1>21 DEF WkTakeFails, WkPC
    <3> QED
      BY Zenon, <3>1, WkGoto
  <2> QED
    BY <1>21, <2>1 DEF WkTakeFails, TypeOK
<1>22. ASSUME NEW b \in Branches, WkWakeUp(b) PROVE TypeOK'
  <2>1. wk' \in [Branches -> WkState]
    <3>1. wk' = [wk EXCEPT ![b].pc = "annotated"] /\ "annotated" \in WkPC
      BY <1>22 DEF WkWakeUp, WkPC
    <3> QED
      BY Zenon, <3>1, WkGoto
  <2>2. wk[b].xvol \in XVolName
    BY DEF TypeOK, WkState
  <2>3. cluster' \in [Clusters -> ClusterObject]
    <3>1. cluster' = [cluster EXCEPT ![wk[b].taken].xvol = wk[b].xvol]
      BY <1>22 DEF WkWakeUp
    <3>2. CASE wk[b].taken \in Clusters
      BY Zenon, <2>2, <3>1, <3>2, ClusterSwapped
    <3>3. CASE wk[b].taken \notin Clusters
      BY Zenon, <3>1, <3>3 DEF TypeOK
    <3> QED
      BY <3>2, <3>3
  <2> QED
    BY <1>22, <2>1, <2>3 DEF WkWakeUp, TypeOK
<1>23. ASSUME NEW b \in Branches, WkAssign(b) PROVE TypeOK'
  <2>1. wk' \in [Branches -> WkState]
    <3>1. /\ \/ wk' = [wk EXCEPT ![b].pc = "assigned"]
             \/ wk' = [wk EXCEPT ![b].pc = "reassigned"]
          /\ "assigned" \in WkPC /\ "reassigned" \in WkPC
      BY <1>23 DEF WkAssign, WkPC
    <3> QED
      BY <3>1, WkGoto
  <2>2. PICK n \in ClusterName :
          branch' = [branch EXCEPT ![b].name = n, ![b].awaiting = FALSE]
    <3>1. wk[b].taken \in ClusterName /\ wk[b].name \in ClusterName
      BY DEF TypeOK, WkState
    <3> QED
      BY <1>23, <3>1 DEF WkAssign
  <2>3. branch' \in [Branches -> BranchObject]
    BY Zenon, <2>2, BranchAssigned
  <2> QED
    BY <1>23, <2>1, <2>3 DEF WkAssign, TypeOK
<1>24. ASSUME NEW b \in Branches, WkSucceed(b) PROVE TypeOK'
  <2>1. wk' \in [Branches -> WkState]
    BY Zenon, <1>24, WkGotoIdle DEF WkSucceed
  <2>2. wur' \in [Branches -> WurObject]
    BY Zenon, <1>24, WurStatus DEF WkSucceed
  <2> QED
    BY <1>24, <2>1, <2>2 DEF WkSucceed, TypeOK
<1>25. ASSUME NEW b \in Branches, WkConflict(b) PROVE TypeOK'
  <2>1. wk' \in [Branches -> WkState]
    <3>1. wk' = [wk EXCEPT ![b].pc = "failing"] /\ "failing" \in WkPC
      BY <1>25 DEF WkConflict, WkPC
    <3> QED
      BY Zenon, <3>1, WkGoto
  <2> QED
    BY <1>25, <2>1 DEF WkConflict, TypeOK
<1>26. ASSUME NEW b \in Branches, WkFail(b) PROVE TypeOK'
  <2>1. PICK t \in BOOLEAN :
          wk' = [wk EXCEPT ![b].pc = "failing", ![b].terminal = t]
    BY Zenon, <1>26 DEF WkFail
  <2>2. "failing" \in WkPC
    BY DEF WkPC
  <2>3. wk' \in [Branches -> WkState]
    BY Zenon, <2>1, <2>2, WkGotoTerminal
  <2> QED
    BY <1>26, <2>3 DEF WkFail, Fault, TypeOK
<1>27. ASSUME NEW b \in Branches, WkUnwind(b) PROVE TypeOK'
  <2>1. {wk[b].taken} \ {None} \in SUBSET Clusters
    BY DEF TypeOK, WkState, ClusterName
  <2>2. /\ Without({wk[b].taken} \ {None}) \in [Clusters -> ClusterObject]
        /\ Reclaim({wk[b].taken} \ {None}) \in [1..MaxXVols -> XVolObject]
    BY <2>1, DeleteTypes
  <2>3. cluster' \in [Clusters -> ClusterObject] /\ xvol' \in [1..MaxXVols -> XVolObject]
    BY Zenon, <1>27, <2>2 DEF WkUnwind, TypeOK
  <2>4. faults' \in 0..MaxFaults
    BY <1>27 DEF WkUnwind, TypeOK
  <2>5. wur' \in [Branches -> WurObject]
    <3>1. wur' = wur \/ wur' = [wur EXCEPT ![b].st = "false"]
      BY <1>27 DEF WkUnwind
    <3> QED
      BY <3>1, WurStatus DEF TypeOK
  <2>6. queued' \in [Branches -> BOOLEAN]
    BY <1>27 DEF WkUnwind, TypeOK
  <2>7. wk' \in [Branches -> WkState]
    BY Zenon, <1>27, WkGotoIdle DEF WkUnwind
  <2> QED
    BY Zenon, <1>27, <2>3, <2>4, <2>5, <2>6, <2>7 DEF WkUnwind, TypeOK
<1>28. ASSUME NEW b \in Branches, BrStart(b) PROVE TypeOK'
  <2>1. [pc |-> "cluster", name |-> seenBranch[b].name,
         primary |-> seenBranch[b].primary] \in BrState
    BY DEF TypeOK, BrState, BrPC, BranchObject
  <2> QED
    BY <1>28, <2>1 DEF BrStart, TypeOK
<1>29. ASSUME NEW b \in Branches, BrCluster(b) PROVE TypeOK'
  <2>1. /\ xvol' \in [1..MaxXVols -> XVolObject]
        /\ xvols' \in 0..MaxXVols
    BY <1>29, ProvisionTypes DEF BrCluster, TypeOK
  <2>2. cluster' \in [Clusters -> ClusterObject]
    <3> DEFINE n == br[b].name
    <3>1. \/ cluster' = cluster
          \/ cluster' = [cluster EXCEPT ![n].owner = b]
          \/ /\ Provision
             /\ cluster' = [cluster EXCEPT
                              ![n] = [st |-> "live", owner |-> b, xvol |-> xvols + 1]]
      BY <1>29 DEF BrCluster
    <3>2. CASE cluster' = [cluster EXCEPT ![n].owner = b]
      <4>1. CASE n \in Clusters
        BY Zenon, <3>2, <4>1, ClusterOwned
      <4>2. CASE n \notin Clusters
        BY Zenon, <3>2, <4>2 DEF TypeOK
      <4> QED
        BY <4>1, <4>2
    <3>3. ASSUME Provision
          PROVE  [st |-> "live", owner |-> b, xvol |-> xvols + 1] \in ClusterObject
      BY <3>3, ProvisionTypes DEF ClusterObject
    <3> QED
      BY ZenonT(60), <3>1, <3>2, <3>3 DEF TypeOK
  <2>3. br' \in [Branches -> BrState]
    <3>1. br' = [br EXCEPT ![b].pc = "status"] /\ "status" \in BrPC
      BY <1>29 DEF BrCluster, BrPC
    <3> QED
      BY Zenon, <3>1, BrGoto
  <2> QED
    BY <1>29, <2>1, <2>2, <2>3 DEF BrCluster, TypeOK
<1>30. ASSUME NEW b \in Branches, BrStatus(b) PROVE TypeOK'
  <2> DEFINE n == br[b].name
             v == cluster[n].xvol
  <2>1. n # None => v \in XVolName
    BY DEF TypeOK, BrState, ClusterName, ClusterObject
  <2>2. "retain" \in BrPC /\ "apply" \in BrPC
    BY DEF BrPC
  <2>3. \/ br' = [br EXCEPT ![b].pc = "retain"]
        \/ n # None /\ br' = [br EXCEPT ![b].pc = "retain", ![b].primary = v]
        \/ br' = [br EXCEPT ![b].pc = "apply"]
    BY ZenonT(60), <1>30 DEF BrStatus
  <2>4. br' \in [Branches -> BrState]
    <3>1. CASE n # None /\ br' = [br EXCEPT ![b].pc = "retain", ![b].primary = v]
      BY Zenon, <3>1, <2>1, <2>2, BrGotoPrimary
    <3> QED
      BY <2>2, <2>3, <3>1, BrGoto
  <2> QED
    BY <1>30, <2>4 DEF BrStatus, TypeOK
<1>31. ASSUME NEW b \in Branches, BrRetain(b) PROVE TypeOK'
  <2>1. br' \in [Branches -> BrState]
    <3>1. /\ \/ br' = [br EXCEPT ![b].pc = "owned"]
             \/ br' = [br EXCEPT ![b].pc = "apply"]
          /\ "owned" \in BrPC /\ "apply" \in BrPC
      BY <1>31 DEF BrRetain, BrPC
    <3> QED
      BY <3>1, BrGoto
  <2>2. xvol' \in [1..MaxXVols -> XVolObject]
    <3>1. PICK vs : \/ xvol' = xvol
                    \/ xvol' = [v \in 1..MaxXVols |->
                                  IF v \in vs THEN [xvol[v] EXCEPT !.retainedBy = b]
                                              ELSE xvol[v]]
      BY Zenon, <1>31 DEF BrRetain
    <3>2. \A v \in 1..MaxXVols : /\ xvol[v] \in XVolObject
                                 /\ [xvol[v] EXCEPT !.retainedBy = b] \in XVolObject
      BY SMTT(40) DEF TypeOK, XVolObject
    <3> QED
      BY <3>1, <3>2 DEF TypeOK
  <2> QED
    BY <1>31, <2>1, <2>2 DEF BrRetain, TypeOK
<1>32. ASSUME NEW b \in Branches, BrOwned(b) PROVE TypeOK'
  <2>1. Owned(b) \ {br[b].name} \in SUBSET Clusters
    BY DEF Owned
  <2>2. /\ cluster' \in [Clusters -> ClusterObject]
        /\ xvol' \in [1..MaxXVols -> XVolObject]
    BY <1>32, <2>1, DeleteTypes DEF BrOwned
  <2>3. br' \in [Branches -> BrState]
    <3>1. br' = [br EXCEPT ![b].pc = "apply"] /\ "apply" \in BrPC
      BY <1>32 DEF BrOwned, BrPC
    <3> QED
      BY Zenon, <3>1, BrGoto
  <2> QED
    BY Zenon, <1>32, <2>2, <2>3 DEF BrOwned, TypeOK
<1>33. ASSUME NEW b \in Branches, BrFail(b) PROVE TypeOK'
  <2>1. BrIdle \in BrState /\ [br[b] EXCEPT !.pc = "apply"] \in BrState
    <3>1. br[b] \in BrState
      BY DEF TypeOK
    <3>2. BrIdle \in BrState
      BY DEF BrState, BrIdle, BrPC, ClusterName, XVolName
    <3> QED
      BY <3>1, <3>2 DEF BrState, BrPC
  <2>2. br' \in [Branches -> BrState]
    BY <1>33, <2>1 DEF BrFail, TypeOK
  <2> QED
    BY <1>33, <2>2 DEF BrFail, Fault, TypeOK
<1>34. ASSUME NEW b \in Branches, BrApply(b) PROVE TypeOK'
  <2>1. br' \in [Branches -> BrState]
    BY Zenon, <1>34, BrGotoIdle DEF BrApply
  <2>2. br[b].primary \in XVolName
    BY DEF TypeOK, BrState
  <2>3. branch' \in [Branches -> BranchObject]
    BY Zenon, <1>34, <2>2, BranchPrimary DEF BrApply
  <2> QED
    BY <1>34, <2>1, <2>3 DEF BrApply, TypeOK
<1>35. CASE OperatorRestart
  <2>1. WkIdle \in WkState /\ BrIdle \in BrState
    BY DEF WkState, WkIdle, WkPC, BrState, BrIdle, BrPC, ClusterName, XVolName
  <2> QED
    BY <1>35, <2>1 DEF OperatorRestart, Fault, TypeOK
<1>36. CASE UNCHANGED vars
  BY <1>36 DEF vars, TypeOK
<1> QED
  BY <1>1, <1>2, <1>3, <1>4, <1>5, <1>6, <1>7, <1>8, <1>9, <1>10, <1>11, <1>12,
     <1>13, <1>14, <1>15, <1>16, <1>17, <1>18, <1>19, <1>20, <1>21, <1>22, <1>23,
     <1>24, <1>25, <1>26, <1>27, <1>28, <1>29, <1>30, <1>31, <1>32, <1>33, <1>34,
     <1>35, <1>36
  DEF Next

(* Every reachable state is well typed: the reconcilers and the clusters     *)
(* service only ever store cluster names, volumes and request numbers that    *)
(* exist in the model.                                                        *)
THEOREM TypeCorrect == Spec => []TypeOK
  BY InitTypes, StepTypes, PTL DEF Spec
-----------------------------------------------------------------------------
(* Branch a has a claim on cluster c: membership in Holds(a), spelled out. *)
Held(a, c) ==
    \/ branch[a].name = c \/ seenBranch[a].name = c \/ br[a].name = c
    \/ wk[a].name = c \/ wk[a].taken = c
    \/ \E k \in Calls : call[k].b = a /\ call[k].name = c
    \/ cluster[c].owner = a

LEMMA HoldsAreHeld ==
    ASSUME TypeOK, NEW a \in Branches
    PROVE  Holds(a) = {c \in Clusters : Held(a, c)}
  BY NoneAssumption
  DEF Holds, Held, TypeOK, BranchObject, WkState, BrState, CallState, ClusterName

(* ClaimedOnce, cluster by cluster. *)
HeldOnce ==
    /\ \A a, b \in Branches : \A c \in Clusters :
         a # b => ~(Held(a, c) /\ Held(b, c))
    /\ \A b \in Branches : \A c \in Clusters :
         Held(b, c) => cluster[c].st \in {"live", "gone"}

LEMMA ClaimedOnceHeld == TypeOK => (ClaimedOnce <=> HeldOnce)
  BY HoldsAreHeld DEF ClaimedOnce, HeldOnce

(* A deleted cluster is gone and has no owner; the others are untouched. *)
LEMMA DeleteFields ==
    ASSUME TypeOK, NEW cs, NEW c \in Clusters
    PROVE  /\ Without(cs)[c].owner \in {cluster[c].owner, None}
           /\ Without(cs)[c].st \in {cluster[c].st, "gone"}
<1>1. cluster[c] \in ClusterObject
  BY DEF TypeOK
<1> QED
  BY <1>1 DEF Without, ClusterObject

(* What every step but a claim does: branches gain no claims, and a cluster   *)
(* that has left the pool stays out of it.                                     *)
NoNewClaims ==
    /\ \A a \in Branches : \A c \in Clusters : Held(a, c)' => Held(a, c)
    /\ \A c \in Clusters : cluster[c].st \in {"live", "gone"}
                             => cluster'[c].st \in {"live", "gone"}

(* What a claim of cluster c for branch b does. *)
NewClaim(b, c) ==
    /\ cluster[c].st = "pool" /\ cluster'[c].st = "live"
    /\ \A a \in Branches : \A d \in Clusters :
         Held(a, d)' => Held(a, d) \/ (a = b /\ d = c)
    /\ \A d \in Clusters : cluster[d].st \in {"live", "gone"}
                             => cluster'[d].st \in {"live", "gone"}

(* Every step of the system is one or the other. *)
LEMMA StepClaims ==
    ASSUME TypeOK, [Next]_vars, ClaimedOnce
    PROVE  NoNewClaims \/ \E b \in Branches, c \in Clusters : NewClaim(b, c)
<1> USE NoneAssumption
<1>1. ASSUME NEW c \in Clusters, PoolRefill(c) PROVE NoNewClaims
  BY <1>1 DEF PoolRefill, NoNewClaims, Held, TypeOK, ClusterObject
<1>2. ASSUME NEW c \in Clusters, PoolShrink(c) PROVE NoNewClaims
  BY Zenon, <1>2 DEF PoolShrink, NoNewClaims, Held, TypeOK, Without, ClusterObject
<1>3. ASSUME NEW c \in Clusters, SidecarDecide(c) PROVE NoNewClaims
  BY <1>3 DEF SidecarDecide, NoNewClaims, Held, TypeOK
<1>4. ASSUME NEW c \in Clusters, SidecarPatch(c) PROVE NoNewClaims
  BY <1>4 DEF SidecarPatch, NoNewClaims, Held, TypeOK, BranchObject
<1>5. ASSUME NEW c \in Clusters, SidecarFail(c) PROVE NoNewClaims
  BY <1>5 DEF SidecarFail, NoNewClaims, Held, TypeOK
<1>6. ASSUME NEW k \in Calls, NEW b \in Branches, WakeBranch(k, b) PROVE NoNewClaims
  BY <1>6 DEF WakeBranch, NoNewClaims, Held, TypeOK, BranchObject, CallState
<1>7. ASSUME NEW k \in Calls, CreateBranch(k) PROVE NoNewClaims
  BY ZenonT(60), <1>7 DEF CreateBranch, NoNewClaims, Held, TypeOK, BranchObject, CallState, CallIdle
<1>8. ASSUME NEW k \in Calls, EnsureGet(k) PROVE NoNewClaims
  BY <1>8 DEF EnsureGet, NoNewClaims, Held, TypeOK, CallState, CallIdle
<1>9. ASSUME NEW k \in Calls, EnsureDelete(k) PROVE NoNewClaims
  BY <1>9 DEF EnsureDelete, NoNewClaims, Held, TypeOK, CallState
<1>10. ASSUME NEW k \in Calls, EnsureCreate(k) PROVE NoNewClaims
  BY ZenonT(60), <1>10 DEF EnsureCreate, NoNewClaims, Held, TypeOK, CallIdle
<1>11. ASSUME NEW k \in Calls, CallFail(k) PROVE NoNewClaims
  BY <1>11 DEF CallFail, NoNewClaims, Held, TypeOK, CallIdle
<1>12. ASSUME NEW b \in Branches, HibernateBranch(b) PROVE NoNewClaims
  BY <1>12 DEF HibernateBranch, NoNewClaims, Held, TypeOK, BranchObject
<1>13. ASSUME NEW b \in Branches, SyncBranch(b) PROVE NoNewClaims
  BY ZenonT(60), <1>13 DEF SyncBranch, NoNewClaims, Held, TypeOK
<1>14. ASSUME NEW b \in Branches, SyncWur(b) PROVE NoNewClaims
  BY <1>14 DEF SyncWur, NoNewClaims, Held, TypeOK
<1>15. ASSUME NEW b \in Branches, WkSkip(b) PROVE NoNewClaims
  BY <1>15 DEF WkSkip, NoNewClaims, Held, TypeOK
<1>16. ASSUME NEW b \in Branches, WkExpire(b) PROVE NoNewClaims
  BY <1>16 DEF WkExpire, NoNewClaims, Held, TypeOK
<1>17. ASSUME NEW b \in Branches, WkBegin(b) PROVE NoNewClaims
  BY <1>17 DEF WkBegin, NoNewClaims, Held, TypeOK, WkIdle
<1>18. ASSUME NEW b \in Branches, WkGetBranch(b) PROVE NoNewClaims
  BY <1>18 DEF WkGetBranch, NoNewClaims, Held, TypeOK, WkState
<1>19. ASSUME NEW b \in Branches, WkTakeFails(b) PROVE NoNewClaims
  BY <1>19 DEF WkTakeFails, NoNewClaims, Held, TypeOK, WkState
<1>20. ASSUME NEW b \in Branches, WkWakeUp(b) PROVE NoNewClaims
  BY <1>20 DEF WkWakeUp, NoNewClaims, Held, TypeOK, WkState, ClusterObject
<1>21. ASSUME NEW b \in Branches, WkAssign(b) PROVE NoNewClaims
  <2>1. \E n \in {wk[b].taken, wk[b].name} : \E p :
          /\ wk' = [wk EXCEPT ![b].pc = p]
          /\ branch' = [branch EXCEPT ![b].name = n, ![b].awaiting = FALSE]
    BY <1>21 DEF WkAssign
  <2>2. \A a \in Branches :
          /\ wk'[a].name = wk[a].name
          /\ wk'[a].taken = wk[a].taken
          /\ branch'[a].name \in {branch[a].name, wk[a].name, wk[a].taken}
    BY <2>1 DEF TypeOK, BranchObject, WkState
  <2>3. UNCHANGED <<seenBranch, br, call, cluster>>
    BY <1>21 DEF WkAssign
  <2> QED
    BY <2>2, <2>3 DEF NoNewClaims, Held
<1>22. ASSUME NEW b \in Branches, WkSucceed(b) PROVE NoNewClaims
  BY <1>22 DEF WkSucceed, NoNewClaims, Held, TypeOK, WkIdle
<1>23. ASSUME NEW b \in Branches, WkConflict(b) PROVE NoNewClaims
  BY <1>23 DEF WkConflict, NoNewClaims, Held, TypeOK, WkState
<1>24. ASSUME NEW b \in Branches, WkFail(b) PROVE NoNewClaims
  BY <1>24 DEF WkFail, NoNewClaims, Held, TypeOK, WkState
<1>25. ASSUME NEW b \in Branches, WkUnwind(b) PROVE NoNewClaims
  <2>1. \A a \in Branches : /\ wk'[a].name \in {wk[a].name, None}
                            /\ wk'[a].taken \in {wk[a].taken, None}
    BY <1>25 DEF WkUnwind, TypeOK, WkIdle
  <2>2. cluster' = cluster \/ cluster' = Without({wk[b].taken} \ {None})
    BY <1>25 DEF WkUnwind
  <2>3. \A c \in Clusters : /\ cluster'[c].owner \in {cluster[c].owner, None}
                            /\ cluster'[c].st \in {cluster[c].st, "gone"}
    BY <2>2, DeleteFields
  <2>4. UNCHANGED <<branch, seenBranch, br, call>>
    BY <1>25 DEF WkUnwind
  <2> QED
    BY <2>1, <2>3, <2>4 DEF NoNewClaims, Held
<1>26. ASSUME NEW b \in Branches, BrStart(b) PROVE NoNewClaims
  BY <1>26 DEF BrStart, NoNewClaims, Held, TypeOK, BrState
<1>27. ASSUME NEW b \in Branches, BrCluster(b) PROVE NoNewClaims
  <2>1. \A a \in Branches : br'[a].name = br[a].name
    BY <1>27 DEF BrCluster, TypeOK, BrState
  <2>2. UNCHANGED <<branch, seenBranch, wk, call>>
    BY <1>27 DEF BrCluster
  <2>3. \A c \in Clusters :
          /\ cluster'[c].owner = cluster[c].owner \/ (c = br[b].name /\ cluster'[c].owner = b)
          /\ cluster'[c].st \in {cluster[c].st, "live"}
    BY <1>27 DEF BrCluster, TypeOK, ClusterObject
  <2> QED
    BY <2>1, <2>2, <2>3 DEF NoNewClaims, Held
<1>28. ASSUME NEW b \in Branches, BrStatus(b) PROVE NoNewClaims
  <2>1. PICK p, v : \/ br' = [br EXCEPT ![b].pc = p]
                    \/ br' = [br EXCEPT ![b].pc = p, ![b].primary = v]
    BY ZenonT(60), <1>28 DEF BrStatus
  <2>2. \A a \in Branches : br'[a].name = br[a].name
    <3>1. CASE br' = [br EXCEPT ![b].pc = p]
      BY <3>1 DEF TypeOK, BrState
    <3>2. CASE br' = [br EXCEPT ![b].pc = p, ![b].primary = v]
      BY <3>2 DEF TypeOK, BrState
    <3> QED
      BY <2>1, <3>1, <3>2
  <2>3. UNCHANGED <<branch, seenBranch, wk, call, cluster>>
    BY <1>28 DEF BrStatus
  <2> QED
    BY <2>2, <2>3 DEF NoNewClaims, Held
<1>29. ASSUME NEW b \in Branches, BrRetain(b) PROVE NoNewClaims
  BY SMTT(40), <1>29 DEF BrRetain, NoNewClaims, Held, TypeOK, BrState
<1>30. ASSUME NEW b \in Branches, BrOwned(b) PROVE NoNewClaims
  <2>1. \A c \in Clusters : /\ cluster'[c].owner \in {cluster[c].owner, None}
                            /\ cluster'[c].st \in {cluster[c].st, "gone"}
    BY <1>30, DeleteFields DEF BrOwned
  <2>2. \A a \in Branches : br'[a].name = br[a].name
    BY <1>30 DEF BrOwned, TypeOK, BrState
  <2>3. UNCHANGED <<branch, seenBranch, wk, call>>
    BY <1>30 DEF BrOwned
  <2> QED
    BY <2>1, <2>2, <2>3 DEF NoNewClaims, Held
<1>31. ASSUME NEW b \in Branches, BrFail(b) PROVE NoNewClaims
  BY <1>31 DEF BrFail, NoNewClaims, Held, TypeOK, BrState, BrIdle
<1>32. ASSUME NEW b \in Branches, BrApply(b) PROVE NoNewClaims
  BY <1>32 DEF BrApply, NoNewClaims, Held, TypeOK, BranchObject, BrIdle
<1>33. ASSUME NEW k \in Calls, NEW b \in Branches, NEW c \in Clusters,
             CreateClaim(k, b, c)
      PROVE  NewClaim(b, c)
  BY <1>33 DEF CreateClaim, Claim, NewClaim, Held, TypeOK, ClusterObject
<1>34. ASSUME NEW b \in Branches, NEW c \in Clusters, WkTake(b, c)
      PROVE  NewClaim(b, c)
  BY <1>34 DEF WkTake, Claim, NewClaim, Held, TypeOK, ClusterObject, WkState
<1>35. CASE OperatorRestart
  BY <1>35 DEF OperatorRestart, NoNewClaims, Held, WkIdle, BrIdle
<1>36. CASE UNCHANGED vars
  BY <1>36 DEF vars, NoNewClaims, Held
<1> QED
  BY <1>1, <1>2, <1>3, <1>4, <1>5, <1>6, <1>7, <1>8, <1>9, <1>10, <1>11,
     <1>12, <1>13, <1>14, <1>15, <1>16, <1>17, <1>18, <1>19, <1>20, <1>21,
     <1>22, <1>23, <1>24, <1>25, <1>26, <1>27, <1>28, <1>29, <1>30, <1>31,
     <1>32, <1>33, <1>34, <1>35, <1>36
  DEF Next

(* A claim takes a cluster out of the pool, where no branch has a claim on it. *)
LEMMA StepClaimedOnce == TypeOK /\ ClaimedOnce /\ [Next]_vars => ClaimedOnce'
<1> SUFFICES ASSUME TypeOK, ClaimedOnce, [Next]_vars PROVE ClaimedOnce'
  OBVIOUS
<1>1. TypeOK'
  BY StepTypes
<1>2. HeldOnce
  BY ClaimedOnceHeld
<1>3. ASSUME NoNewClaims PROVE HeldOnce'
  BY <1>2, <1>3 DEF NoNewClaims, HeldOnce
<1>4. ASSUME NEW b \in Branches, NEW c \in Clusters, NewClaim(b, c)
      PROVE  HeldOnce'
  BY <1>2, <1>4 DEF NewClaim, HeldOnce
<1>5. HeldOnce'
  BY <1>3, <1>4, StepClaims
<1> QED
  BY <1>1, <1>5, ClaimedOnceHeld, PTL

(* Initially nobody has a claim on anything. *)
LEMMA InitClaimedOnce == Init => ClaimedOnce
  BY NoneAssumption
  DEF Init, ClaimedOnce, Holds, NoBranchObject, WkIdle, BrIdle, CallIdle

(* No two branches ever have a claim on the same pool cluster, and the pool   *)
(* never owns a cluster a branch has a claim on, however creates, wakeups,     *)
(* hibernations, stale caches, failures and restarts interleave: the           *)
(* versioned updates of orphanCluster and takeClusterFromPool are enough.      *)
THEOREM ClustersClaimedOnce == Spec => []ClaimedOnce
<1>1. TypeOK /\ ClaimedOnce /\ [Next]_vars => TypeOK' /\ ClaimedOnce'
  BY StepTypes, StepClaimedOnce
<1> QED
  BY <1>1, InitTypes, InitClaimedOnce, PTL DEF Spec

-----------------------------------------------------------------------------
(* What makes a settled request final.  A reconcile works on a request that   *)
(* was in progress when it began, holds no cluster between reconciles, and     *)
(* request numbers are handed out once.                                        *)
RequestInv ==
    \A b \in Branches :
        /\ wur[b].uid <= requests /\ seenWur[b].uid <= requests
        /\ wk[b].uid <= requests
        /\ wur[b].st # "absent" => wur[b].uid > 0
        /\ wk[b].pc = "idle" => wk[b].taken = None
        /\ wk[b].pc # "idle" /\ WurCurrent(b) => wur[b].st = "unknown"

(* The variables RequestInv speaks of are written by few actions. *)
requestVars == <<wur, seenWur, wk, requests>>

LEMMA ClusterStepFrame ==
    ASSUME NEW c \in Clusters,
           \/ PoolRefill(c) \/ PoolShrink(c)
           \/ SidecarDecide(c) \/ SidecarPatch(c) \/ SidecarFail(c)
    PROVE  UNCHANGED requestVars
  BY DEF requestVars, PoolRefill, PoolShrink, SidecarDecide, SidecarPatch,
         SidecarFail

LEMMA CallStepFrame ==
    ASSUME NEW k \in Calls,
           \/ \E b \in Branches : \/ WakeBranch(k, b)
                                  \/ \E c \in Clusters : CreateClaim(k, b, c)
           \/ CreateBranch(k) \/ EnsureGet(k) \/ CallFail(k)
    PROVE  UNCHANGED requestVars
  BY DEF requestVars, WakeBranch, CreateClaim, CreateBranch, EnsureGet, CallFail

LEMMA BranchStepFrame ==
    ASSUME NEW b \in Branches,
           \/ HibernateBranch(b) \/ SyncBranch(b) \/ WkSkip(b)
           \/ BrStart(b) \/ BrCluster(b) \/ BrStatus(b) \/ BrRetain(b)
           \/ BrOwned(b) \/ BrFail(b) \/ BrApply(b)
    PROVE  UNCHANGED requestVars
  BY Zenon DEF requestVars, HibernateBranch, SyncBranch, WkSkip, BrStart, BrCluster,
         BrStatus, BrRetain, BrOwned, BrFail, BrApply

(* Every step leaves them alone or is one of the actions listed here. *)
LEMMA RequestSteps ==
    ASSUME [Next]_vars
    PROVE  \/ UNCHANGED requestVars
           \/ OperatorRestart
           \/ \E k \in Calls : EnsureDelete(k) \/ EnsureCreate(k)
           \/ \E b \in Branches :
                \/ SyncWur(b) \/ WkExpire(b) \/ WkBegin(b) \/ WkGetBranch(b)
                \/ WkTakeFails(b) \/ WkWakeUp(b) \/ WkAssign(b) \/ WkSucceed(b)
                \/ WkConflict(b) \/ WkFail(b) \/ WkUnwind(b)
                \/ \E c \in Clusters : WkTake(b, c)
<1>1. CASE UNCHANGED vars
  BY <1>1 DEF vars, requestVars
<1>2. CASE Next
  BY <1>2, ClusterStepFrame, CallStepFrame, BranchStepFrame, Zenon DEF Next
<1> QED
  BY <1>1, <1>2

LEMMA InitRequestInv == Init => RequestInv
  BY DEF Init, RequestInv, NoWur, WkIdle, WurCurrent

LEMMA StepRequestInv ==
    TypeOK /\ RequestInv /\ [Next]_vars => RequestInv'
<1> SUFFICES ASSUME TypeOK, RequestInv, [Next]_vars PROVE RequestInv'
  OBVIOUS
<1> USE DEF RequestInv, WurCurrent
<1>1. CASE UNCHANGED requestVars
  BY <1>1 DEF requestVars
<1>2. ASSUME NEW k \in Calls, EnsureDelete(k) PROVE RequestInv'
  BY <1>2 DEF EnsureDelete, TypeOK, NoWur
<1>3. ASSUME NEW k \in Calls, EnsureCreate(k) PROVE RequestInv'
  <2>1. UNCHANGED <<seenWur, wk>>
    BY ZenonT(60), <1>3 DEF EnsureCreate
  <2>2. CASE UNCHANGED <<wur, requests>>
    BY <2>1, <2>2
  <2>3. CASE /\ requests' = requests + 1
             /\ wur' = [wur EXCEPT ![call[k].b] =
                          [st |-> "new", uid |-> requests + 1, xvol |-> call[k].xvol]]
    <3>1. \A b \in Branches : \/ wur'[b] = wur[b]
                              \/ wur'[b].st = "new" /\ wur'[b].uid = requests + 1
      BY ZenonT(60), <2>3 DEF TypeOK
    <3>2. \A b \in Branches : /\ wk[b].uid \in Nat /\ wur[b].uid \in Nat
                              /\ seenWur[b].uid \in Nat
      BY DEF TypeOK, WkState, WurObject
    <3> QED
      <4>1. requests \in Nat /\ requests' = requests + 1 /\ seenWur' = seenWur /\ wk' = wk
        BY <2>1, <2>3 DEF TypeOK
      <4>2. SUFFICES ASSUME NEW b \in Branches
                     PROVE  /\ wur'[b].uid <= requests' /\ seenWur'[b].uid <= requests' /\ wk'[b].uid <= requests'
                            /\ wur'[b].st # "absent" => wur'[b].uid > 0
                            /\ wk'[b].pc = "idle" => wk'[b].taken = None
                            /\ wk'[b].pc # "idle" /\ wur'[b].st # "absent" /\ wur'[b].uid = wk'[b].uid => wur'[b].st = "unknown"
        BY Zenon
      <4> QED
        BY SMTT(90), <3>1, <3>2, <4>1
  <2> QED
    BY <1>3, <2>2, <2>3 DEF EnsureCreate
<1>4. ASSUME NEW b \in Branches, SyncWur(b) PROVE RequestInv'
  BY <1>4 DEF SyncWur, TypeOK
<1>5. ASSUME NEW b \in Branches, WkExpire(b) PROVE RequestInv'
  BY <1>5 DEF WkExpire, TypeOK, NoWur
<1>6. ASSUME NEW b \in Branches, WkBegin(b) PROVE RequestInv'
  BY <1>6 DEF WkBegin, TypeOK, WurObject, WkIdle
<1>7. ASSUME NEW b \in Branches, WkGetBranch(b) PROVE RequestInv'
  BY <1>7 DEF WkGetBranch, TypeOK, WkState
<1>8. ASSUME NEW b \in Branches, NEW c \in Clusters, WkTake(b, c) PROVE RequestInv'
  BY <1>8 DEF WkTake, TypeOK, WkState
<1>9. ASSUME NEW b \in Branches, WkTakeFails(b) PROVE RequestInv'
  BY <1>9 DEF WkTakeFails, TypeOK, WkState
<1>10. ASSUME NEW b \in Branches, WkWakeUp(b) PROVE RequestInv'
  BY <1>10 DEF WkWakeUp, TypeOK, WkState
<1>11. ASSUME NEW b \in Branches, WkAssign(b) PROVE RequestInv'
  <2>1. \/ wk[b].pc = "annotated" /\ wk' = [wk EXCEPT ![b].pc = "assigned"]
        \/ wk[b].pc = "named" /\ wk' = [wk EXCEPT ![b].pc = "reassigned"]
    BY <1>11 DEF WkAssign
  <2>2. ASSUME NEW p \in WkPC \ {"idle"}, wk[b].pc # "idle",
               wk' = [wk EXCEPT ![b].pc = p], NEW a \in Branches
        PROVE  /\ wk'[a].uid = wk[a].uid /\ wk'[a].taken = wk[a].taken
               /\ (wk'[a].pc = "idle") = (wk[a].pc = "idle")
    BY <2>2 DEF TypeOK, WkState
  <2>3. UNCHANGED <<wur, seenWur, requests>>
    BY <1>11 DEF WkAssign
  <2> QED
    BY <2>1, <2>2, <2>3 DEF WkPC
<1>12. ASSUME NEW b \in Branches, WkSucceed(b) PROVE RequestInv'
  BY <1>12 DEF WkSucceed, TypeOK, WurObject, WkIdle
<1>13. ASSUME NEW b \in Branches, WkConflict(b) PROVE RequestInv'
  BY <1>13 DEF WkConflict, TypeOK, WkState
<1>14. ASSUME NEW b \in Branches, WkFail(b) PROVE RequestInv'
  BY <1>14 DEF WkFail, TypeOK, WkState
<1>15. ASSUME NEW b \in Branches, WkUnwind(b) PROVE RequestInv'
  BY <1>15 DEF WkUnwind, TypeOK, WurObject, WkIdle
<1>16. CASE OperatorRestart
  BY <1>16 DEF OperatorRestart, TypeOK, WkIdle
<1> HIDE DEF RequestInv, WurCurrent
<1> QED
  BY <1>1, <1>2, <1>3, <1>4, <1>5, <1>6, <1>7, <1>8, <1>9, <1>10, <1>11, <1>12,
     <1>13, <1>14, <1>15, <1>16, RequestSteps

LEMMA RequestInvariant == Spec => [](TypeOK /\ RequestInv)
<1>1. TypeOK /\ RequestInv /\ [Next]_vars => TypeOK' /\ RequestInv'
  BY StepTypes, StepRequestInv
<1> QED
  BY <1>1, InitTypes, InitRequestInv, PTL DEF Spec

(* While a WakeupRequest reconcile holds a cluster it took from the pool, the *)
(* request it took it for is still in progress, whatever copy of the request   *)
(* the informer cache served.                                                  *)
THEOREM ClustersTakenForOpenRequests == Spec => []TakenForOpenRequest
<1>1. TypeOK /\ RequestInv => TakenForOpenRequest
  BY DEF RequestInv, TakenForOpenRequest
<1> QED
  BY <1>1, RequestInvariant, PTL

(* A WakeupRequest that has succeeded or failed never changes its outcome:    *)
(* neither a stale reconcile nor the deferred status writes of a failing one   *)
(* can reopen or overwrite it.                                                 *)
THEOREM OutcomesAreFinal == Spec => OutcomeIsFinal
<1> DEFINE Kept == \A b \in Branches :
                     wur[b].st \in {"true", "false"} /\ wur'[b].uid = wur[b].uid
                        => wur'[b].st = wur[b].st
<1>1. ASSUME TypeOK, RequestInv, Next PROVE Kept
  <2>1. CASE UNCHANGED wur
    BY <2>1
  <2>2. ASSUME NEW k \in Calls, EnsureDelete(k) PROVE Kept
    BY <1>1, <2>2 DEF EnsureDelete, RequestInv, TypeOK, WurObject, NoWur
  <2>3. ASSUME NEW k \in Calls, EnsureCreate(k) PROVE Kept
    BY <1>1, <2>3 DEF EnsureCreate, TypeOK
  <2>4. ASSUME NEW b \in Branches, WkExpire(b) PROVE Kept
    BY SMTT(40), <1>1, <2>4 DEF WkExpire, RequestInv, TypeOK, WurObject, NoWur
  <2>5. ASSUME NEW b \in Branches, WkBegin(b) PROVE Kept
    BY <1>1, <2>5 DEF WkBegin, TypeOK
  <2>6. ASSUME NEW b \in Branches, WkSucceed(b) PROVE Kept
    BY <1>1, <2>6 DEF WkSucceed, RequestInv, TypeOK
  <2>7. ASSUME NEW b \in Branches, WkUnwind(b) PROVE Kept
    BY <1>1, <2>7 DEF WkUnwind, RequestInv, TypeOK
  <2>8. \/ UNCHANGED wur
        \/ \E k \in Calls : EnsureDelete(k) \/ EnsureCreate(k)
        \/ \E b \in Branches : \/ WkExpire(b) \/ WkBegin(b) \/ WkSucceed(b)
                               \/ WkUnwind(b)
    <3>1. UNCHANGED requestVars => UNCHANGED wur
      BY DEF requestVars
    <3>2. ASSUME NEW b \in Branches,
                 \/ SyncWur(b) \/ WkGetBranch(b) \/ WkTakeFails(b) \/ WkWakeUp(b)
                 \/ WkAssign(b) \/ WkConflict(b) \/ WkFail(b)
                 \/ \E c \in Clusters : WkTake(b, c)
          PROVE  UNCHANGED wur
      BY <3>2 DEF SyncWur, WkGetBranch, WkTakeFails, WkWakeUp, WkAssign,
                  WkConflict, WkFail, WkTake
    <3>3. OperatorRestart => UNCHANGED wur
      BY DEF OperatorRestart
    <3> QED
      BY <1>1, <3>1, <3>2, <3>3, RequestSteps, Zenon
  <2> QED
    BY ZenonT(60), <2>1, <2>2, <2>3, <2>4, <2>5, <2>6, <2>7, <2>8
<1>2. TypeOK /\ RequestInv /\ [Next]_vars => [Kept]_vars
  BY <1>1
<1> QED
  BY <1>2, RequestInvariant, PTL DEF Spec, OutcomeIsFinal

-----------------------------------------------------------------------------
(* Deleting clusters destroys no retained volume. *)
LEMMA ReclaimSparesRetained ==
    ASSUME TypeOK, RetainedStaysLive, NEW cs
    PROVE  \A v \in 1..MaxXVols :
             Reclaim(cs)[v].retainedBy # None => Reclaim(cs)[v].live
  BY DEF TypeOK, RetainedStaysLive, Reclaim, XVolObject

LEMMA StepRetainedStaysLive ==
    TypeOK /\ RetainedStaysLive /\ [Next]_vars => RetainedStaysLive'
<1> SUFFICES ASSUME TypeOK, RetainedStaysLive, [Next]_vars PROVE RetainedStaysLive'
  OBVIOUS
<1>1. CASE UNCHANGED xvol
  BY <1>1 DEF RetainedStaysLive
<1>2. CASE Provision
  BY <1>2 DEF Provision, RetainedStaysLive, TypeOK
<1>3. ASSUME NEW cs, xvol' = Reclaim(cs) PROVE RetainedStaysLive'
  BY <1>3, ReclaimSparesRetained DEF RetainedStaysLive
<1>4. ASSUME NEW b \in Branches, BrRetain(b) PROVE RetainedStaysLive'
  <2> DEFINE vs == {cluster[c].xvol : c \in Owned(b)}
  <2>1. CASE /\ \A v \in vs : xvol[v].live
             /\ xvol' = [v \in 1..MaxXVols |->
                           IF v \in vs THEN [xvol[v] EXCEPT !.retainedBy = b]
                                       ELSE xvol[v]]
    <3> HIDE DEF vs
    <3> QED
      BY <2>1 DEF RetainedStaysLive, TypeOK, XVolObject
  <2> QED
    BY <1>1, <1>4, <2>1 DEF BrRetain
<1>5. ASSUME NEW c \in Clusters,
             \/ PoolRefill(c) \/ PoolShrink(c)
             \/ SidecarDecide(c) \/ SidecarPatch(c) \/ SidecarFail(c)
      PROVE  UNCHANGED xvol \/ Provision \/ \E cs : xvol' = Reclaim(cs)
  BY <1>5 DEF PoolRefill, PoolShrink, SidecarDecide, SidecarPatch, SidecarFail
<1>6. ASSUME NEW k \in Calls,
             \/ \E b \in Branches : \/ WakeBranch(k, b)
                                    \/ \E c \in Clusters : CreateClaim(k, b, c)
             \/ CreateBranch(k) \/ EnsureGet(k) \/ EnsureDelete(k)
             \/ EnsureCreate(k) \/ CallFail(k)
      PROVE  UNCHANGED xvol
  BY <1>6 DEF WakeBranch, CreateClaim, CreateBranch, EnsureGet, EnsureDelete,
              EnsureCreate, CallFail
<1>7. ASSUME NEW b \in Branches,
             \/ HibernateBranch(b) \/ SyncBranch(b) \/ SyncWur(b)
             \/ WkSkip(b) \/ WkExpire(b) \/ WkBegin(b)
             \/ WkGetBranch(b) \/ WkTakeFails(b) \/ WkWakeUp(b)
             \/ WkAssign(b) \/ WkSucceed(b) \/ WkConflict(b) \/ WkFail(b)
             \/ \E c \in Clusters : WkTake(b, c)
      PROVE  UNCHANGED xvol
  BY ZenonT(60), <1>7 DEF HibernateBranch, SyncBranch, SyncWur, WkSkip, WkExpire, WkBegin,
              WkGetBranch, WkTakeFails, WkWakeUp, WkAssign, WkSucceed, WkConflict,
              WkFail, WkTake
<1>8. ASSUME NEW b \in Branches, WkUnwind(b)
      PROVE  UNCHANGED xvol \/ \E cs : xvol' = Reclaim(cs)
  BY <1>8 DEF WkUnwind
<1>9. ASSUME NEW b \in Branches,
             \/ BrStart(b) \/ BrCluster(b) \/ BrStatus(b) \/ BrOwned(b)
             \/ BrFail(b) \/ BrApply(b)
      PROVE  UNCHANGED xvol \/ Provision \/ \E cs : xvol' = Reclaim(cs)
  BY ZenonT(60), <1>9 DEF BrStart, BrCluster, BrStatus, BrOwned, BrFail, BrApply
<1>10. OperatorRestart \/ UNCHANGED vars => UNCHANGED xvol
  BY DEF OperatorRestart, vars
<1>11. \/ UNCHANGED xvol
       \/ Provision
       \/ \E cs : xvol' = Reclaim(cs)
       \/ \E b \in Branches : BrRetain(b)
  BY <1>5, <1>6, <1>7, <1>8, <1>9, <1>10, Zenon DEF Next
<1> QED
  BY <1>1, <1>2, <1>3, <1>4, <1>11

(* A volume retained for a hibernated branch survives every cluster deletion, *)
(* by the Branch reconciler, the cleanup of a failed wakeup or the pool.       *)
THEOREM RetainedVolumesStayLive == Spec => []RetainedStaysLive
<1>1. Init => RetainedStaysLive
  BY DEF Init, RetainedStaysLive
<1>2. TypeOK /\ RetainedStaysLive /\ [Next]_vars => TypeOK' /\ RetainedStaysLive'
  BY StepTypes, StepRetainedStaysLive
<1> QED
  BY <1>1, <1>2, InitTypes, PTL DEF Spec

-----------------------------------------------------------------------------
(* Which volumes a branch can come by: the ones its objects, the copies of     *)
(* them and the reconciles name, and those of the clusters it has a claim on.  *)
NamesVolume(a, v) ==
    \/ branch[a].primary = v \/ seenBranch[a].primary = v \/ br[a].primary = v
    \/ wur[a].xvol = v \/ seenWur[a].xvol = v \/ wk[a].xvol = v
    \/ \E k \in Calls : call[k].b = a /\ call[k].xvol = v

RunsOn(a, v) == \E c \in Clusters : Held(a, c) /\ cluster[c].st = "live" /\ cluster[c].xvol = v

Keeps(a, v) == NamesVolume(a, v) \/ RunsOn(a, v)

(* No volume belongs to two branches, or to a branch and to the pool. *)
VolumesApart ==
    /\ \A a, b \in Branches : \A v \in 1..MaxXVols : a # b => ~(Keeps(a, v) /\ Keeps(b, v))
    /\ \A a \in Branches : \A v \in 1..MaxXVols : Keeps(a, v) => v <= xvols
    /\ \A c \in Clusters : cluster[c].st \in {"pool", "live"} => cluster[c].xvol \in 1..xvols
    /\ \A c \in Clusters : \A v \in 1..MaxXVols : cluster[c].st = "pool" /\ cluster[c].xvol = v =>
          /\ \A a \in Branches : ~Keeps(a, v)
          /\ \A d \in Clusters : d # c /\ cluster[d].st = "pool" => cluster[d].xvol # v

(* Other claims than that of the reconcile that took the cluster. *)
HeldBefore(a, c) ==
    \/ branch[a].name = c \/ seenBranch[a].name = c \/ br[a].name = c \/ wk[a].name = c
    \/ \E k \in Calls : call[k].b = a /\ call[k].name = c
    \/ cluster[c].owner = a

(* Until the volume of the branch is under the cluster that was taken for it,  *)
(* nothing but the reconcile that took it knows of the cluster.                 *)
TakenIsFresh ==
    \A b \in Branches : wk[b].pc = "claimed" =>
        /\ wk[b].xvol # 0 /\ wk[b].taken \in Clusters
        /\ ~HeldBefore(b, wk[b].taken)

(* RetainedBeforeDelete is not inductive: the retention of a volume must not be *)
(* undone by the retention for another branch, nor the volume swapped away by   *)
(* a wakeup, before the clusters are deleted.                                   *)
VolumeInv == TypeOK /\ ClaimedOnce /\ VolumesApart /\ TakenIsFresh /\ RetainedBeforeDelete

(* What a step that hands out no volume does. *)
NoNewVolumes ==
    /\ \A a \in Branches : \A v \in 1..MaxXVols : Keeps(a, v)' => Keeps(a, v)
    /\ \A c \in Clusters :
          /\ cluster'[c].st = "pool" => cluster[c].st = "pool" /\ cluster'[c].xvol = cluster[c].xvol
          /\ cluster'[c].st = "live" => \/ cluster[c].st \in {"pool", "live"} /\ cluster'[c].xvol = cluster[c].xvol
                                        \/ cluster'[c].xvol \in 1..xvols
    /\ xvols' = xvols

(* A claim gives the volume of cluster c to branch b. *)
VolumeClaimed(b, c) ==
    /\ \A a \in Branches : \A v \in 1..MaxXVols : Keeps(a, v)' => Keeps(a, v) \/ (a = b /\ v = cluster[c].xvol)
    /\ cluster[c].st = "pool" /\ cluster'[c].st = "live"
    /\ \A d \in Clusters : cluster'[d].xvol = cluster[d].xvol /\ (d # c => cluster'[d].st = cluster[d].st)
    /\ xvols' = xvols

(* A volume is provisioned for cluster c: for the pool, or for branch b. *)
VolumeProvided(b, c) ==
    /\ \A a \in Branches : \A v \in 1..MaxXVols :
          Keeps(a, v)' => Keeps(a, v) \/ (a = b /\ cluster'[c].st = "live" /\ v = xvols + 1)
    /\ cluster'[c].st \in {"pool", "live"} /\ cluster'[c].xvol = xvols + 1
    /\ \A d \in Clusters \ {c} : cluster'[d] = cluster[d]
    /\ xvols' = xvols + 1

LEMMA VolumesStayApart ==
    ASSUME TypeOK, VolumesApart,
           NoNewVolumes \/ \E b \in Branches \cup {None}, c \in Clusters : VolumeClaimed(b, c) \/ VolumeProvided(b, c)
    PROVE  VolumesApart'
<1>1. xvols \in Nat /\ MaxXVols \in Nat /\ \A c \in Clusters : cluster[c].xvol \in Nat
  BY BoundsAssumption DEF TypeOK, ClusterObject, XVolName
<1>2. CASE NoNewVolumes
  BY ZenonT(60), <1>1, <1>2 DEF NoNewVolumes, VolumesApart
<1>3. ASSUME NEW b \in Branches \cup {None}, NEW c \in Clusters, VolumeClaimed(b, c) PROVE VolumesApart'
  <2>0. /\ \A a, d \in Branches : \A v \in 1..MaxXVols : a # d => ~(Keeps(a, v) /\ Keeps(d, v))
        /\ \A a \in Branches : \A v \in 1..MaxXVols : Keeps(a, v) => v <= xvols
        /\ \A a \in Branches : \A v \in 1..MaxXVols : Keeps(a, v)' => Keeps(a, v) \/ (a = b /\ v = cluster[c].xvol)
        /\ cluster[c].xvol \in 1..xvols /\ xvols' = xvols
        /\ \A a \in Branches : \A v \in 1..MaxXVols : v = cluster[c].xvol => ~Keeps(a, v)
    BY ZenonT(60), <1>3 DEF VolumeClaimed, VolumesApart
  <2>1. /\ \A a, d \in Branches : \A v \in 1..MaxXVols : a # d => ~(Keeps(a, v)' /\ Keeps(d, v)')
        /\ \A a \in Branches : \A v \in 1..MaxXVols : Keeps(a, v)' => v <= xvols'
    BY SMTT(40), <1>1, <2>0
  <2>2. \A d \in Clusters : cluster'[d].st \in {"pool", "live"} => cluster'[d].xvol \in 1..xvols'
    BY SMTT(40), <1>1, <1>3 DEF VolumeClaimed, VolumesApart
  <2>3. ASSUME NEW d \in Clusters, NEW v \in 1..MaxXVols, cluster'[d].st = "pool", cluster'[d].xvol = v
        PROVE  /\ \A a \in Branches : ~Keeps(a, v)'
               /\ \A e \in Clusters : e # d /\ cluster'[e].st = "pool" => cluster'[e].xvol # v
    BY SMTT(40), <1>1, <1>3, <2>3 DEF VolumeClaimed, VolumesApart
  <2> QED
    BY ZenonT(60), <2>1, <2>2, <2>3 DEF VolumesApart
<1>4. ASSUME NEW b \in Branches \cup {None}, NEW c \in Clusters, VolumeProvided(b, c) PROVE VolumesApart'
  <2>0. /\ \A a, d \in Branches : \A v \in 1..MaxXVols : a # d => ~(Keeps(a, v) /\ Keeps(d, v))
        /\ \A a \in Branches : \A v \in 1..MaxXVols : Keeps(a, v) => v <= xvols
        /\ \A a \in Branches : \A v \in 1..MaxXVols : Keeps(a, v)' => Keeps(a, v) \/ (a = b /\ v = xvols + 1)
        /\ xvols' = xvols + 1
    BY ZenonT(60), <1>4 DEF VolumeProvided, VolumesApart
  <2>1. /\ \A a, d \in Branches : \A v \in 1..MaxXVols : a # d => ~(Keeps(a, v)' /\ Keeps(d, v)')
        /\ \A a \in Branches : \A v \in 1..MaxXVols : Keeps(a, v)' => v <= xvols'
    BY SMTT(40), <1>1, <2>0
  <2>2. \A d \in Clusters : cluster'[d].st \in {"pool", "live"} => cluster'[d].xvol \in 1..xvols'
    BY SMTT(40), <1>1, <1>4 DEF VolumeProvided, VolumesApart
  <2>3. ASSUME NEW d \in Clusters, NEW v \in 1..MaxXVols, cluster'[d].st = "pool", cluster'[d].xvol = v
        PROVE  /\ \A a \in Branches : ~Keeps(a, v)'
               /\ \A e \in Clusters : e # d /\ cluster'[e].st = "pool" => cluster'[e].xvol # v
    BY SMTT(40), <1>1, <1>4, <2>3 DEF VolumeProvided, VolumesApart
  <2> QED
    BY ZenonT(60), <2>1, <2>2, <2>3 DEF VolumesApart
<1> QED
  BY <1>2, <1>3, <1>4

LEMMA VolumesQuiet ==
    ASSUME TypeOK, NoNewClaims, xvols' = xvols,
           \A a \in Branches : \A v \in 1..MaxXVols : NamesVolume(a, v)' => Keeps(a, v),
           \A c \in Clusters :
              /\ cluster'[c].st = "pool" => cluster[c].st = "pool" /\ cluster'[c].xvol = cluster[c].xvol
              /\ cluster'[c].st = "live" => cluster[c].st = "live" /\ cluster'[c].xvol = cluster[c].xvol
    PROVE  NoNewVolumes
  BY ZenonT(60) DEF NoNewClaims, NoNewVolumes, Keeps, RunsOn

(* Branches come to name no other volumes. *)
NamesKept == \A a \in Branches : \A v \in 1..MaxXVols : NamesVolume(a, v)' => NamesVolume(a, v)

(* Volumes that are named after a step were named before it. *)
NamesFollow ==
    /\ \A a \in Branches :
          /\ branch'[a].primary = branch[a].primary \/ branch'[a].primary = 0
          /\ seenBranch'[a].primary = seenBranch[a].primary \/ seenBranch'[a].primary = branch[a].primary
          /\ br'[a].primary = br[a].primary \/ br'[a].primary = 0
          /\ \/ wur'[a].xvol = wur[a].xvol \/ wur'[a].xvol = 0
             \/ \E k \in Calls : call[k].b = a /\ call[k].xvol = wur'[a].xvol
          /\ seenWur'[a].xvol = seenWur[a].xvol \/ seenWur'[a].xvol = wur[a].xvol
          /\ wk'[a].xvol = wk[a].xvol \/ wk'[a].xvol = 0
    /\ \A k \in Calls : \/ /\ call'[k].b = call[k].b
                           /\ call'[k].xvol = call[k].xvol
                        \/ call'[k].xvol = 0

LEMMA NamesFollowKept == ASSUME NamesFollow PROVE NamesKept
<1>1. SUFFICES ASSUME NEW a \in Branches, NEW v \in 1..MaxXVols, NamesVolume(a, v)' PROVE NamesVolume(a, v)
  BY Zenon DEF NamesKept
<1>2. v # 0
  BY BoundsAssumption
<1>3. CASE \E k \in Calls : call'[k].b = a /\ call'[k].xvol = v
  BY Zenon, <1>2, <1>3 DEF NamesFollow, NamesVolume
<1>4. CASE wur'[a].xvol = v
  <2>1. wur[a].xvol = v \/ \E k \in Calls : call[k].b = a /\ call[k].xvol = v
    BY ZenonT(60), <1>2, <1>4 DEF NamesFollow
  <2> QED
    BY Zenon, <2>1 DEF NamesVolume
<1>6. CASE seenWur'[a].xvol = v \/ wk'[a].xvol = v
  BY Zenon, <1>2, <1>6 DEF NamesFollow, NamesVolume
<1>5. CASE branch'[a].primary = v \/ seenBranch'[a].primary = v \/ br'[a].primary = v
  BY Zenon, <1>2, <1>5 DEF NamesFollow, NamesVolume
<1> QED
  BY Zenon, <1>1, <1>3, <1>4, <1>5, <1>6 DEF NamesVolume

LEMMA NamesSteps ==
    ASSUME TypeOK,
           \/ \E k \in Calls : \/ \E b \in Branches : WakeBranch(k, b)
                              \/ CreateBranch(k) \/ EnsureGet(k) \/ EnsureDelete(k) \/ EnsureCreate(k) \/ CallFail(k)
           \/ \E c \in Clusters : SidecarDecide(c) \/ SidecarPatch(c) \/ SidecarFail(c)
           \/ \E b \in Branches : \/ HibernateBranch(b) \/ SyncBranch(b) \/ SyncWur(b)
                                 \/ WkSkip(b) \/ WkExpire(b) \/ WkBegin(b) \/ WkGetBranch(b) \/ WkTakeFails(b)
                                 \/ WkAssign(b) \/ WkSucceed(b) \/ WkConflict(b) \/ WkFail(b)
                                 \/ BrStart(b) \/ BrRetain(b) \/ BrFail(b) \/ BrApply(b)
           \/ OperatorRestart \/ UNCHANGED vars
    PROVE  NamesKept /\ UNCHANGED <<cluster, xvols>>
<1>1. ASSUME NEW k \in Calls, CreateBranch(k) PROVE NamesKept /\ UNCHANGED <<cluster, xvols>>
  <2>1. UNCHANGED <<seenBranch, wur, seenWur, wk, br, cluster, xvols>>
    BY Zenon, <1>1 DEF CreateBranch
  <2>2. \A a \in Branches : branch'[a].primary = branch[a].primary \/ branch'[a].primary = 0
    BY Zenon, <1>1 DEF CreateBranch, TypeOK
  <2>3. \A j \in Calls : call'[j] = call[j] \/ call'[j].xvol = 0
    BY Zenon, <1>1 DEF CreateBranch, TypeOK, CallIdle
  <2>4. NamesFollow
    BY Zenon, <2>1, <2>2, <2>3 DEF NamesFollow
  <2> QED
    BY Zenon, <2>1, <2>4, NamesFollowKept
<1>2. ASSUME NEW k \in Calls, EnsureGet(k) PROVE NamesKept /\ UNCHANGED <<cluster, xvols>>
  <2>1. PICK next : call' = [call EXCEPT ![k] = next] /\ next \in {CallIdle, [call[k] EXCEPT !.pc = "create"], [call[k] EXCEPT !.pc = "delete"]}
    BY Zenon, <1>2 DEF EnsureGet
  <2>2. call[k] \in CallState
    BY DEF TypeOK
  <2>3. (next.xvol = call[k].xvol /\ next.b = call[k].b) \/ next.xvol = 0
    BY <2>1, <2>2 DEF CallState, CallIdle
  <2>4. \A j \in Calls : (call'[j].b = call[j].b /\ call'[j].xvol = call[j].xvol) \/ call'[j].xvol = 0
    BY <2>1, <2>3 DEF TypeOK
  <2> QED
    <3>1. UNCHANGED <<branch, seenBranch, wur, seenWur, wk, br, cluster, xvols>>
      BY ZenonT(60), <1>2 DEF EnsureGet
    <3>2. NamesFollow
      BY Zenon, <2>4, <3>1 DEF NamesFollow
    <3> QED
      BY Zenon, <3>1, <3>2, NamesFollowKept
<1>3. ASSUME NEW k \in Calls, EnsureDelete(k) PROVE NamesKept /\ UNCHANGED <<cluster, xvols>>
  BY <1>3 DEF EnsureDelete, NamesKept, NamesVolume, TypeOK, CallState, NoWur
<1>4. ASSUME NEW k \in Calls, EnsureCreate(k) PROVE NamesKept /\ UNCHANGED <<cluster, xvols>>
  <2>1. UNCHANGED <<branch, seenBranch, seenWur, wk, br, cluster, xvols>>
    BY Zenon, <1>4 DEF EnsureCreate
  <2>2. \A a \in Branches : wur'[a] = wur[a] \/ (call[k].b = a /\ call[k].xvol = wur'[a].xvol)
    <3>1. PICK new : \/ wur' = wur
                     \/ wur' = [wur EXCEPT ![call[k].b] = new] /\ new.xvol = call[k].xvol
      BY Zenon, <1>4 DEF EnsureCreate
    <3>2. wur \in [Branches -> WurObject]
      BY Zenon DEF TypeOK
    <3> QED
      BY Zenon, <3>1, <3>2
  <2>3. \A j \in Calls : call'[j] = call[j] \/ call'[j].xvol = 0
    BY Zenon, <1>4 DEF EnsureCreate, TypeOK, CallIdle
  <2>4. NamesFollow
    BY Zenon, <2>1, <2>2, <2>3 DEF NamesFollow
  <2> QED
    BY Zenon, <2>1, <2>4, NamesFollowKept
<1>5. ASSUME NEW k \in Calls, CallFail(k) PROVE NamesKept /\ UNCHANGED <<cluster, xvols>>
  <2>1. UNCHANGED <<branch, seenBranch, wur, seenWur, wk, br, cluster, xvols>>
    BY Zenon, <1>5 DEF CallFail
  <2>2. \A j \in Calls : call'[j] = call[j] \/ call'[j].xvol = 0
    BY Zenon, <1>5 DEF CallFail, TypeOK, CallIdle
  <2>3. NamesFollow
    BY Zenon, <2>1, <2>2 DEF NamesFollow
  <2> QED
    BY Zenon, <2>1, <2>3, NamesFollowKept
<1>6. ASSUME NEW c \in Clusters, SidecarDecide(c) PROVE NamesKept /\ UNCHANGED <<cluster, xvols>>
  BY Zenon, <1>6 DEF SidecarDecide, NamesKept, NamesVolume, TypeOK
<1>7. ASSUME NEW c \in Clusters, SidecarPatch(c) PROVE NamesKept /\ UNCHANGED <<cluster, xvols>>
  BY <1>7 DEF SidecarPatch, NamesKept, NamesVolume, TypeOK, BranchObject
<1>8. ASSUME NEW c \in Clusters, SidecarFail(c) PROVE NamesKept /\ UNCHANGED <<cluster, xvols>>
  BY Zenon, <1>8 DEF SidecarFail, NamesKept, NamesVolume, TypeOK
<1>9. ASSUME NEW b \in Branches, HibernateBranch(b) PROVE NamesKept /\ UNCHANGED <<cluster, xvols>>
  BY <1>9 DEF HibernateBranch, NamesKept, NamesVolume, TypeOK, BranchObject
<1>10. ASSUME NEW b \in Branches, SyncBranch(b) PROVE NamesKept /\ UNCHANGED <<cluster, xvols>>
  BY <1>10 DEF SyncBranch, NamesKept, NamesVolume, TypeOK
<1>11. ASSUME NEW b \in Branches, SyncWur(b) PROVE NamesKept /\ UNCHANGED <<cluster, xvols>>
  BY ZenonT(60), <1>11 DEF SyncWur, NamesKept, NamesVolume, TypeOK
<1>12. ASSUME NEW b \in Branches, WkSkip(b) PROVE NamesKept /\ UNCHANGED <<cluster, xvols>>
  BY <1>12 DEF WkSkip, NamesKept, NamesVolume, TypeOK
<1>13. ASSUME NEW b \in Branches, WkExpire(b) PROVE NamesKept /\ UNCHANGED <<cluster, xvols>>
  <2>1. UNCHANGED <<branch, seenBranch, seenWur, wk, br, call, cluster, xvols>>
    BY Zenon, <1>13 DEF WkExpire
  <2>2. \A a \in Branches : wur'[a] = wur[a] \/ wur'[a].xvol = 0
    BY Zenon, <1>13 DEF WkExpire, TypeOK, NoWur
  <2>3. NamesFollow
    BY Zenon, <2>1, <2>2 DEF NamesFollow
  <2> QED
    BY Zenon, <2>1, <2>3, NamesFollowKept
<1>14. ASSUME NEW b \in Branches, WkBegin(b) PROVE NamesKept /\ UNCHANGED <<cluster, xvols>>
  BY Zenon, <1>14 DEF WkBegin, NamesKept, NamesVolume, TypeOK, WurObject, WkIdle
<1>15. ASSUME NEW b \in Branches, WkGetBranch(b) PROVE NamesKept /\ UNCHANGED <<cluster, xvols>>
  BY <1>15 DEF WkGetBranch, NamesKept, NamesVolume, TypeOK, WkState
<1>16. ASSUME NEW b \in Branches, WkTakeFails(b) PROVE NamesKept /\ UNCHANGED <<cluster, xvols>>
  BY <1>16 DEF WkTakeFails, NamesKept, NamesVolume, TypeOK, WkState
<1>17. ASSUME NEW b \in Branches, WkSucceed(b) PROVE NamesKept /\ UNCHANGED <<cluster, xvols>>
  BY <1>17 DEF WkSucceed, NamesKept, NamesVolume, TypeOK, WurObject, WkIdle
<1>18. ASSUME NEW b \in Branches, WkConflict(b) PROVE NamesKept /\ UNCHANGED <<cluster, xvols>>
  BY <1>18 DEF WkConflict, NamesKept, NamesVolume, TypeOK, WkState
<1>19. ASSUME NEW b \in Branches, WkFail(b) PROVE NamesKept /\ UNCHANGED <<cluster, xvols>>
  BY <1>19 DEF WkFail, NamesKept, NamesVolume, TypeOK, WkState
<1>20. ASSUME NEW b \in Branches, BrStart(b) PROVE NamesKept /\ UNCHANGED <<cluster, xvols>>
  BY Zenon, <1>20 DEF BrStart, NamesKept, NamesVolume, TypeOK, BrState
<1>21. ASSUME NEW b \in Branches, BrRetain(b) PROVE NamesKept /\ UNCHANGED <<cluster, xvols>>
  <2>1. PICK p : br' = [br EXCEPT ![b].pc = p]
    BY <1>21 DEF BrRetain
  <2>2. \A a \in Branches : br'[a].primary = br[a].primary
    BY <2>1 DEF TypeOK, BrState
  <2> QED
    BY <1>21, <2>2 DEF BrRetain, NamesKept, NamesVolume
<1>22. ASSUME NEW b \in Branches, BrFail(b) PROVE NamesKept /\ UNCHANGED <<cluster, xvols>>
  BY <1>22 DEF BrFail, NamesKept, NamesVolume, TypeOK, BrState, BrIdle
<1>23. ASSUME NEW b \in Branches, BrApply(b) PROVE NamesKept /\ UNCHANGED <<cluster, xvols>>
  BY <1>23 DEF BrApply, NamesKept, NamesVolume, TypeOK, BranchObject, BrIdle
<1>24. ASSUME NEW k \in Calls, NEW b \in Branches, WakeBranch(k, b) PROVE NamesKept /\ UNCHANGED <<cluster, xvols>>
  BY <1>24 DEF WakeBranch, NamesKept, NamesVolume, TypeOK, BranchObject, CallState
<1>25. ASSUME NEW b \in Branches, WkAssign(b) PROVE NamesKept /\ UNCHANGED <<cluster, xvols>>
  <2>1. \E x, p : wk' = [wk EXCEPT ![b].pc = p] /\ branch' = [branch EXCEPT ![b].name = x, ![b].awaiting = FALSE]
    BY Zenon, <1>25 DEF WkAssign
  <2>2. \A a \in Branches : wk'[a].xvol = wk[a].xvol /\ branch'[a].primary = branch[a].primary
    BY <2>1 DEF TypeOK, BranchObject, WkState
  <2> QED
    BY <1>25, <2>2 DEF WkAssign, NamesKept, NamesVolume
<1>26. CASE OperatorRestart
  <2>1. UNCHANGED <<branch, wur, call, cluster, xvols>> /\ seenBranch' = branch /\ seenWur' = wur
    BY Zenon, <1>26 DEF OperatorRestart
  <2>2. \A a \in Branches : wk'[a].xvol = 0 /\ br'[a].primary = 0
    BY Zenon, <1>26 DEF OperatorRestart, WkIdle, BrIdle
  <2>3. NamesFollow
    BY Zenon, <2>1, <2>2 DEF NamesFollow
  <2> QED
    BY Zenon, <2>1, <2>3, NamesFollowKept
<1>27. CASE UNCHANGED vars
  BY Zenon, <1>27 DEF vars, NamesKept, NamesVolume
<1> QED
  BY <1>1, <1>2, <1>3, <1>4, <1>5, <1>6, <1>7, <1>8, <1>9, <1>10, <1>11, <1>12, <1>13, <1>14, <1>15, <1>16, <1>17, <1>18, <1>19, <1>20, <1>21, <1>22, <1>23, <1>24, <1>25, <1>26, <1>27

(* The other steps change clusters. *)
LEMMA DeleteVolumes ==
    ASSUME TypeOK, NEW cs, NEW c \in Clusters
    PROVE  /\ Without(cs)[c].xvol = cluster[c].xvol
           /\ c \in cs => Without(cs)[c].st = "gone" /\ Without(cs)[c].owner = None
           /\ c \notin cs => Without(cs)[c] = cluster[c]
<1>1. cluster[c] \in ClusterObject
  BY DEF TypeOK
<1> QED
  BY <1>1 DEF Without, ClusterObject

LEMMA StepVolumes ==
    ASSUME TypeOK, [Next]_vars, ClaimedOnce, VolumesApart, TakenIsFresh
    PROVE  NoNewVolumes \/ \E b \in Branches \cup {None}, c \in Clusters : VolumeClaimed(b, c) \/ VolumeProvided(b, c)
<1>1. NoNewClaims \/ \E b \in Branches, c \in Clusters : NewClaim(b, c)
  BY StepClaims
<1>2. HeldOnce
  BY ClaimedOnceHeld
<1>3. (\A c \in Clusters : cluster'[c].st = "live" => cluster[c].st # "pool") => NoNewClaims
  BY <1>1 DEF NewClaim
<1>4. ASSUME NamesKept, UNCHANGED <<cluster, xvols>> PROVE NoNewVolumes
  BY <1>3, <1>4, VolumesQuiet DEF NamesKept, Keeps
<1>5. ASSUME NEW b \in Branches, BrStatus(b) PROVE NoNewVolumes
  <2>1. PICK p, v : \/ br' = [br EXCEPT ![b].pc = p]
                    \/ /\ br' = [br EXCEPT ![b].pc = p, ![b].primary = v] /\ br[b].name # None
                       /\ cluster[br[b].name].st = "live" /\ v = cluster[br[b].name].xvol
    BY Zenon, <1>5 DEF BrStatus
  <2>2. br[b] \in BrState
    BY DEF TypeOK
  <2>3. \A a \in Branches : br'[a].primary = br[a].primary \/ (a = b /\ RunsOn(b, br'[a].primary))
    <3>1. CASE br' = [br EXCEPT ![b].pc = p]
      BY <3>1 DEF TypeOK, BrState
    <3>2. CASE br' = [br EXCEPT ![b].pc = p, ![b].primary = v] /\ br[b].name # None
               /\ cluster[br[b].name].st = "live" /\ v = cluster[br[b].name].xvol
      <4>1. RunsOn(b, v)
        BY <2>2, <3>2 DEF RunsOn, Held, BrState, ClusterName
      <4> QED
        BY <3>2, <4>1 DEF TypeOK, BrState
    <3> QED
      BY <2>1, <3>1, <3>2
  <2>4. UNCHANGED <<branch, seenBranch, wur, seenWur, wk, call, cluster, xvols>>
    BY <1>5 DEF BrStatus
  <2>5. \A a \in Branches : \A w \in 1..MaxXVols : NamesVolume(a, w)' => Keeps(a, w)
    BY ZenonT(60), <2>3, <2>4 DEF NamesVolume, Keeps
  <2> QED
    BY ZenonT(60), <1>3, <2>4, <2>5, VolumesQuiet
<1>6. ASSUME NEW cs, cluster' = Without(cs), NamesKept, xvols' = xvols PROVE NoNewVolumes
  <2>1. \A c \in Clusters : cluster'[c].st # "gone" => cluster'[c] = cluster[c]
    BY <1>6, DeleteVolumes
  <2> QED
    BY ZenonT(60), <1>3, <1>6, <2>1, VolumesQuiet DEF NamesKept, Keeps
<1>7. ASSUME NEW c \in Clusters, PoolShrink(c) PROVE NoNewVolumes
  BY Zenon, <1>6, <1>7 DEF PoolShrink, NamesKept, NamesVolume
<1>8. ASSUME NEW b \in Branches, BrOwned(b) PROVE NoNewVolumes
  <2>1. NamesKept
    BY <1>8 DEF BrOwned, NamesKept, NamesVolume, TypeOK, BrState
  <2> QED
    BY <1>6, <1>8, <2>1 DEF BrOwned
<1>9. ASSUME NEW b \in Branches, WkUnwind(b) PROVE NoNewVolumes
  <2>1. \A a \in Branches : wur'[a].xvol = wur[a].xvol /\ wk'[a].xvol \in {wk[a].xvol, 0}
    BY <1>9 DEF WkUnwind, TypeOK, WurObject, WkIdle
  <2>2. NamesKept /\ xvols' = xvols
    BY <1>9, <2>1 DEF WkUnwind, NamesKept, NamesVolume
  <2>3. cluster' = cluster \/ cluster' = Without({wk[b].taken} \ {None})
    BY <1>9 DEF WkUnwind
  <2> QED
    BY <1>4, <1>6, <2>2, <2>3
<1>10. ASSUME NEW c \in Clusters, PoolRefill(c) PROVE VolumeProvided(None, c)
  <2>1. /\ cluster[c].st = "unborn" /\ xvols' = xvols + 1
        /\ cluster' = [cluster EXCEPT ![c] = [st |-> "pool", owner |-> None, xvol |-> xvols + 1]]
    BY <1>10 DEF PoolRefill, Provision
  <2>2. /\ cluster'[c].st = "pool" /\ cluster'[c].xvol = xvols + 1
        /\ \A d \in Clusters \ {c} : cluster'[d] = cluster[d]
    BY <2>1 DEF TypeOK
  <2>3. NamesKept
    BY <1>10 DEF PoolRefill, NamesKept, NamesVolume
  <2>4. NoNewClaims
    BY <1>3, <2>2
  <2>5. \A a \in Branches : \A v \in 1..MaxXVols : RunsOn(a, v)' => RunsOn(a, v)
    BY ZenonT(60), <2>2, <2>4 DEF NoNewClaims, RunsOn
  <2> QED
    BY <2>1, <2>2, <2>3, <2>5 DEF VolumeProvided, NamesKept, Keeps
<1>11. ASSUME NEW b \in Branches, BrCluster(b)
       PROVE  NoNewVolumes \/ \E c \in Clusters : VolumeProvided(b, c)
  <2>1. NamesKept
    BY <1>11 DEF BrCluster, NamesKept, NamesVolume, TypeOK, BrState
  <2>2. CASE UNCHANGED <<cluster, xvols>>
    BY <1>4, <2>1, <2>2
  <2>3. PICK n : n = br[b].name
    OBVIOUS
  <2>4. n # None => n \in Clusters /\ Held(b, n)
    BY <2>3 DEF Held, TypeOK, BrState, ClusterName
  <2>5. CASE n # None /\ cluster[n].st # "gone" /\ cluster' = [cluster EXCEPT ![n].owner = b] /\ xvols' = xvols
    <3>1. \A c \in Clusters : cluster'[c].st = cluster[c].st /\ cluster'[c].xvol = cluster[c].xvol
      BY <2>4, <2>5 DEF TypeOK, ClusterObject
    <3> QED
      BY <1>3, <2>1, <2>5, <3>1, VolumesQuiet DEF NamesKept, Keeps
  <2>6. CASE /\ n # None /\ cluster[n].st = "gone" /\ xvols' = xvols + 1
             /\ cluster' = [cluster EXCEPT ![n] = [st |-> "live", owner |-> b, xvol |-> xvols + 1]]
    <3>1. /\ cluster'[n].st = "live" /\ cluster'[n].xvol = xvols + 1
          /\ \A d \in Clusters \ {n} : cluster'[d] = cluster[d]
      BY <2>4, <2>6 DEF TypeOK
    <3>2. NoNewClaims
      BY <1>3, <2>6, <3>1
    <3>3. \A a \in Branches : \A v \in 1..MaxXVols : RunsOn(a, v)' => RunsOn(a, v) \/ (a = b /\ v = xvols + 1)
      <4>1. SUFFICES ASSUME NEW a \in Branches, NEW v \in 1..MaxXVols, RunsOn(a, v)'
                     PROVE  RunsOn(a, v) \/ (a = b /\ v = xvols + 1)
        OBVIOUS
      <4>2. PICK d \in Clusters : Held(a, d)' /\ cluster'[d].st = "live" /\ cluster'[d].xvol = v
        BY ZenonT(60), <4>1 DEF RunsOn
      <4>3. Held(a, d)
        BY ZenonT(60), <3>2, <4>2 DEF NoNewClaims
      <4>4. CASE d = n
        BY <1>2, <2>4, <2>6, <3>1, <4>2, <4>3, <4>4 DEF HeldOnce
      <4>5. CASE d # n
        BY ZenonT(60), <3>1, <4>2, <4>3, <4>5 DEF RunsOn
      <4> QED
        BY <4>4, <4>5
    <3> QED
      BY <2>1, <2>4, <2>6, <3>1, <3>3 DEF VolumeProvided, NamesKept, Keeps
  <2> QED
    BY <1>11, <2>2, <2>3, <2>5, <2>6 DEF BrCluster, Provision
<1>12. ASSUME NEW b \in Branches, NEW c \in Clusters, NewClaim(b, c), NamesKept, xvols' = xvols, Claim(c)
       PROVE  VolumeClaimed(b, c)
  <2>1. \A d \in Clusters : cluster'[d].xvol = cluster[d].xvol /\ (d # c => cluster'[d].st = cluster[d].st)
    BY <1>12 DEF Claim, TypeOK, ClusterObject
  <2>2. \A a \in Branches : \A v \in 1..MaxXVols : RunsOn(a, v)' => RunsOn(a, v) \/ (a = b /\ v = cluster[c].xvol)
    BY ZenonT(60), <1>2, <1>12, <2>1 DEF NewClaim, RunsOn, HeldOnce
  <2> QED
    BY ZenonT(60), <1>12, <2>1, <2>2 DEF VolumeClaimed, NewClaim, NamesKept, Keeps
<1>13. ASSUME NEW k \in Calls, NEW b \in Branches, NEW c \in Clusters, CreateClaim(k, b, c) PROVE VolumeClaimed(b, c)
  <2>1. NewClaim(b, c)
    BY <1>13 DEF CreateClaim, Claim, NewClaim, Held, TypeOK, ClusterObject
  <2>2. NamesKept
    <3>1. UNCHANGED <<branch, seenBranch, wur, seenWur, wk, br>>
      BY Zenon, <1>13 DEF CreateClaim
    <3>2. \A j \in Calls : call'[j] = call[j] \/ call'[j].xvol = 0
      BY Zenon, <1>13 DEF CreateClaim, TypeOK
    <3>3. NamesFollow
      BY Zenon, <3>1, <3>2 DEF NamesFollow
    <3> QED
      BY Zenon, <3>3, NamesFollowKept
  <2> QED
    BY <1>12, <1>13, <2>1, <2>2 DEF CreateClaim
<1>14. ASSUME NEW b \in Branches, NEW c \in Clusters, WkTake(b, c) PROVE VolumeClaimed(b, c)
  <2>1. NewClaim(b, c)
    BY <1>14 DEF WkTake, Claim, NewClaim, Held, TypeOK, ClusterObject, WkState
  <2>2. NamesKept
    BY <1>14 DEF WkTake, NamesKept, NamesVolume, TypeOK, WkState
  <2> QED
    BY <1>12, <1>14, <2>1, <2>2 DEF WkTake
<1>15. ASSUME NEW b \in Branches, WkWakeUp(b) PROVE NoNewVolumes
  <2>1. PICK c, v : c = wk[b].taken /\ v = wk[b].xvol
    OBVIOUS
  <2>2. c \in Clusters /\ v # 0 /\ v \in 0..MaxXVols /\ Held(b, c)
    BY <1>15, <2>1 DEF WkWakeUp, TakenIsFresh, TypeOK, WkState, XVolName, Held
  <2>3. cluster' = [cluster EXCEPT ![c].xvol = v] /\ xvols' = xvols
    BY <1>15, <2>1 DEF WkWakeUp
  <2>4. \A d \in Clusters : cluster'[d].st = cluster[d].st
    BY <2>2, <2>3 DEF TypeOK, ClusterObject
  <2>11. cluster'[c].xvol = v /\ \A d \in Clusters : d # c => cluster'[d].xvol = cluster[d].xvol
    BY <2>2, <2>3 DEF TypeOK, ClusterObject
  <2>5. NamesKept
    BY <1>15 DEF WkWakeUp, NamesKept, NamesVolume, TypeOK, WkState
  <2>6. NamesVolume(b, v) /\ v \in 1..MaxXVols
    BY <2>1, <2>2, BoundsAssumption DEF NamesVolume
  <2>7. xvols \in Nat /\ v \in 1..xvols
    BY <2>6 DEF VolumesApart, Keeps, TypeOK
  <2>8. NoNewClaims
    BY <1>3, <2>4
  <2>9. ASSUME NEW a \in Branches, NEW w \in 1..MaxXVols, RunsOn(a, w)' PROVE Keeps(a, w)
    <3>1. PICK d \in Clusters : Held(a, d)' /\ cluster'[d].st = "live" /\ cluster'[d].xvol = w
      BY <2>9 DEF RunsOn
    <3>2. Held(a, d) /\ cluster[d].st = "live"
      BY ZenonT(60), <2>4, <2>8, <3>1 DEF NoNewClaims
    <3>3. CASE d = c
      BY Zenon, <1>2, <2>2, <2>11, <2>6, <3>1, <3>2, <3>3 DEF HeldOnce, Keeps
    <3>4. CASE d # c
      BY <2>11, <3>1, <3>2, <3>4 DEF Keeps, RunsOn
    <3> QED
      BY <3>3, <3>4
  <2>10. c \in Clusters => cluster[c].st # "pool"
    BY <1>2, <2>2 DEF HeldOnce
  <2> QED
    BY <2>3, <2>4, <2>11, <2>5, <2>7, <2>9, <2>10 DEF NoNewVolumes, NamesKept, Keeps
<1>16. CASE NamesKept /\ UNCHANGED <<cluster, xvols>>
  BY <1>4, <1>16
<1> QED
  BY <1>5, <1>7, <1>8, <1>9, <1>10, <1>11, <1>13, <1>14, <1>15, <1>16, NamesSteps, Zenon DEF Next

(* Until it is used, what a reconcile took is what it took. *)
TakenKept ==
    \A a \in Branches : wk'[a].pc = "claimed" =>
        wk[a].pc = "claimed" /\ wk'[a].taken = wk[a].taken /\ wk'[a].xvol = wk[a].xvol

BeforeKept == \A a \in Branches : \A c \in Clusters : HeldBefore(a, c)' => HeldBefore(a, c)

LEMMA FreshSteps ==
    ASSUME TypeOK,
           \/ \E k \in Calls : \/ \E b \in Branches : WakeBranch(k, b)
                              \/ CreateBranch(k) \/ EnsureGet(k) \/ EnsureDelete(k) \/ EnsureCreate(k) \/ CallFail(k)
           \/ \E c \in Clusters : PoolRefill(c) \/ PoolShrink(c) \/ SidecarDecide(c) \/ SidecarPatch(c) \/ SidecarFail(c)
           \/ \E b \in Branches : \/ HibernateBranch(b) \/ SyncBranch(b) \/ SyncWur(b)
                                 \/ WkSkip(b) \/ WkExpire(b) \/ WkBegin(b) \/ WkGetBranch(b) \/ WkTakeFails(b)
                                 \/ WkWakeUp(b) \/ WkSucceed(b) \/ WkConflict(b) \/ WkFail(b) \/ WkUnwind(b)
                                 \/ BrStart(b) \/ BrCluster(b) \/ BrStatus(b) \/ BrRetain(b) \/ BrOwned(b)
                                 \/ BrFail(b) \/ BrApply(b)
           \/ OperatorRestart \/ UNCHANGED vars
    PROVE  BeforeKept /\ TakenKept
<1> USE NoneAssumption
<1>1. ASSUME NEW k \in Calls, NEW b \in Branches, WakeBranch(k, b) PROVE BeforeKept /\ TakenKept
  BY <1>1 DEF WakeBranch, BeforeKept, TakenKept, HeldBefore, TypeOK, BranchObject, CallState
<1>2. ASSUME NEW k \in Calls, CreateBranch(k) PROVE BeforeKept /\ TakenKept
  BY Zenon, <1>2 DEF CreateBranch, BeforeKept, TakenKept, HeldBefore, TypeOK, BranchObject, CallState, CallIdle
<1>3. ASSUME NEW k \in Calls, EnsureGet(k) PROVE BeforeKept /\ TakenKept
  <2>1. PICK next : call' = [call EXCEPT ![k] = next] /\ next \in {CallIdle, [call[k] EXCEPT !.pc = "create"], [call[k] EXCEPT !.pc = "delete"]}
    BY Zenon, <1>3 DEF EnsureGet
  <2>2. call[k] \in CallState
    BY DEF TypeOK
  <2>3. next.name \in {call[k].name, None} /\ next.b \in {call[k].b, None}
    BY <2>1, <2>2 DEF CallState, CallIdle
  <2>4. \A j \in Calls : call'[j].name \in {call[j].name, None} /\ call'[j].b \in {call[j].b, None}
    BY <2>1, <2>3 DEF TypeOK
  <2>5. UNCHANGED <<branch, seenBranch, wk, br, cluster>>
    BY ZenonT(60), <1>3 DEF EnsureGet
  <2> QED
    BY Zenon, <2>4, <2>5 DEF BeforeKept, TakenKept, HeldBefore
<1>4. ASSUME NEW k \in Calls, EnsureDelete(k) PROVE BeforeKept /\ TakenKept
  BY <1>4 DEF EnsureDelete, BeforeKept, TakenKept, HeldBefore, TypeOK, CallState
<1>5. ASSUME NEW k \in Calls, EnsureCreate(k) PROVE BeforeKept /\ TakenKept
  BY Zenon, <1>5 DEF EnsureCreate, BeforeKept, TakenKept, HeldBefore, TypeOK, CallIdle
<1>6. ASSUME NEW k \in Calls, CallFail(k) PROVE BeforeKept /\ TakenKept
  BY Zenon, <1>6 DEF CallFail, BeforeKept, TakenKept, HeldBefore, TypeOK, CallIdle
<1>7. ASSUME NEW c \in Clusters, PoolRefill(c) PROVE BeforeKept /\ TakenKept
  BY Zenon, <1>7 DEF PoolRefill, BeforeKept, TakenKept, HeldBefore, TypeOK, ClusterObject
<1>8. ASSUME NEW c \in Clusters, PoolShrink(c) PROVE BeforeKept /\ TakenKept
  BY Zenon, <1>8 DEF PoolShrink, BeforeKept, TakenKept, HeldBefore, TypeOK, ClusterObject, Without
<1>9. ASSUME NEW c \in Clusters, SidecarDecide(c) PROVE BeforeKept /\ TakenKept
  BY Zenon, <1>9 DEF SidecarDecide, BeforeKept, TakenKept, HeldBefore, TypeOK
<1>10. ASSUME NEW c \in Clusters, SidecarPatch(c) PROVE BeforeKept /\ TakenKept
  BY <1>10 DEF SidecarPatch, BeforeKept, TakenKept, HeldBefore, TypeOK, BranchObject
<1>11. ASSUME NEW c \in Clusters, SidecarFail(c) PROVE BeforeKept /\ TakenKept
  BY Zenon, <1>11 DEF SidecarFail, BeforeKept, TakenKept, HeldBefore, TypeOK
<1>12. ASSUME NEW b \in Branches, HibernateBranch(b) PROVE BeforeKept /\ TakenKept
  BY <1>12 DEF HibernateBranch, BeforeKept, TakenKept, HeldBefore, TypeOK, BranchObject
<1>13. ASSUME NEW b \in Branches, SyncBranch(b) PROVE BeforeKept /\ TakenKept
  BY Zenon, <1>13 DEF SyncBranch, BeforeKept, TakenKept, HeldBefore, TypeOK
<1>14. ASSUME NEW b \in Branches, SyncWur(b) PROVE BeforeKept /\ TakenKept
  BY Zenon, <1>14 DEF SyncWur, BeforeKept, TakenKept, HeldBefore, TypeOK
<1>15. ASSUME NEW b \in Branches, WkSkip(b) PROVE BeforeKept /\ TakenKept
  BY Zenon, <1>15 DEF WkSkip, BeforeKept, TakenKept, HeldBefore, TypeOK
<1>16. ASSUME NEW b \in Branches, WkExpire(b) PROVE BeforeKept /\ TakenKept
  BY Zenon, <1>16 DEF WkExpire, BeforeKept, TakenKept, HeldBefore, TypeOK
<1>17. ASSUME NEW b \in Branches, WkBegin(b) PROVE BeforeKept /\ TakenKept
  BY Zenon, <1>17 DEF WkBegin, BeforeKept, TakenKept, HeldBefore, TypeOK, WkIdle
<1>18. ASSUME NEW b \in Branches, WkGetBranch(b) PROVE BeforeKept /\ TakenKept
  BY SMTT(40), <1>18 DEF WkGetBranch, BeforeKept, TakenKept, HeldBefore, TypeOK, WkState
<1>19. ASSUME NEW b \in Branches, WkTakeFails(b) PROVE BeforeKept /\ TakenKept
  BY <1>19 DEF WkTakeFails, BeforeKept, TakenKept, HeldBefore, TypeOK, WkState
<1>20. ASSUME NEW b \in Branches, WkWakeUp(b) PROVE BeforeKept /\ TakenKept
  BY SMTT(40), <1>20 DEF WkWakeUp, BeforeKept, TakenKept, HeldBefore, TypeOK, WkState, ClusterObject
<1>21. ASSUME NEW b \in Branches, WkSucceed(b) PROVE BeforeKept /\ TakenKept
  BY <1>21 DEF WkSucceed, BeforeKept, TakenKept, HeldBefore, TypeOK, WkIdle
<1>22. ASSUME NEW b \in Branches, WkConflict(b) PROVE BeforeKept /\ TakenKept
  BY <1>22 DEF WkConflict, BeforeKept, TakenKept, HeldBefore, TypeOK, WkState
<1>23. ASSUME NEW b \in Branches, WkFail(b) PROVE BeforeKept /\ TakenKept
  <2>1. PICK t : wk' = [wk EXCEPT ![b].pc = "failing", ![b].terminal = t]
    BY Zenon, <1>23 DEF WkFail
  <2>2. UNCHANGED <<branch, seenBranch, br, call, cluster>>
    BY Zenon, <1>23 DEF WkFail
  <2>3. wk \in [Branches -> WkState]
    BY Zenon DEF TypeOK
  <2>4. \A a \in Branches : wk'[a].name = wk[a].name /\ (wk'[a].pc = "claimed" => wk'[a] = wk[a])
    BY <2>1, <2>3 DEF WkState
  <2> QED
    BY ZenonT(60), <2>2, <2>4 DEF BeforeKept, TakenKept, HeldBefore
<1>24. ASSUME NEW b \in Branches, WkUnwind(b) PROVE BeforeKept /\ TakenKept
  <2>1. \A a \in Branches : wk'[a].name \in {wk[a].name, None} /\ (wk'[a].pc = "claimed" => wk'[a] = wk[a])
    BY <1>24 DEF WkUnwind, TypeOK, WkIdle
  <2>2. cluster' = cluster \/ cluster' = Without({wk[b].taken} \ {None})
    BY <1>24 DEF WkUnwind
  <2>3. \A c \in Clusters : cluster'[c].owner \in {cluster[c].owner, None}
    BY Zenon, <2>2, DeleteFields
  <2>4. UNCHANGED <<branch, seenBranch, br, call>>
    BY <1>24 DEF WkUnwind
  <2> QED
    BY Zenon, <2>1, <2>3, <2>4 DEF BeforeKept, TakenKept, HeldBefore
<1>25. ASSUME NEW b \in Branches, BrStart(b) PROVE BeforeKept /\ TakenKept
  BY Zenon, <1>25 DEF BrStart, BeforeKept, TakenKept, HeldBefore, TypeOK, BrState
<1>26. ASSUME NEW b \in Branches, BrCluster(b) PROVE BeforeKept /\ TakenKept
  <2>1. \A a \in Branches : br'[a].name = br[a].name
    BY ZenonT(60), <1>26 DEF BrCluster, TypeOK, BrState
  <2>2. UNCHANGED <<branch, seenBranch, wk, call>>
    BY ZenonT(60), <1>26 DEF BrCluster
  <2>3. \A c \in Clusters : cluster'[c].owner = cluster[c].owner \/ (c = br[b].name /\ cluster'[c].owner = b)
    <3>1. \/ cluster' = cluster
          \/ cluster' = [cluster EXCEPT ![br[b].name].owner = b]
          \/ cluster' = [cluster EXCEPT ![br[b].name] = [st |-> "live", owner |-> b, xvol |-> xvols + 1]]
      BY ZenonT(60), <1>26 DEF BrCluster
    <3>2. cluster \in [Clusters -> ClusterObject]
      BY Zenon DEF TypeOK
    <3> QED
      BY SMTT(40), <3>1, <3>2 DEF ClusterObject
  <2> QED
    BY Zenon, <2>1, <2>2, <2>3 DEF BeforeKept, TakenKept, HeldBefore
<1>27. ASSUME NEW b \in Branches, BrStatus(b) PROVE BeforeKept /\ TakenKept
  <2>1. PICK p, v : \/ br' = [br EXCEPT ![b].pc = p]
                    \/ br' = [br EXCEPT ![b].pc = p, ![b].primary = v]
    BY Zenon, <1>27 DEF BrStatus
  <2>2. \A a \in Branches : br'[a].name = br[a].name
    <3>1. CASE br' = [br EXCEPT ![b].pc = p]
      BY <3>1 DEF TypeOK, BrState
    <3>2. CASE br' = [br EXCEPT ![b].pc = p, ![b].primary = v]
      BY <3>2 DEF TypeOK, BrState
    <3> QED
      BY <2>1, <3>1, <3>2
  <2>3. UNCHANGED <<branch, seenBranch, wk, call, cluster>>
    BY Zenon, <1>27 DEF BrStatus
  <2> QED
    BY Zenon, <2>2, <2>3 DEF BeforeKept, TakenKept, HeldBefore
<1>28. ASSUME NEW b \in Branches, BrRetain(b) PROVE BeforeKept /\ TakenKept
  <2>1. PICK p : br' = [br EXCEPT ![b].pc = p]
    BY <1>28 DEF BrRetain
  <2>2. \A a \in Branches : br'[a].name = br[a].name
    BY <2>1 DEF TypeOK, BrState
  <2>3. UNCHANGED <<branch, seenBranch, wk, call, cluster>>
    BY <1>28 DEF BrRetain
  <2> QED
    BY Zenon, <2>2, <2>3 DEF BeforeKept, TakenKept, HeldBefore
<1>29. ASSUME NEW b \in Branches, BrOwned(b) PROVE BeforeKept /\ TakenKept
  <2>1. \A c \in Clusters : cluster'[c].owner \in {cluster[c].owner, None}
    BY <1>29, DeleteFields DEF BrOwned
  <2>2. \A a \in Branches : br'[a].name = br[a].name
    BY <1>29 DEF BrOwned, TypeOK, BrState
  <2>3. UNCHANGED <<branch, seenBranch, wk, call>>
    BY <1>29 DEF BrOwned
  <2> QED
    BY Zenon, <2>1, <2>2, <2>3 DEF BeforeKept, TakenKept, HeldBefore
<1>30. ASSUME NEW b \in Branches, BrFail(b) PROVE BeforeKept /\ TakenKept
  BY <1>30 DEF BrFail, BeforeKept, TakenKept, HeldBefore, TypeOK, BrState, BrIdle
<1>31. ASSUME NEW b \in Branches, BrApply(b) PROVE BeforeKept /\ TakenKept
  BY <1>31 DEF BrApply, BeforeKept, TakenKept, HeldBefore, TypeOK, BranchObject, BrIdle
<1>32. CASE OperatorRestart
  BY Zenon, <1>32 DEF OperatorRestart, BeforeKept, TakenKept, HeldBefore, WkIdle, BrIdle
<1>33. CASE UNCHANGED vars
  BY Zenon, <1>33 DEF vars, BeforeKept, TakenKept, HeldBefore
<1> QED
  BY ZenonT(60), <1>1, <1>2, <1>3, <1>4, <1>5, <1>6, <1>7, <1>8, <1>9, <1>10, <1>11, <1>12, <1>13, <1>14, <1>15, <1>16, <1>17, <1>18, <1>19, <1>20, <1>21, <1>22, <1>23, <1>24, <1>25, <1>26, <1>27, <1>28, <1>29, <1>30, <1>31, <1>32, <1>33

LEMMA StepTakenIsFresh ==
    ASSUME TypeOK, [Next]_vars, ClaimedOnce, TakenIsFresh
    PROVE  TakenIsFresh'
<1> USE NoneAssumption
<1>1. HeldOnce
  BY ClaimedOnceHeld
<1>2. ASSUME NEW a \in Branches, wk[a].pc = "claimed" PROVE Held(a, wk[a].taken) /\ cluster[wk[a].taken].st # "pool"
  BY ZenonT(60), <1>1, <1>2 DEF TakenIsFresh, HeldOnce, Held
<1>3. CASE BeforeKept /\ TakenKept
  <2>1. SUFFICES ASSUME NEW a \in Branches, wk'[a].pc = "claimed", NEW t, t = wk'[a].taken
                 PROVE  wk'[a].xvol # 0 /\ t \in Clusters /\ ~HeldBefore(a, t)'
    BY DEF TakenIsFresh
  <2> QED
    BY ZenonT(60), <1>3, <2>1 DEF BeforeKept, TakenKept, TakenIsFresh
<1>4. ASSUME NEW k \in Calls, NEW b \in Branches, NEW c \in Clusters, CreateClaim(k, b, c) PROVE TakenIsFresh'
  <2>1. SUFFICES ASSUME NEW a \in Branches, wk'[a].pc = "claimed", NEW t, t = wk'[a].taken
                 PROVE  wk'[a].xvol # 0 /\ t \in Clusters /\ ~HeldBefore(a, t)'
    BY DEF TakenIsFresh
  <2>2. UNCHANGED <<branch, seenBranch, wk, br>> /\ cluster[c].st = "pool"
    BY <1>4 DEF CreateClaim, Claim
  <2>3. wk[a].pc = "claimed" /\ t = wk[a].taken /\ wk[a].xvol # 0 /\ t \in Clusters /\ ~HeldBefore(a, t) /\ t # c
    BY <1>2, <2>1, <2>2 DEF TakenIsFresh
  <2>4. \A j \in Calls : call'[j] = call[j] \/ call'[j].name = c
    BY <1>4 DEF CreateClaim, TypeOK
  <2>5. \A d \in Clusters : cluster'[d].owner = cluster[d].owner
    BY <1>4 DEF CreateClaim, Claim, TypeOK, ClusterObject
  <2> QED
    BY <2>2, <2>3, <2>4, <2>5 DEF HeldBefore
<1>5. ASSUME NEW b \in Branches, NEW c \in Clusters, WkTake(b, c) PROVE TakenIsFresh'
  <2>1. SUFFICES ASSUME NEW a \in Branches, wk'[a].pc = "claimed", NEW t, t = wk'[a].taken
                 PROVE  wk'[a].xvol # 0 /\ t \in Clusters /\ ~HeldBefore(a, t)'
    BY DEF TakenIsFresh
  <2>2. UNCHANGED <<branch, seenBranch, call, br>> /\ cluster[c].st = "pool" /\ wk[b].xvol # 0
    BY <1>5 DEF WkTake, Claim
  <2>3. /\ \A d \in Branches : wk'[d].name = wk[d].name /\ wk'[d].xvol = wk[d].xvol
        /\ wk'[b].taken = c /\ \A d \in Branches : d # b => wk'[d] = wk[d]
    BY <1>5 DEF WkTake, TypeOK, WkState
  <2>4. \A d \in Clusters : cluster'[d].owner = cluster[d].owner
    BY <1>5 DEF WkTake, Claim, TypeOK, ClusterObject
  <2>5. CASE a = b
    <3>1. t = c /\ ~Held(a, c)
      BY ZenonT(60), <1>1, <2>1, <2>2, <2>3, <2>5 DEF HeldOnce
    <3> QED
      BY ZenonT(60), <2>2, <2>3, <2>4, <2>5, <3>1 DEF Held, HeldBefore
  <2>6. CASE a # b
    <3>1. wk[a].pc = "claimed" /\ t = wk[a].taken /\ wk[a].xvol # 0 /\ t \in Clusters /\ ~HeldBefore(a, t)
      BY ZenonT(60), <2>1, <2>3, <2>6 DEF TakenIsFresh
    <3> QED
      BY ZenonT(60), <2>2, <2>3, <2>4, <2>6, <3>1 DEF HeldBefore
  <2> QED
    BY <2>5, <2>6
<1>6. ASSUME NEW b \in Branches, WkAssign(b) PROVE TakenIsFresh'
  <2>1. SUFFICES ASSUME NEW a \in Branches, wk'[a].pc = "claimed", NEW t, t = wk'[a].taken
                 PROVE  wk'[a].xvol # 0 /\ t \in Clusters /\ ~HeldBefore(a, t)'
    BY DEF TakenIsFresh
  <2>2. PICK x, p : wk' = [wk EXCEPT ![b].pc = p] /\ p # "claimed" /\ branch' = [branch EXCEPT ![b].name = x, ![b].awaiting = FALSE]
    BY <1>6 DEF WkAssign
  <2>3. a # b /\ wk'[a] = wk[a] /\ branch'[a] = branch[a]
    BY <2>1, <2>2 DEF TypeOK, WkState, BranchObject
  <2>4. UNCHANGED <<cluster, seenBranch, call, br>>
    BY <1>6 DEF WkAssign
  <2>5. wk[a].pc = "claimed" /\ t = wk[a].taken /\ wk[a].xvol # 0 /\ t \in Clusters /\ ~HeldBefore(a, t)
    BY <2>1, <2>3 DEF TakenIsFresh
  <2> QED
    BY ZenonT(60), <2>3, <2>4, <2>5 DEF HeldBefore
<1> QED
  BY <1>3, <1>4, <1>5, <1>6, FreshSteps, Zenon DEF Next

(* What a step keeps that takes no reconcile to the deletions. *)
RetentionKept ==
    /\ \A a \in Branches : br'[a].pc = "owned" => br'[a] = br[a]
    /\ \A a \in Branches : \A c \in Clusters :
          br'[a].pc = "owned" /\ cluster'[c].st = "live" /\ cluster'[c].owner = a =>
              cluster[c].st = "live" /\ cluster[c].owner = a /\ cluster'[c].xvol = cluster[c].xvol
    /\ \A v \in 1..MaxXVols : v <= xvols /\ xvol[v].retainedBy # None => xvol'[v] = xvol[v]

LEMMA RetainSteps ==
    ASSUME TypeOK,
           \/ \E k \in Calls : \/ \E b \in Branches : WakeBranch(k, b)
                              \/ CreateBranch(k) \/ EnsureGet(k) \/ EnsureDelete(k) \/ EnsureCreate(k) \/ CallFail(k)
           \/ \E c \in Clusters : SidecarDecide(c) \/ SidecarPatch(c) \/ SidecarFail(c)
           \/ \E b \in Branches : \/ HibernateBranch(b) \/ SyncBranch(b) \/ SyncWur(b)
                                 \/ WkSkip(b) \/ WkExpire(b) \/ WkBegin(b) \/ WkGetBranch(b) \/ WkTakeFails(b)
                                 \/ WkAssign(b) \/ WkSucceed(b) \/ WkConflict(b) \/ WkFail(b)
                                 \/ BrStart(b) \/ BrStatus(b) \/ BrFail(b) \/ BrApply(b)
           \/ OperatorRestart \/ UNCHANGED vars
    PROVE  RetentionKept
<1>1. ASSUME UNCHANGED <<cluster, xvol>>, \A a \in Branches : br'[a].pc = "owned" => br'[a] = br[a] PROVE RetentionKept
  BY Zenon, <1>1 DEF RetentionKept
<1>2. CASE UNCHANGED <<cluster, xvol, br>>
  BY Zenon, <1>1, <1>2
<1>3. ASSUME NEW k \in Calls, \/ \E b \in Branches : WakeBranch(k, b)
                              \/ CreateBranch(k) \/ EnsureGet(k) \/ EnsureDelete(k) \/ EnsureCreate(k) \/ CallFail(k)
      PROVE  UNCHANGED <<cluster, xvol, br>>
  BY Zenon, <1>3 DEF WakeBranch, CreateBranch, EnsureGet, EnsureDelete, EnsureCreate, CallFail
<1>4. ASSUME NEW c \in Clusters, SidecarDecide(c) \/ SidecarPatch(c) \/ SidecarFail(c) PROVE UNCHANGED <<cluster, xvol, br>>
  BY <1>4 DEF SidecarDecide, SidecarPatch, SidecarFail
<1>5. ASSUME NEW b \in Branches, \/ HibernateBranch(b) \/ SyncBranch(b) \/ SyncWur(b)
                                 \/ WkSkip(b) \/ WkExpire(b) \/ WkBegin(b) \/ WkGetBranch(b) \/ WkTakeFails(b)
      PROVE  UNCHANGED <<cluster, xvol, br>>
  BY Zenon, <1>5 DEF HibernateBranch, SyncBranch, SyncWur, WkSkip, WkExpire, WkBegin, WkGetBranch, WkTakeFails
<1>6. ASSUME NEW b \in Branches, WkAssign(b) \/ WkSucceed(b) \/ WkConflict(b) \/ WkFail(b)
      PROVE  UNCHANGED <<cluster, xvol, br>>
  BY ZenonT(60), <1>6 DEF WkAssign, WkSucceed, WkConflict, WkFail
<1>7. ASSUME NEW b \in Branches, BrStart(b) PROVE RetentionKept
  BY Zenon, <1>1, <1>7 DEF BrStart, TypeOK, BrState
<1>8. ASSUME NEW b \in Branches, BrStatus(b) PROVE RetentionKept
  <2>1. PICK p, v : /\ p # "owned"
                    /\ br' = [br EXCEPT ![b].pc = p] \/ br' = [br EXCEPT ![b].pc = p, ![b].primary = v]
    BY Zenon, <1>8 DEF BrStatus
  <2>2. \A a \in Branches : br'[a].pc = "owned" => br'[a] = br[a]
    <3>1. CASE br' = [br EXCEPT ![b].pc = p]
      BY <2>1, <3>1 DEF TypeOK, BrState
    <3>2. CASE br' = [br EXCEPT ![b].pc = p, ![b].primary = v]
      BY <2>1, <3>2 DEF TypeOK, BrState
    <3> QED
      BY <2>1, <3>1, <3>2
  <2>3. UNCHANGED <<cluster, xvol>>
    BY Zenon, <1>8 DEF BrStatus
  <2> QED
    BY Zenon, <1>1, <2>2, <2>3
<1>9. ASSUME NEW b \in Branches, BrFail(b) PROVE RetentionKept
  BY <1>1, <1>9 DEF BrFail, TypeOK, BrState, BrIdle
<1>10. ASSUME NEW b \in Branches, BrApply(b) PROVE RetentionKept
  BY <1>1, <1>10 DEF BrApply, TypeOK, BrState, BrIdle
<1>11. CASE OperatorRestart
  BY Zenon, <1>1, <1>11 DEF OperatorRestart, BrIdle
<1>12. CASE UNCHANGED vars
  BY <1>2, <1>12 DEF vars
<1> QED
  BY <1>2, <1>3, <1>4, <1>5, <1>6, <1>7, <1>8, <1>9, <1>10, <1>11, <1>12

LEMMA KeptIsRetained ==
    ASSUME TypeOK, TypeOK', VolumesApart, RetainedBeforeDelete, RetentionKept
    PROVE  RetainedBeforeDelete'
<1> USE NoneAssumption
<1>1. SUFFICES ASSUME NEW b \in Branches, br'[b].pc = "owned", br'[b].name = None,
                      NEW c \in Clusters, cluster'[c].st = "live", cluster'[c].owner = b,
                      NEW v, v = cluster'[c].xvol
               PROVE  xvol'[v].live /\ xvol'[v].retainedBy = b
  BY Zenon DEF RetainedBeforeDelete, Owned
<1>2. /\ br[b].pc = "owned" /\ br[b].name = None /\ cluster[c].st = "live" /\ cluster[c].owner = b
      /\ cluster[c].xvol = v
  BY ZenonT(60), <1>1 DEF RetentionKept
<1>3. xvol[v].live /\ xvol[v].retainedBy = b
  BY <1>2 DEF RetainedBeforeDelete, Owned
<1>4. v \in 1..MaxXVols /\ v <= xvols
  <2>1. cluster[c].xvol \in 1..xvols
    BY ZenonT(60), <1>2 DEF VolumesApart
  <2>2. xvols \in 0..MaxXVols
    BY Zenon DEF TypeOK
  <2> QED
    BY SMTT(40), <1>2, <2>1, <2>2, BoundsAssumption
<1>5. xvol'[v] = xvol[v]
  BY ZenonT(60), <1>3, <1>4 DEF RetentionKept
<1> QED
  BY <1>3, <1>5

LEMMA StepRetained ==
    ASSUME TypeOK, TypeOK', [Next]_vars, ClaimedOnce, VolumesApart, TakenIsFresh, RetainedBeforeDelete
    PROVE  RetainedBeforeDelete'
<1> USE NoneAssumption
<1>1. HeldOnce
  BY ClaimedOnceHeld
<1>2. ASSUME RetentionKept PROVE RetainedBeforeDelete'
  BY <1>2, KeptIsRetained
<1>3. \A a \in Branches : \A c \in Clusters : cluster[c].st = "pool" => cluster[c].owner # a
  BY ZenonT(60), <1>1 DEF HeldOnce, Held
<1>4. ASSUME NEW cs, cluster' = Without(cs), xvol' = Reclaim(cs),
             \A a \in Branches : br'[a].pc = "owned" => br'[a] = br[a]
      PROVE  RetentionKept
  <2>1. \A c \in Clusters : cluster'[c].st = "live" => cluster'[c] = cluster[c]
    BY ZenonT(60), <1>4, DeleteVolumes
  <2>2. \A v \in 1..MaxXVols : xvol[v].retainedBy # None => xvol'[v] = xvol[v]
    BY <1>4 DEF Reclaim
  <2> QED
    BY ZenonT(60), <1>4, <2>1, <2>2 DEF RetentionKept
<1>5. ASSUME NEW c \in Clusters, PoolRefill(c) PROVE RetentionKept
  <2>1. \A d \in Clusters : cluster'[d].st = "live" => cluster'[d] = cluster[d]
    BY Zenon, <1>5 DEF PoolRefill, TypeOK
  <2>2. \A v \in 1..MaxXVols : v <= xvols => xvol'[v] = xvol[v]
    <3>1. xvol' = [xvol EXCEPT ![xvols + 1] = [live |-> TRUE, retainedBy |-> None]]
      BY Zenon, <1>5 DEF PoolRefill, Provision
    <3>2. xvols \in 0..MaxXVols /\ xvol \in [1..MaxXVols -> XVolObject]
      BY Zenon DEF TypeOK
    <3> QED
      BY SMTT(40), <3>1, <3>2, BoundsAssumption
  <2>3. UNCHANGED br
    BY <1>5 DEF PoolRefill
  <2> QED
    BY <2>1, <2>2, <2>3 DEF RetentionKept
<1>6. ASSUME NEW c \in Clusters, PoolShrink(c) PROVE RetentionKept
  BY Zenon, <1>4, <1>6 DEF PoolShrink
<1>7. ASSUME NEW b \in Branches, WkUnwind(b) PROVE RetentionKept
  <2>1. UNCHANGED br
    BY <1>7 DEF WkUnwind
  <2>2. \/ UNCHANGED <<cluster, xvol>>
        \/ cluster' = Without({wk[b].taken} \ {None}) /\ xvol' = Reclaim({wk[b].taken} \ {None})
    BY <1>7 DEF WkUnwind
  <2>3. CASE UNCHANGED <<cluster, xvol>>
    BY <2>1, <2>3 DEF RetentionKept
  <2> QED
    BY ZenonT(60), <1>4, <2>1, <2>2, <2>3
<1>8. ASSUME NEW b \in Branches, BrOwned(b) PROVE RetentionKept
  <2>1. \A a \in Branches : br'[a].pc = "owned" => br'[a] = br[a]
    BY <1>8 DEF BrOwned, TypeOK, BrState
  <2> QED
    BY <1>4, <1>8, <2>1 DEF BrOwned
<1>9. ASSUME NEW c \in Clusters, Claim(c), UNCHANGED <<br, xvol>> PROVE RetentionKept
  <2>1. \A d \in Clusters : cluster'[d].owner = cluster[d].owner
    BY <1>9 DEF Claim, TypeOK, ClusterObject
  <2>2. \A d \in Clusters : cluster'[d].xvol = cluster[d].xvol
    BY <1>9 DEF Claim, TypeOK, ClusterObject
  <2>3. \A d \in Clusters : cluster'[d].st = "live" => cluster[d].st \in {"live", "pool"}
    BY <1>9 DEF Claim, TypeOK, ClusterObject
  <2>4. \A a \in Branches : \A d \in Clusters : cluster'[d].st = "live" /\ cluster'[d].owner = a => cluster[d].st = "live"
    BY <1>3, <2>1, <2>3
  <2> QED
    BY <1>9, <2>1, <2>2, <2>4 DEF RetentionKept
<1>10. ASSUME NEW k \in Calls, NEW b \in Branches, NEW c \in Clusters, CreateClaim(k, b, c) PROVE RetentionKept
  BY <1>9, <1>10 DEF CreateClaim
<1>11. ASSUME NEW b \in Branches, NEW c \in Clusters, WkTake(b, c) PROVE RetentionKept
  BY <1>9, <1>11 DEF WkTake
<1>12. ASSUME NEW b \in Branches, WkWakeUp(b) PROVE RetentionKept
  <2>1. PICK c, v : c = wk[b].taken /\ v = wk[b].xvol
    OBVIOUS
  <2>2. c \in Clusters /\ ~HeldBefore(b, c) /\ Held(b, c)
    BY <1>12, <2>1 DEF WkWakeUp, TakenIsFresh, Held
  <2>3. \A a \in Branches : cluster[c].owner # a
    BY ZenonT(60), <1>1, <2>2 DEF HeldBefore, Held, HeldOnce
  <2>4. cluster' = [cluster EXCEPT ![c].xvol = v]
    BY <1>12, <2>1 DEF WkWakeUp
  <2>5. UNCHANGED <<xvol, br>>
    BY <1>12 DEF WkWakeUp
  <2>6. \A d \in Clusters : cluster'[d].owner = cluster[d].owner
    BY <2>4 DEF TypeOK, ClusterObject
  <2>7. \A d \in Clusters : cluster'[d].st = cluster[d].st
    BY <2>4 DEF TypeOK, ClusterObject
  <2>8. \A d \in Clusters : d # c => cluster'[d].xvol = cluster[d].xvol
    BY <2>4 DEF TypeOK, ClusterObject
  <2>9. \A a \in Branches : \A d \in Clusters : cluster'[d].owner = a => cluster'[d].xvol = cluster[d].xvol
    BY <2>3, <2>6, <2>8
  <2> QED
    BY <2>5, <2>6, <2>7, <2>9 DEF RetentionKept
<1>13. ASSUME NEW b \in Branches, BrCluster(b) PROVE RetentionKept
  <2>1. br'[b].pc = "status" /\ \A a \in Branches : a # b => br'[a] = br[a]
    BY <1>13 DEF BrCluster, TypeOK, BrState
  <2>2. \A v \in 1..MaxXVols : v <= xvols => xvol'[v] = xvol[v]
    BY <1>13 DEF BrCluster, Provision, TypeOK
  <2>3. \A d \in Clusters : cluster'[d] = cluster[d] \/ cluster'[d].owner = b
    BY <1>13 DEF BrCluster, TypeOK, ClusterObject
  <2> QED
    BY <2>1, <2>2, <2>3 DEF RetentionKept
<1>14. ASSUME NEW b \in Branches, BrRetain(b) PROVE RetainedBeforeDelete'
  <2>1. UNCHANGED cluster
    BY <1>14 DEF BrRetain
  <2>2. CASE xvol' = xvol /\ (br'[b].pc = "owned" => br'[b].name # None) /\ \A a \in Branches : a # b => br'[a] = br[a]
    BY <2>1, <2>2 DEF RetainedBeforeDelete, Owned
  <2>3. CASE /\ br[b].name = None /\ br' = [br EXCEPT ![b].pc = "owned"]
             /\ \A v \in {cluster[c].xvol : c \in Owned(b)} : xvol[v].live
             /\ xvol' = [v \in 1..MaxXVols |-> IF v \in {cluster[c].xvol : c \in Owned(b)}
                                               THEN [xvol[v] EXCEPT !.retainedBy = b] ELSE xvol[v]]
    <3>1. SUFFICES ASSUME NEW a \in Branches, br'[a].pc = "owned", br'[a].name = None,
                          NEW c \in Clusters, cluster[c].st = "live", cluster[c].owner = a,
                          NEW v, v = cluster[c].xvol
                   PROVE  xvol'[v].live /\ xvol'[v].retainedBy = a
      BY <2>1 DEF RetainedBeforeDelete, Owned
    <3>2. v \in 1..MaxXVols /\ RunsOn(a, v)
      <4>1. cluster[c].xvol \in 1..xvols
        BY ZenonT(60), <3>1 DEF VolumesApart
      <4>2. xvols \in 0..MaxXVols
        BY Zenon DEF TypeOK
      <4>3. v \in 1..MaxXVols
        BY SMTT(40), <3>1, <4>1, <4>2, BoundsAssumption
      <4>4. RunsOn(a, v)
        BY Zenon, <3>1 DEF RunsOn, Held
      <4> QED
        BY <4>3, <4>4
    <3>3. xvol[v] \in XVolObject
      BY <3>2 DEF TypeOK
    <3>4. CASE a = b
      BY <2>3, <3>1, <3>2, <3>3, <3>4 DEF Owned, XVolObject
    <3>5. CASE a # b
      <4>1. v \notin {cluster[d].xvol : d \in Owned(b)}
        <5>1. SUFFICES ASSUME NEW d \in Clusters, cluster[d].st = "live", cluster[d].owner = b, cluster[d].xvol = v PROVE FALSE
          BY DEF Owned
        <5>2. RunsOn(b, v)
          BY <5>1 DEF RunsOn, Held
        <5> QED
          BY <3>2, <3>5, <5>2 DEF VolumesApart, Keeps
      <4>2. xvol'[v] = xvol[v]
        BY <2>3, <3>2, <4>1
      <4>3. br'[a] = br[a]
        BY <2>3, <3>5 DEF TypeOK
      <4> QED
        <5>1. br[a].pc = "owned" /\ br[a].name = None /\ c \in Owned(a)
          BY Zenon, <3>1, <4>3 DEF Owned
        <5>2. xvol[v].live /\ xvol[v].retainedBy = a
          BY Zenon, <3>1, <5>1 DEF RetainedBeforeDelete
        <5> QED
          BY Zenon, <4>2, <5>2
    <3> QED
      BY <3>4, <3>5
  <2>4. br[b] \in BrState
    BY DEF TypeOK
  <2>5. CASE br' = [br EXCEPT ![b].pc = "apply"] /\ UNCHANGED xvol
    BY <2>2, <2>4, <2>5 DEF TypeOK, BrState
  <2>6. CASE br' = [br EXCEPT ![b].pc = "owned"] /\ UNCHANGED xvol /\ br[b].name # None
    BY <2>2, <2>4, <2>6 DEF TypeOK, BrState
  <2> QED
    BY <1>14, <2>3, <2>5, <2>6 DEF BrRetain
<1>15. CASE RetentionKept
  BY <1>2, <1>15
<1> QED
  BY <1>5, <1>6, <1>7, <1>8, <1>10, <1>11, <1>12, <1>13, <1>14, <1>15, RetainSteps, Zenon DEF Next

(* When the Branch reconciler, working for a hibernated branch, reaches the   *)
(* deletion of the branch's clusters (reconcileOwnedClusters), the volume of   *)
(* each of them exists and is retained for this branch, whatever the other     *)
(* reconciles, calls and restarts have done since reconcileXVolOwnership set   *)
(* the policies.                                                               *)
THEOREM VolumesRetainedBeforeDelete == Spec => []RetainedBeforeDelete
<1>1. Init => VolumeInv
  <2>1. ASSUME Init PROVE TypeOK /\ ClaimedOnce
    BY <2>1, InitTypes, InitClaimedOnce
  <2>2. ASSUME Init PROVE VolumesApart
    <3>1. \A a \in Branches : /\ branch[a].primary = 0 /\ seenBranch[a].primary = 0 /\ br[a].primary = 0
                              /\ wur[a].xvol = 0 /\ seenWur[a].xvol = 0 /\ wk[a].xvol = 0
      BY ZenonT(60), <2>2 DEF Init, NoBranchObject, NoWur, WkIdle, BrIdle
    <3>2. /\ \A k \in Calls : call[k].xvol = 0
          /\ \A c \in Clusters : cluster[c].st = "unborn"
      BY Zenon, <2>2 DEF Init, CallIdle
    <3>3. ASSUME NEW a \in Branches, NEW v \in 1..MaxXVols PROVE ~Keeps(a, v)
      <4>1. v # 0
        BY BoundsAssumption
      <4>2. ~NamesVolume(a, v)
        BY SMTT(40), <3>1, <3>2, <4>1 DEF NamesVolume
      <4>3. ~RunsOn(a, v)
        BY Zenon, <3>2 DEF RunsOn
      <4> QED
        BY Zenon, <4>2, <4>3 DEF Keeps
    <3> QED
      BY SMTT(40), <3>2, <3>3 DEF VolumesApart
  <2>3. ASSUME Init PROVE TakenIsFresh /\ RetainedBeforeDelete
    BY ZenonT(60), <2>3 DEF Init, TakenIsFresh, RetainedBeforeDelete, WkIdle, BrIdle
  <2> QED
    BY <2>1, <2>2, <2>3 DEF VolumeInv
<1>2. VolumeInv /\ [Next]_vars => VolumeInv'
  <2>1. SUFFICES ASSUME VolumeInv, [Next]_vars PROVE VolumeInv'
    OBVIOUS
  <2>2. TypeOK' /\ ClaimedOnce'
    BY <2>1, StepTypes, StepClaimedOnce DEF VolumeInv
  <2>3. VolumesApart'
    BY <2>1, StepVolumes, VolumesStayApart DEF VolumeInv
  <2>4. TakenIsFresh'
    BY <2>1, StepTakenIsFresh DEF VolumeInv
  <2>5. RetainedBeforeDelete'
    BY <2>1, <2>2, StepRetained DEF VolumeInv
  <2> QED
    BY <2>2, <2>3, <2>4, <2>5 DEF VolumeInv
<1>3. VolumeInv => RetainedBeforeDelete
  BY DEF VolumeInv
<1> QED
  BY <1>1, <1>2, <1>3, PTL DEF Spec

=============================================================================
