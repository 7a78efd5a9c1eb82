----------------------------- MODULE TenantProofs -----------------------------
(*****************************************************************************)
(* The organizations that the platform serves.  The propagation of their status*)
(* to the branches, for any number of workers, branches, crashes and timeouts*)
(* (OrgStatus); and their resources in the Vercel marketplace, for any       *)
(* installations, provisions and additions (Vercel).                         *)
(*****************************************************************************)
EXTENDS OrgStatus, Vercel, TLAPS

(* The bookkeeping of a sync has no more time than its timeout. *)
BookkeepingIsTimed ==
    \A w \in Workers : worker[w].step = "marking" => worker[w].left <= BookkeepingTimeout

Shape == TypeOK /\ BookkeepingIsTimed

-----------------------------------------------------------------------------
(* Types *)

(* A worker that is replaced by a worker leaves a table of workers. *)
LEMMA WorkerReplaced ==
    ASSUME Shape, NEW w \in Workers, NEW r \in Worker, worker' = [worker EXCEPT ![w] = r],
           r.step = "marking" => r.left <= BookkeepingTimeout
    PROVE  worker' \in [Workers -> Worker] /\ BookkeepingIsTimed'
  BY DEF Shape, TypeOK, BookkeepingIsTimed

Steps == {"idle", "claiming", "syncing", "marking"}

(* A worker with one field changed is a worker. *)
LEMMA WorkerFields ==
    ASSUME NEW r \in Worker
    PROVE  /\ \A x \in Steps : [r EXCEPT !.step = x] \in Worker
           /\ \A x \in 0..ClaimDelay : [r EXCEPT !.age = x] \in Worker
           /\ \A x \in SUBSET Branches : [r EXCEPT !.todo = x] \in Worker
           /\ \A x \in Branches \cup {NoBranch} : [r EXCEPT !.at = x] \in Worker
           /\ \A x \in Nat : /\ [r EXCEPT !.version = x] \in Worker
                             /\ [r EXCEPT !.attempts = x] \in Worker
                             /\ [r EXCEPT !.left = x] \in Worker
           /\ \A x \in BOOLEAN : /\ [r EXCEPT !.awake = x] \in Worker
                                 /\ [r EXCEPT !.disabled = x] \in Worker
                                 /\ [r EXCEPT !.sawHibernated = x] \in Worker
                                 /\ [r EXCEPT !.sawEnabled = x] \in Worker
                                 /\ [r EXCEPT !.failed = x] \in Worker
                                 /\ [r EXCEPT !.stopping = x] \in Worker
  BY ZenonT(60) DEF Worker, Steps

(* A row with one field changed is a row. *)
LEMMA RowFields ==
    ASSUME NEW r \in Row
    PROVE  /\ \A x \in {"none", "present", "deleted"} : [r EXCEPT !.state = x] \in Row
           /\ \A x \in Nat : /\ [r EXCEPT !.version = x] \in Row
                             /\ [r EXCEPT !.attempts = x] \in Row
           /\ \A x \in BOOLEAN : /\ [r EXCEPT !.disabled = x] \in Row
                                 /\ [r EXCEPT !.synced = x] \in Row
           /\ \A x \in Longest..MaxBackoff : [r EXCEPT !.retry = x] \in Row
           /\ \A x \in Longest..Lease : [r EXCEPT !.lease = x] \in Row
  BY DEF Row

LEMMA IdleIsWorker == \A awake \in BOOLEAN : Idle(awake) \in Worker
  BY ConfigAssumption DEF Idle, Worker

(* The updated branches are branches. *)
LEMMA UpdatedIsBranches ==
    ASSUME Shape, NEW w \in Workers, worker[w].at # NoBranch
    PROVE  Updated(w) \in [Branches -> Branch]
<1>1. worker[w] \in Worker /\ worker[w].at \in Branches
  BY DEF Shape, TypeOK, Worker
<1>2. PICK b \in Branches : b = worker[w].at
  BY <1>1
<1>3. PICK d \in BOOLEAN, e \in BOOLEAN :
        /\ d = IF worker[w].sawHibernated # worker[w].disabled
               THEN worker[w].disabled ELSE branch[b].hibernate
        /\ e = IF worker[w].sawEnabled # DesiredEnabled(w)
               THEN DesiredEnabled(w) ELSE branch[b].s2zEnabled
  BY <1>1, Zenon DEF Shape, TypeOK, Worker, Branch, DesiredEnabled
<1>4. Updated(w) = [branch EXCEPT ![b] = [branch[b] EXCEPT !.hibernate = d, !.s2zEnabled = e]]
  BY ZenonT(60), <1>2, <1>3 DEF Updated, Shape, TypeOK, Branch
<1> QED
  BY ZenonT(60), <1>4 DEF Shape, TypeOK, Branch

LEMMA BackoffBounded == \A n \in Nat : Backoff(n) \in Int /\ Backoff(n) <= MaxBackoff
<1> SUFFICES ASSUME NEW n \in Nat PROVE Backoff(n) \in Int /\ Backoff(n) <= MaxBackoff
  OBVIOUS
<1>1. CASE n <= 1
  BY <1>1, ConfigAssumption DEF Backoff, Sooner
<1>2. CASE n > 1
  <2>1. PICK k \in 0..20 : k = Sooner(n - 1, 20)
    BY <1>2 DEF Sooner
  <2>2. PICK p \in Nat : p = 2 ^ k
    BY ZenonT(60), PowerAssumption
  <2>3. Backoff(n) = Sooner(p, MaxBackoff)
    BY <1>2, <2>1, <2>2 DEF Backoff
  <2> QED
    BY <2>3, ConfigAssumption DEF Sooner
<1> QED
  BY <1>1, <1>2

LEMMA NoRowIsRow == NoRow \in Row
  BY ConfigAssumption DEF NoRow, Row, Longest

LEMMA InitShape == Init => Shape
<1> SUFFICES ASSUME Init PROVE Shape
  OBVIOUS
<1>1. row \in Row
  BY NoRowIsRow DEF Init
<1>2. worker \in [Workers -> Worker] /\ \A w \in Workers : worker[w].step = "idle"
  <2>1. worker = [w \in Workers |-> Idle(TRUE)] /\ Idle(TRUE) \in Worker
    BY ZenonT(60), IdleIsWorker DEF Init
  <2>2. Idle(TRUE).step = "idle"
    BY DEF Idle
  <2> QED
    BY ZenonT(60), <2>1, <2>2
<1> QED
  BY ZenonT(60), <1>1, <1>2 DEF Init, Shape, TypeOK, BookkeepingIsTimed

(* Every step keeps the types. *)
LEMMA ShapeStep == ASSUME Shape, [Next]_vars PROVE Shape'
<1>0. /\ row \in Row /\ branch \in [Branches -> Branch] /\ worker \in [Workers -> Worker]
      /\ writes \in Nat /\ faults \in Nat
  BY DEF Shape, TypeOK
<1>w. ASSUME NEW w \in Workers
      PROVE  /\ worker[w] \in Worker /\ worker[w].awake \in BOOLEAN
             /\ worker[w].todo \in SUBSET Branches
             /\ worker[w].failed \in BOOLEAN
             /\ worker[w].age \in 0..ClaimDelay /\ worker[w].left \in Nat
             /\ worker[w].attempts \in Nat
             /\ Idle(worker[w].awake) \in Worker
  BY <1>0, IdleIsWorker DEF Worker
<1>r. /\ row.version \in Nat /\ row.version + 1 \in Nat /\ row.attempts + 1 \in Nat
      /\ row.disabled \in BOOLEAN
      /\ row.retry \in Longest..MaxBackoff /\ row.lease \in Longest..Lease
      /\ 0 \in Longest..MaxBackoff /\ Longest \in Longest..Lease
      /\ Longest \in Int /\ 0 \in Nat /\ 1 \in Nat
  BY <1>0, ConfigAssumption DEF Row, Longest
<1>f. Fault => faults' \in Nat
  BY <1>0 DEF Fault
<1>1. ASSUME NEW d \in BOOLEAN, UpdateOrganizationStatus(d) PROVE Shape'
  <2>1. row' \in Row
    <3>1. CASE row.state = "none"
      <4>1. row' = [NoRow EXCEPT !.state = "present", !.disabled = d, !.version = 1, !.retry = 0]
        BY <1>1, <3>1 DEF UpdateOrganizationStatus, Upserted
      <4> QED
        BY <1>r, <4>1, NoRowIsRow, RowFields, Zenon
    <3>2. CASE row.state # "none"
      <4>1. PICK v \in Nat : v = IF row.disabled # d THEN row.version + 1 ELSE row.version
        BY <1>r
      <4>2. row' = [row EXCEPT !.disabled = d, !.version = v, !.synced = FALSE,
                               !.attempts = 0, !.retry = 0]
        BY <1>1, <3>2, <4>1 DEF UpdateOrganizationStatus, Upserted
      <4> QED
        BY <1>0, <1>r, <4>2, RowFields, Zenon
    <3> QED
      BY <3>1, <3>2
  <2>2. PICK w \in Workers : worker' = [worker EXCEPT ![w].awake = TRUE]
    BY ZenonT(60), <1>1 DEF UpdateOrganizationStatus
  <2>3. PICK r \in Worker : r = [worker[w] EXCEPT !.awake = TRUE]
    BY <1>w, WorkerFields, Zenon
  <2>4. r.step = worker[w].step /\ r.left = worker[w].left
    BY <1>w, <2>3 DEF Worker
  <2>5. worker' = [worker EXCEPT ![w] = r]
    BY <2>2, <2>3
  <2>6. worker' \in [Workers -> Worker] /\ BookkeepingIsTimed'
    BY ZenonT(60), <2>4, <2>5, WorkerReplaced DEF Shape, BookkeepingIsTimed
  <2> QED
    BY <1>0, <1>1, <2>1, <2>6 DEF UpdateOrganizationStatus, Shape, TypeOK
<1>2. CASE DeleteOrganizationStatus
  <2>1. row' \in Row
    BY <1>2, NoRowIsRow, RowFields, Zenon DEF DeleteOrganizationStatus
  <2> QED
    BY <1>0, <1>2, <2>1 DEF DeleteOrganizationStatus, Shape, TypeOK, BookkeepingIsTimed
<1>3. ASSUME NEW w \in Workers, StartPass(w) PROVE Shape'
  <2>1. PICK r \in Worker : r = [Idle(FALSE) EXCEPT !.step = "claiming"]
    BY IdleIsWorker, WorkerFields, Zenon DEF Steps
  <2>2. worker' = [worker EXCEPT ![w] = r] /\ r.step = "claiming"
    BY <1>3, <2>1 DEF StartPass, Idle
  <2> QED
    BY ZenonT(60), <1>0, <1>3, <2>2, WorkerReplaced DEF StartPass, Shape, TypeOK
<1>4. ASSUME NEW w \in Workers, ClaimOrganizationStatusForSync(w) PROVE Shape'
  <2>1. row' \in Row
    <3>1. Lease - worker[w].age \in Longest..Lease
      BY <1>w, ConfigAssumption DEF Longest
    <3>2. row' = [row EXCEPT !.attempts = row.attempts + 1, !.lease = Lease - worker[w].age]
      BY <1>4 DEF ClaimOrganizationStatusForSync, Claimed
    <3> QED
      BY <1>0, <1>r, <3>1, <3>2, RowFields, Zenon
  <2>2. PICK r \in Worker : r = [Idle(worker[w].awake) EXCEPT
              !.step = "syncing", !.version = row.version, !.disabled = row.disabled,
              !.attempts = row.attempts + 1, !.todo = Branches, !.left = SyncTimeout]
    BY <1>w, <1>r, ConfigAssumption, WorkerFields, Zenon DEF Steps
  <2>3. r.step = "syncing"
    BY <2>2 DEF Idle
  <2>4. Idle(worker[w].awake).step = "idle"
    BY DEF Idle
  <2>5. \/ worker' = [worker EXCEPT ![w] = r]
        \/ worker' = [worker EXCEPT ![w] = Idle(worker[w].awake)]
    BY <1>4, <2>2 DEF ClaimOrganizationStatusForSync
  <2>6. worker' \in [Workers -> Worker] /\ BookkeepingIsTimed'
    BY <1>w, <2>3, <2>4, <2>5, WorkerReplaced
  <2> QED
    BY <1>0, <1>4, <2>1, <2>6 DEF ClaimOrganizationStatusForSync, Fault, Shape, TypeOK
<1>5. ASSUME NEW w \in Workers, EndPass(w) PROVE Shape'
  <2>1. Idle(worker[w].awake).step = "idle"
    BY DEF Idle
  <2>2. worker' \in [Workers -> Worker] /\ BookkeepingIsTimed'
    BY ZenonT(60), <1>w, <1>5, <2>1, WorkerReplaced DEF EndPass
  <2> QED
    BY <1>0, <1>5, <2>2 DEF EndPass, Fault, Shape, TypeOK
<1>6. ASSUME NEW w \in Workers, DescribeBranch(w) PROVE Shape'
  <2>1. PICK b \in worker[w].todo :
            \/ worker' = [worker EXCEPT
                     ![w].todo = @ \ {b}, ![w].at = b,
                     ![w].sawHibernated = DescribedHibernated(b),
                     ![w].sawEnabled = branch[b].s2zEnabled]
            \/ worker' = [worker EXCEPT ![w].todo = @ \ {b}, ![w].failed = TRUE]
    BY ZenonT(60), <1>6 DEF DescribeBranch
  <2>2. b \in Branches /\ worker[w].todo \ {b} \in SUBSET Branches
    BY <1>w, <2>1
  <2>3. DescribedHibernated(b) \in BOOLEAN /\ branch[b].s2zEnabled \in BOOLEAN
    BY <1>0, <2>2 DEF DescribedHibernated, Branch
  <2>4. PICK r \in Worker :
            r = [worker[w] EXCEPT !.todo = @ \ {b}, !.at = b,
                                  !.sawHibernated = DescribedHibernated(b),
                                  !.sawEnabled = branch[b].s2zEnabled]
    BY <1>w, <2>2, <2>3, WorkerFields, Zenon
  <2>5. PICK q \in Worker : q = [worker[w] EXCEPT !.todo = @ \ {b}, !.failed = TRUE]
    BY <1>w, <2>2, WorkerFields, Zenon
  <2>6. worker' = [worker EXCEPT ![w] = r] \/ worker' = [worker EXCEPT ![w] = q]
    BY ZenonT(60), <1>0, <2>1, <2>4, <2>5
  <2>7. r.step = "syncing" /\ q.step = "syncing"
    BY ZenonT(60), <1>w, <1>6, <2>4, <2>5 DEF DescribeBranch, Worker
  <2>8. worker' \in [Workers -> Worker] /\ BookkeepingIsTimed'
    BY <2>6, <2>7, WorkerReplaced
  <2> QED
    BY <1>0, <1>6, <2>8 DEF DescribeBranch, Fault, Shape, TypeOK
<1>7. ASSUME NEW w \in Workers, UpdateBranch(w) PROVE Shape'
  <2>1. branch' \in [Branches -> Branch]
    BY ZenonT(60), <1>0, <1>7, UpdatedIsBranches DEF UpdateBranch
  <2>2. PICK f \in BOOLEAN : NextBranch(w, f)
    BY ZenonT(60), <1>7 DEF UpdateBranch
  <2>3. PICK r \in Worker :
            r = [worker[w] EXCEPT !.at = NoBranch, !.sawHibernated = FALSE,
                                  !.sawEnabled = FALSE, !.failed = @ \/ f]
    <3>1. (worker[w].failed \/ f) \in BOOLEAN
      OBVIOUS
    <3> QED
      BY <1>w, <3>1, WorkerFields, Zenon
  <2>4. worker' = [worker EXCEPT ![w] = r]
    BY ZenonT(60), <1>0, <2>2, <2>3 DEF NextBranch
  <2>5. r.step = "syncing"
    BY <1>w, <1>7, <2>3 DEF UpdateBranch, Worker
  <2>6. worker' \in [Workers -> Worker] /\ BookkeepingIsTimed'
    BY ZenonT(60), <2>4, <2>5, WorkerReplaced
  <2>c. row' \in Row /\ writes' \in Nat /\ faults' \in Nat
    BY ZenonT(60), <1>0, <1>f, <1>7 DEF UpdateBranch
  <2> QED
    BY <2>1, <2>6, <2>c DEF Shape, TypeOK
<1>m. ASSUME NEW w \in Workers, NEW f \in BOOLEAN, NEW s \in BOOLEAN, ToMarking(w, f, s)
      PROVE  worker' \in [Workers -> Worker] /\ BookkeepingIsTimed'
  <2>0. {} \in SUBSET Branches /\ NoBranch \in Branches \cup {NoBranch}
        /\ BookkeepingTimeout \in Nat
    BY ConfigAssumption
  <2>1. PICK q \in Worker :
            q = [worker[w] EXCEPT !.todo = {}, !.at = NoBranch,
                                  !.sawHibernated = FALSE, !.sawEnabled = FALSE]
    BY <1>w, <2>0, WorkerFields, Zenon
  <2>2. PICK r \in Worker :
            r = [q EXCEPT !.step = "marking", !.failed = f,
                          !.stopping = s, !.left = BookkeepingTimeout]
    BY <2>0, WorkerFields, Zenon DEF Steps
  <2>3. worker' = [worker EXCEPT ![w] = r]
    BY ZenonT(60), <1>0, <1>m, <2>1, <2>2 DEF ToMarking
  <2>4. r.left <= BookkeepingTimeout
    BY <2>0, <2>2 DEF Worker
  <2> QED
    BY ZenonT(60), <2>3, <2>4, WorkerReplaced
<1>8. ASSUME NEW w \in Workers, SyncReturns(w) PROVE Shape'
  BY ZenonT(60), <1>0, <1>w, <1>8, <1>m DEF SyncReturns, Shape, TypeOK
<1>9. ASSUME NEW w \in Workers, SyncAborts(w) PROVE Shape'
  <2>1. branch' \in [Branches -> Branch]
    BY <1>0, <1>9, UpdatedIsBranches DEF SyncAborts
  <2>2. worker' \in [Workers -> Worker] /\ BookkeepingIsTimed'
    BY ZenonT(60), <1>9, <1>m DEF SyncAborts
  <2>c. row' \in Row /\ writes' \in Nat /\ faults' \in Nat
    BY <1>0, <1>f, <1>9 DEF SyncAborts
  <2> QED
    BY <2>1, <2>2, <2>c DEF Shape, TypeOK
<1>10. ASSUME NEW w \in Workers, Shutdown(w) PROVE Shape'
  <2>1. branch' \in [Branches -> Branch]
    BY <1>0, <1>10, UpdatedIsBranches DEF Shutdown
  <2>2. worker' \in [Workers -> Worker] /\ BookkeepingIsTimed'
    BY ZenonT(60), <1>10, <1>m DEF Shutdown
  <2>c. row' \in Row /\ writes' \in Nat /\ faults' \in Nat
    BY <1>0, <1>f, <1>10 DEF Shutdown
  <2> QED
    BY <2>1, <2>2, <2>c DEF Shape, TypeOK
<1>11. ASSUME NEW w \in Workers, Mark(w) PROVE Shape'
  <2>1. RetryIn(w) \in Longest..MaxBackoff
    <3>1. worker[w].left <= BookkeepingTimeout
      BY <1>11 DEF Mark, Shape, BookkeepingIsTimed
    <3>2. PICK k \in Int : /\ k = IF worker[w].stopping THEN 0 ELSE Backoff(worker[w].attempts)
                           /\ k <= MaxBackoff
      BY <1>w, BackoffBounded, ConfigAssumption
    <3>3. RetryIn(w) = Later(Longest, k - (BookkeepingTimeout - worker[w].left))
      BY <3>2 DEF RetryIn
    <3> QED
      BY <1>w, <1>r, <3>1, <3>2, <3>3, ConfigAssumption DEF Later, Longest
  <2>2. /\ [row EXCEPT !.lease = Longest] \in Row
        /\ [row EXCEPT !.lease = Longest, !.retry = RetryIn(w)] \in Row
        /\ [row EXCEPT !.lease = Longest, !.synced = TRUE, !.attempts = 0] \in Row
    BY <1>0, <1>r, <2>1, RowFields, Zenon
  <2>3. row' \in Row
    BY <1>0, <1>11, <2>2, Zenon DEF Mark, MarkedFailed, MarkedSynced
  <2>4. PICK r \in Worker : r = [Idle(worker[w].awake) EXCEPT !.step = "claiming"]
    BY <1>w, WorkerFields, Zenon DEF Steps
  <2>5. /\ r.step = "claiming" /\ Idle(TRUE) \in Worker
        /\ Idle(TRUE).step = "idle" /\ Idle(worker[w].awake).step = "idle"
    BY ZenonT(60), <2>4, IdleIsWorker DEF Idle
  <2>6. \/ worker' = [worker EXCEPT ![w] = r]
        \/ worker' = [worker EXCEPT ![w] = Idle(TRUE)]
        \/ worker' = [worker EXCEPT ![w] = Idle(worker[w].awake)]
    BY ZenonT(60), <1>11, <2>4 DEF Mark
  <2>7. worker' \in [Workers -> Worker] /\ BookkeepingIsTimed'
    BY ZenonT(60), <1>w, <2>5, <2>6, WorkerReplaced
  <2>c. branch' = branch /\ writes' \in Nat /\ faults' \in Nat
    BY ZenonT(60), <1>0, <1>f, <1>11 DEF Mark
  <2> QED
    BY <1>0, <2>3, <2>7, <2>c DEF Shape, TypeOK
<1>12. ASSUME NEW w \in Workers, Crash(w) PROVE Shape'
  <2>1. Idle(TRUE) \in Worker /\ Idle(TRUE).step = "idle"
    BY ZenonT(60), IdleIsWorker DEF Idle
  <2>2. worker' \in [Workers -> Worker] /\ BookkeepingIsTimed'
    BY ZenonT(60), <1>12, <2>1, WorkerReplaced DEF Crash
  <2>c. row' = row /\ branch' = branch /\ writes' \in Nat /\ faults' \in Nat
    BY <1>0, <1>f, <1>12 DEF Crash
  <2> QED
    BY <1>0, <2>2, <2>c DEF Shape, TypeOK
<1>13. ASSUME NEW b \in Branches, ReconcileBranch(b) PROVE Shape'
  <2>1. branch' \in [Branches -> Branch]
    BY <1>0, <1>13 DEF ReconcileBranch, Branch
  <2> QED
    BY <1>0, <1>13, <2>1 DEF ReconcileBranch, Shape, TypeOK, BookkeepingIsTimed
<1>14. CASE Tick
  <2>1. row' \in Row
    <3>1. /\ Later(row.retry - 1, Longest) \in Longest..MaxBackoff
          /\ Later(row.lease - 1, Longest) \in Longest..Lease
      BY <1>r, ConfigAssumption DEF Later, Longest
    <3>2. row' = [row EXCEPT !.retry = Later(row.retry - 1, Longest),
                             !.lease = Later(row.lease - 1, Longest)]
      BY ZenonT(60), <1>14 DEF Tick
    <3> QED
      BY <1>0, <3>1, <3>2, RowFields, Zenon
  <2>2. ASSUME NEW w \in Workers
        PROVE  /\ worker'[w] \in Worker /\ worker'[w].step = worker[w].step
               /\ worker[w].step = "marking" => worker'[w].left <= worker[w].left
    <3>0. /\ worker[w].step = "claiming" => worker[w].age < ClaimDelay
          /\ worker[w].step \in {"syncing", "marking"} => worker[w].left > 0
      BY ZenonT(60), <1>14 DEF Tick
    <3>1. PICK a \in 0..ClaimDelay :
              a = IF worker[w].step = "claiming" THEN worker[w].age + 1 ELSE worker[w].age
      BY <1>w, <3>0, ConfigAssumption
    <3>2. PICK l \in Nat :
              /\ l = IF worker[w].step \in {"syncing", "marking"}
                     THEN worker[w].left - 1 ELSE worker[w].left
              /\ l <= worker[w].left
      BY <1>w, <3>0
    <3>3. worker'[w] = [worker[w] EXCEPT !.awake = TRUE, !.age = a, !.left = l]
      BY ZenonT(60), <1>14, <3>1, <3>2 DEF Tick
    <3>4. [worker[w] EXCEPT !.awake = TRUE, !.age = a, !.left = l] \in Worker
      BY <1>w, WorkerFields, Zenon
    <3> QED
      BY <1>w, <3>2, <3>3, <3>4 DEF Worker
  <2>3. worker' \in [Workers -> Worker]
    <3>1. worker' = [w \in Workers |-> worker'[w]]
      BY ZenonT(60), <1>14 DEF Tick
    <3> QED
      BY <2>2, <3>1
  <2>4. BookkeepingIsTimed'
    BY <1>w, <2>2, <2>3, ConfigAssumption DEF Shape, BookkeepingIsTimed, Worker
  <2> QED
    BY ZenonT(60), <1>0, <1>14, <2>1, <2>3, <2>4 DEF Tick, Shape, TypeOK
<1>15. CASE UNCHANGED vars
  BY <1>0, <1>15 DEF vars, Shape, TypeOK, BookkeepingIsTimed
<1> QED
  BY <1>1, <1>2, <1>3, <1>4, <1>5, <1>6, <1>7, <1>8, <1>9, <1>10, <1>11, <1>12,
     <1>13, <1>14, <1>15 DEF Next

(* TypeOK always holds: the types of the code, with a retry that is never        *)
(* further away than MaxBackoff (worker.go, backoff).                              *)
THEOREM OrgStatusTypes == Spec => []TypeOK
<1>1. Init => Shape
  BY InitShape
<1>2. Shape /\ [Next]_vars => Shape'
  BY ShapeStep
<1>3. Shape => TypeOK
  BY DEF Shape
<1> QED
  BY <1>1, <1>2, <1>3, PTL DEF Spec

-----------------------------------------------------------------------------
(* The lease *)

(* The lease of a claim covers the claim, the sync and its bookkeeping. *)
LeaseHasSlack == Lease > ClaimDelay + SyncTimeout + BookkeepingTimeout

(* How long an active worker still has. *)
Budget(w) ==
    IF worker[w].step = "syncing" THEN worker[w].left + BookkeepingTimeout ELSE worker[w].left

(* The lease of a row outlasts the worker that holds it, and so no other worker *)
(* can claim the row.                                                            *)
LeaseInv ==
    /\ OneSyncAtATime
    /\ \A w \in Workers : Active(w) => row.state # "none"
    /\ \A w \in Workers : Active(w) /\ row.state = "present" => row.lease > Budget(w)

LEMMA InitLease == Init => LeaseInv
<1> SUFFICES ASSUME Init PROVE LeaseInv
  OBVIOUS
<1>1. \A w \in Workers : worker[w].step = "idle"
  BY DEF Init, Idle
<1> QED
  BY <1>1 DEF LeaseInv, OneSyncAtATime, Active

(* A step of one worker that neither claims nor marks keeps the lease ahead. *)
LEMMA LeaseKept ==
    ASSUME LeaseInv, NEW w \in Workers, row' = row,
           \A v \in Workers : v # w => worker'[v] = worker[v],
           Active(w)' => Active(w) /\ Budget(w)' \in Int /\ Budget(w) \in Int
                         /\ Budget(w)' <= Budget(w),
           row.lease \in Int
    PROVE  LeaseInv'
<1>1. \A v \in Workers : Active(v)' => Active(v)
  BY DEF Active
<1>2. OneSyncAtATime'
  BY <1>1 DEF LeaseInv, OneSyncAtATime
<1>3. ASSUME NEW v \in Workers, Active(v)', row.state = "present" PROVE row.lease > Budget(v)'
  <2>1. Active(v) /\ row.lease > Budget(v)
    BY <1>1, <1>3 DEF LeaseInv
  <2>2. CASE v = w
    BY <1>3, <2>1, <2>2
  <2>3. CASE v # w
    BY <2>1, <2>3 DEF Budget
  <2> QED
    BY <2>2, <2>3
<1> QED
  BY <1>1, <1>2, <1>3 DEF LeaseInv

(* What leaving the branches for the mark does to the worker: the version it
   read and the direction it works in stay. *)
LEMMA MarkingWorker ==
    ASSUME worker \in [Workers -> Worker], NEW w \in Workers, NEW f, NEW s, ToMarking(w, f, s)
    PROVE  /\ worker'[w].step = "marking" /\ worker'[w].failed = f
           /\ worker'[w].version = worker[w].version /\ worker'[w].disabled = worker[w].disabled
           /\ \A v \in Workers : v # w => worker'[v] = worker[v]
<1>1. PICK new : /\ worker' = [worker EXCEPT ![w] = new]
                 /\ new = [worker[w] EXCEPT !.todo = {}, !.at = NoBranch, !.sawHibernated = FALSE,
                                            !.sawEnabled = FALSE, !.step = "marking", !.failed = f,
                                            !.stopping = s, !.left = BookkeepingTimeout]
  BY ZenonT(60) DEF ToMarking
<1>2. worker[w] \in Worker
  BY Zenon
<1>3. /\ new.step = "marking" /\ new.failed = f
      /\ new.version = worker[w].version /\ new.disabled = worker[w].disabled
  BY <1>1, <1>2 DEF Worker
<1> QED
  BY Zenon, <1>1, <1>3

(* What a successful claim makes of the worker. *)
LEMMA ClaimedWorker ==
    ASSUME worker \in [Workers -> Worker], NEW w \in Workers,
           ClaimOrganizationStatusForSync(w), Active(w)'
    PROVE  /\ worker'[w].step = "syncing" /\ worker'[w].left = SyncTimeout
           /\ worker'[w].version = row.version /\ worker'[w].disabled = row.disabled
           /\ worker'[w].todo = Branches /\ worker'[w].at = NoBranch
           /\ worker'[w].failed = FALSE
<1>1. PICK r : r = [Idle(worker[w].awake) EXCEPT
                       !.step = "syncing", !.version = row.version,
                       !.disabled = row.disabled, !.attempts = row.attempts + 1,
                       !.todo = Branches, !.left = SyncTimeout]
  OBVIOUS
<1>2. /\ r.step = "syncing" /\ r.left = SyncTimeout /\ r.version = row.version
      /\ r.disabled = row.disabled /\ r.todo = Branches /\ r.at = NoBranch
      /\ r.failed = FALSE
  BY <1>1 DEF Idle
<1>3. Idle(worker[w].awake).step = "idle"
  BY DEF Idle
<1>4. worker'[w] = r \/ worker'[w] = Idle(worker[w].awake)
  BY <1>1 DEF ClaimOrganizationStatusForSync
<1> QED
  BY <1>2, <1>3, <1>4 DEF Active

(* No step lets a second worker in. *)
LEMMA LeaseStep == ASSUME Shape, LeaseInv, LeaseHasSlack, [Next]_vars PROVE LeaseInv'
<1>0. /\ row \in Row /\ worker \in [Workers -> Worker]
      /\ row.lease \in Int
      /\ \A w \in Workers : /\ worker[w] \in Worker /\ worker[w].left \in Nat
                            /\ worker[w].age \in 0..ClaimDelay
                            /\ Budget(w) \in Nat
  BY ConfigAssumption DEF Shape, TypeOK, Row, Worker, Longest, Budget
<1>i. \A a \in BOOLEAN : Idle(a).step = "idle" /\ [Idle(a) EXCEPT !.step = "claiming"].step = "claiming"
  BY DEF Idle
<1>1. ASSUME NEW d \in BOOLEAN, UpdateOrganizationStatus(d) PROVE LeaseInv'
  <2>1. \A w \in Workers : worker'[w].step = worker[w].step /\ worker'[w].left = worker[w].left
    BY <1>0, <1>1 DEF UpdateOrganizationStatus, Worker
  <2>2. CASE row.state = "none"
    BY <2>1, <2>2 DEF LeaseInv, OneSyncAtATime, Active
  <2>3. CASE row.state # "none"
    <3>1. row'.lease = row.lease /\ row'.state = row.state
      BY <1>0, <1>1, <2>3 DEF UpdateOrganizationStatus, Upserted, Row
    <3> QED
      BY <2>1, <3>1 DEF LeaseInv, OneSyncAtATime, Active, Budget
  <2> QED
    BY <2>2, <2>3
<1>2. CASE DeleteOrganizationStatus
  <2>1. row'.state = "deleted" /\ worker' = worker
    BY <1>2 DEF DeleteOrganizationStatus, NoRow
  <2> QED
    BY <2>1 DEF LeaseInv, OneSyncAtATime, Active
<1>3. ASSUME NEW w \in Workers, StartPass(w) PROVE LeaseInv'
  <2>1. ~Active(w)' /\ row' = row /\ \A v \in Workers : v # w => worker'[v] = worker[v]
    BY <1>0, <1>3, <1>i DEF StartPass, Active
  <2> QED
    BY <1>0, <2>1, LeaseKept
<1>4. ASSUME NEW w \in Workers, ClaimOrganizationStatusForSync(w) PROVE LeaseInv'
  <2>1. row.state = "present" /\ row.lease <= -worker[w].age
    BY <1>4 DEF ClaimOrganizationStatusForSync, Claimable
  <2>2. \A v \in Workers : ~Active(v)
    BY <1>0, <2>1, ConfigAssumption DEF LeaseInv
  <2>3. \A v \in Workers : v # w => ~Active(v)'
    BY <1>0, <1>4, <2>2 DEF ClaimOrganizationStatusForSync, Active
  <2>4. row'.lease = Lease - worker[w].age /\ row'.state = "present"
    BY <1>0, <1>4, <2>1 DEF ClaimOrganizationStatusForSync, Claimed, Row
  <2>5. Active(w)' => worker'[w].step = "syncing" /\ worker'[w].left = SyncTimeout
    BY ZenonT(60), <1>0, <1>4, ClaimedWorker
  <2>6. Active(w)' => row'.lease > Budget(w)'
    BY <1>0, <2>4, <2>5, ConfigAssumption DEF LeaseHasSlack, Budget
  <2> QED
    BY <2>3, <2>4, <2>6 DEF LeaseInv, OneSyncAtATime
<1>5. ASSUME NEW w \in Workers, EndPass(w) PROVE LeaseInv'
  <2>1. ~Active(w)' /\ row' = row /\ \A v \in Workers : v # w => worker'[v] = worker[v]
    BY <1>0, <1>5 DEF EndPass, Active, Idle
  <2> QED
    BY <1>0, <2>1, LeaseKept
<1>6. ASSUME NEW w \in Workers, DescribeBranch(w) PROVE LeaseInv'
  <2>1. /\ row' = row /\ \A v \in Workers : v # w => worker'[v] = worker[v]
        /\ worker'[w].step = worker[w].step /\ worker'[w].left = worker[w].left
    BY <1>0, <1>6 DEF DescribeBranch, Worker
  <2>2. Active(w)' = Active(w) /\ Budget(w)' = Budget(w)
    BY <2>1 DEF Active, Budget
  <2> QED
    BY <1>0, <2>1, <2>2, LeaseKept
<1>7. ASSUME NEW w \in Workers, UpdateBranch(w) PROVE LeaseInv'
  <2>1. /\ row' = row /\ \A v \in Workers : v # w => worker'[v] = worker[v]
        /\ worker'[w].step = worker[w].step /\ worker'[w].left = worker[w].left
    BY <1>0, <1>7 DEF UpdateBranch, NextBranch, Worker
  <2>2. Active(w)' = Active(w) /\ Budget(w)' = Budget(w)
    BY <2>1 DEF Active, Budget
  <2> QED
    BY <1>0, <2>1, <2>2, LeaseKept
<1>m. ASSUME NEW w \in Workers, NEW f \in BOOLEAN, NEW s \in BOOLEAN, ToMarking(w, f, s),
             worker[w].step = "syncing", row' = row
      PROVE  LeaseInv'
  <2>1. /\ \A v \in Workers : v # w => worker'[v] = worker[v]
        /\ worker'[w].step = "marking" /\ worker'[w].left = BookkeepingTimeout
    BY ZenonT(60), <1>0, <1>m DEF ToMarking, Worker
  <2>2. Active(w) /\ Budget(w)' = BookkeepingTimeout /\ Budget(w) = worker[w].left + BookkeepingTimeout
    BY <1>m, <2>1 DEF Active, Budget
  <2>3. Budget(w)' \in Int /\ Budget(w)' <= Budget(w) /\ Budget(w) \in Int
    BY <1>0, <2>2, ConfigAssumption
  <2> QED
    BY <1>0, <1>m, <2>1, <2>2, <2>3, LeaseKept
<1>8. ASSUME NEW w \in Workers, SyncReturns(w) PROVE LeaseInv'
  BY ZenonT(60), <1>0, <1>8, <1>m DEF SyncReturns, Worker
<1>9. ASSUME NEW w \in Workers, SyncAborts(w) PROVE LeaseInv'
  BY ZenonT(60), <1>9, <1>m DEF SyncAborts
<1>10. ASSUME NEW w \in Workers, Shutdown(w) PROVE LeaseInv'
  BY ZenonT(60), <1>10, <1>m DEF Shutdown
<1>11. ASSUME NEW w \in Workers, Mark(w) PROVE LeaseInv'
  <2>1. \A v \in Workers : v # w => ~Active(v) /\ worker'[v] = worker[v]
    BY ZenonT(60), <1>0, <1>11 DEF Mark, LeaseInv, OneSyncAtATime, Active
  <2>2. ~Active(w)'
    BY <1>0, <1>11 DEF Mark, Active, Idle
  <2> QED
    BY <2>1, <2>2 DEF LeaseInv, OneSyncAtATime, Active
<1>12. ASSUME NEW w \in Workers, Crash(w) PROVE LeaseInv'
  <2>1. ~Active(w)' /\ row' = row /\ \A v \in Workers : v # w => worker'[v] = worker[v]
    BY <1>0, <1>12 DEF Crash, Active, Idle
  <2> QED
    BY <1>0, <2>1, LeaseKept
<1>13. ASSUME NEW b \in Branches, ReconcileBranch(b) PROVE LeaseInv'
  BY <1>13 DEF ReconcileBranch, LeaseInv, OneSyncAtATime, Active, Budget
<1>14. CASE Tick
  <2>1. /\ row'.state = row.state
        /\ row.lease > 0 => row'.lease = row.lease - 1
    <3>1. row' = [row EXCEPT !.retry = Later(row.retry - 1, Longest),
                             !.lease = Later(row.lease - 1, Longest)]
      BY ZenonT(60), <1>14 DEF Tick
    <3>2. row'.state = row.state /\ row'.lease = Later(row.lease - 1, Longest)
      BY <1>0, <3>1 DEF Row
    <3> QED
      BY <1>0, <3>2, ConfigAssumption DEF Later, Longest
  <2>2. \A w \in Workers : /\ worker'[w].step = worker[w].step
                           /\ Active(w) => worker'[w].left = worker[w].left - 1
    BY ZenonT(60), <1>0, <1>14 DEF Tick, Active, Worker
  <2>3. \A w \in Workers : /\ Active(w)' = Active(w)
                           /\ Active(w) => Budget(w)' = Budget(w) - 1
    BY <1>0, <2>2, ConfigAssumption DEF Active, Budget
  <2> QED
    BY <1>0, <2>1, <2>3 DEF LeaseInv, OneSyncAtATime
<1>15. CASE UNCHANGED vars
  BY <1>15 DEF vars, LeaseInv, OneSyncAtATime, Active, Budget
<1> QED
  BY <1>1, <1>2, <1>3, <1>4, <1>5, <1>6, <1>7, <1>8, <1>9, <1>10, <1>11, <1>12,
     <1>13, <1>14, <1>15 DEF Next

(* When the lease exceeds the sync timeout by the time a claim and the            *)
(* bookkeeping may take, two workers never sync the organization at once          *)
(* (worker.go, Config.Lease).                                                      *)
THEOREM SyncsDoNotOverlap == ASSUME LeaseHasSlack PROVE Spec => []OneSyncAtATime
<1>1. Init => Shape /\ LeaseInv
  BY InitShape, InitLease
<1>2. Shape /\ LeaseInv /\ [Next]_vars => Shape' /\ LeaseInv'
  BY ShapeStep, LeaseStep
<1>3. LeaseInv => OneSyncAtATime
  BY DEF LeaseInv
<1> QED
  BY <1>1, <1>2, <1>3, PTL DEF Spec

-----------------------------------------------------------------------------
(* What a marked row says *)

Conv(b, disabled) ==
    /\ b \notin Plain => branch[b].hibernate = disabled
    /\ branch[b].s2zEnabled = (~disabled /\ b \in ScaleToZero)

(* The row has not overtaken its own version, and is not marked while it is synced. *)
HolderInv ==
    \A w \in Workers : Active(w) =>
        /\ ~row.synced
        /\ row.state = "present" =>
               /\ worker[w].version <= row.version
               /\ worker[w].version = row.version => worker[w].disabled = row.disabled

(* What was described is still so, and what was done is still done. *)
ProgressInv ==
    \A w \in Workers :
        /\ worker[w].step = "syncing" /\ worker[w].at # NoBranch =>
               /\ worker[w].at \notin worker[w].todo
               /\ worker[w].at \notin Plain =>
                      worker[w].sawHibernated = branch[worker[w].at].hibernate
               /\ worker[w].sawEnabled = branch[worker[w].at].s2zEnabled
        /\ worker[w].step = "syncing" /\ ~worker[w].failed =>
               \A b \in Branches \ worker[w].todo :
                   b # worker[w].at => Conv(b, worker[w].disabled)
        /\ worker[w].step = "marking" /\ ~worker[w].failed =>
               \A b \in Branches : Conv(b, worker[w].disabled)

MarkInv == row.synced => \A b \in Branches : Conv(b, row.disabled)

LEMMA InitSync == Init => HolderInv /\ ProgressInv /\ MarkInv
<1> SUFFICES ASSUME Init PROVE HolderInv /\ ProgressInv /\ MarkInv
  OBVIOUS
<1>1. (\A w \in Workers : worker[w].step = "idle") /\ ~row.synced
  BY DEF Init, Idle, NoRow
<1> QED
  BY <1>1 DEF HolderInv, ProgressInv, MarkInv, Active

(* A version names one status. *)
LEMMA HolderStep == ASSUME Shape, LeaseInv, HolderInv, [Next]_vars PROVE HolderInv'
<1>0. /\ row \in Row /\ worker \in [Workers -> Worker]
      /\ row.version \in Nat /\ row.disabled \in BOOLEAN
      /\ \A w \in Workers : worker[w] \in Worker /\ worker[w].version \in Nat
  BY DEF Shape, TypeOK, Row, Worker
<1>k. ASSUME NEW w \in Workers, row' = row,
             \A v \in Workers : v # w => worker'[v] = worker[v],
             Active(w)' => /\ Active(w) /\ worker'[w].version = worker[w].version
                           /\ worker'[w].disabled = worker[w].disabled
      PROVE  HolderInv'
  BY <1>k DEF HolderInv, Active
<1>1. ASSUME NEW d \in BOOLEAN, UpdateOrganizationStatus(d) PROVE HolderInv'
  <2>1. \A w \in Workers : /\ worker'[w].step = worker[w].step
                           /\ worker'[w].version = worker[w].version
                           /\ worker'[w].disabled = worker[w].disabled
    BY <1>0, <1>1 DEF UpdateOrganizationStatus, Worker
  <2>2. CASE row.state = "none"
    BY <2>1, <2>2 DEF LeaseInv, HolderInv, Active
  <2>3. CASE row.state # "none"
    <3>1. PICK v \in Nat : v = IF row.disabled # d THEN row.version + 1 ELSE row.version
      BY <1>0
    <3>2. row' = [row EXCEPT !.disabled = d, !.version = v, !.synced = FALSE,
                             !.attempts = 0, !.retry = 0]
      BY <1>1, <2>3, <3>1 DEF UpdateOrganizationStatus, Upserted
    <3>3. row'.disabled = d /\ row'.version = v /\ row'.synced = FALSE /\ row'.state = row.state
      BY <1>0, <3>2 DEF Row
    <3> QED
      BY <1>0, <2>1, <3>1, <3>3 DEF HolderInv, Active
  <2> QED
    BY <2>2, <2>3
<1>2. CASE DeleteOrganizationStatus
  <2>1. row'.state = "deleted" /\ row'.synced = FALSE /\ worker' = worker
    BY <1>2 DEF DeleteOrganizationStatus, NoRow
  <2> QED
    BY <2>1 DEF HolderInv, Active
<1>3. ASSUME NEW w \in Workers, StartPass(w) \/ EndPass(w) \/ Crash(w) PROVE HolderInv'
  <2>1. ~Active(w)' /\ row' = row /\ \A v \in Workers : v # w => worker'[v] = worker[v]
    BY <1>0, <1>3 DEF StartPass, EndPass, Crash, Active, Idle
  <2> QED
    BY <1>k, <2>1
<1>4. ASSUME NEW w \in Workers, ClaimOrganizationStatusForSync(w) PROVE HolderInv'
  <2>1. /\ row' = [row EXCEPT !.attempts = row.attempts + 1, !.lease = Lease - worker[w].age]
        /\ ~row.synced
    BY <1>4 DEF ClaimOrganizationStatusForSync, Claimed, Claimable
  <2>2. /\ row'.synced = row.synced /\ row'.version = row.version
        /\ row'.disabled = row.disabled /\ row'.state = row.state
    BY <1>0, <2>1 DEF Row
  <2>3. \A v \in Workers : v # w => worker'[v] = worker[v]
    BY <1>0, <1>4 DEF ClaimOrganizationStatusForSync
  <2>4. Active(w)' => worker'[w].version = row.version /\ worker'[w].disabled = row.disabled
    BY ZenonT(60), <1>0, <1>4, ClaimedWorker
  <2> QED
    BY <1>0, <2>1, <2>2, <2>3, <2>4 DEF HolderInv, Active
<1>6. ASSUME NEW w \in Workers, DescribeBranch(w) PROVE HolderInv'
  <2>1. /\ row' = row /\ \A v \in Workers : v # w => worker'[v] = worker[v]
        /\ worker'[w].version = worker[w].version /\ worker'[w].disabled = worker[w].disabled
        /\ Active(w)
    BY <1>0, <1>6 DEF DescribeBranch, Worker, Active
  <2> QED
    BY <1>k, <2>1
<1>7. ASSUME NEW w \in Workers, UpdateBranch(w) PROVE HolderInv'
  <2>1. /\ row' = row /\ \A v \in Workers : v # w => worker'[v] = worker[v]
        /\ worker'[w].version = worker[w].version /\ worker'[w].disabled = worker[w].disabled
        /\ Active(w)
    BY <1>0, <1>7 DEF UpdateBranch, NextBranch, Worker, Active
  <2> QED
    BY <1>k, <2>1
<1>8. ASSUME NEW w \in Workers, SyncReturns(w) \/ SyncAborts(w) \/ Shutdown(w) PROVE HolderInv'
  <2>1. PICK f, s : ToMarking(w, f, s)
    BY ZenonT(60), <1>8 DEF SyncReturns, SyncAborts, Shutdown
  <2>2. row' = row /\ Active(w)
    BY ZenonT(60), <1>8 DEF SyncReturns, SyncAborts, Shutdown, Active
  <2>3. /\ \A v \in Workers : v # w => worker'[v] = worker[v]
        /\ worker'[w].version = worker[w].version /\ worker'[w].disabled = worker[w].disabled
    BY Zenon, <1>0, <2>1, MarkingWorker
  <2> QED
    BY <1>k, <2>2, <2>3
<1>11. ASSUME NEW w \in Workers, Mark(w) PROVE HolderInv'
  <2>1. \A v \in Workers : ~Active(v)'
    <3>1. \A v \in Workers : v # w => ~Active(v) /\ worker'[v] = worker[v]
      BY ZenonT(60), <1>0, <1>11 DEF Mark, LeaseInv, OneSyncAtATime, Active
    <3>2. ~Active(w)'
      BY <1>0, <1>11 DEF Mark, Active, Idle
    <3> QED
      BY <3>1, <3>2 DEF Active
  <2> QED
    BY <2>1 DEF HolderInv
<1>13. ASSUME NEW b \in Branches, ReconcileBranch(b) PROVE HolderInv'
  BY <1>13 DEF ReconcileBranch, HolderInv, Active
<1>14. CASE Tick
  <2>1. /\ row'.state = row.state /\ row'.synced = row.synced
        /\ row'.version = row.version /\ row'.disabled = row.disabled
    BY ZenonT(60), <1>0, <1>14 DEF Tick, Row
  <2>2. \A w \in Workers : /\ worker'[w].step = worker[w].step
                           /\ worker'[w].version = worker[w].version
                           /\ worker'[w].disabled = worker[w].disabled
    BY ZenonT(60), <1>0, <1>14 DEF Tick, Worker
  <2> QED
    BY <2>1, <2>2 DEF HolderInv, Active
<1>15. CASE UNCHANGED vars
  BY <1>15 DEF vars, HolderInv, Active
<1> QED
  BY <1>1, <1>2, <1>3, <1>4, <1>6, <1>7, <1>8, <1>11, <1>13, <1>14, <1>15 DEF Next

(* An update that follows its description brings the branch into line and leaves *)
(* the others alone.                                                               *)
LEMMA UpdateConverges ==
    ASSUME Shape, ProgressInv, NEW w \in Workers, worker[w].step = "syncing",
           worker[w].at # NoBranch, branch' = Updated(w)
    PROVE  /\ worker[w].at \notin Plain =>
                  branch'[worker[w].at].hibernate = worker[w].disabled
           /\ branch'[worker[w].at].s2zEnabled =
                  (~worker[w].disabled /\ worker[w].at \in ScaleToZero)
           /\ \A b \in Branches : b # worker[w].at => branch'[b] = branch[b]
<1>1. worker[w] \in Worker /\ worker[w].at \in Branches /\ branch \in [Branches -> Branch]
  BY DEF Shape, TypeOK, Worker
<1>2. PICK c \in Branches : c = worker[w].at
  BY <1>1
<1>3. PICK d \in BOOLEAN : d = worker[w].disabled
  BY <1>1 DEF Worker
<1>4. PICK e \in BOOLEAN : e = DesiredEnabled(w)
  BY ZenonT(60) DEF DesiredEnabled
<1>5. PICK h \in BOOLEAN : h = worker[w].sawHibernated
  BY <1>1 DEF Worker
<1>s. (c \notin Plain => h = branch[c].hibernate) /\ worker[w].sawEnabled = branch[c].s2zEnabled
  BY <1>2, <1>5 DEF ProgressInv
<1>6. branch' = [branch EXCEPT
            ![c].hibernate = IF h # d THEN d ELSE branch[c].hibernate,
            ![c].s2zEnabled = IF branch[c].s2zEnabled # e THEN e ELSE branch[c].s2zEnabled]
  BY <1>1, <1>2, <1>3, <1>4, <1>5, <1>s DEF Updated, Branch
<1>7. (c \notin Plain => branch'[c].hibernate = d) /\ branch'[c].s2zEnabled = e
  BY <1>1, <1>6, <1>s DEF Branch
<1>8. \A b \in Branches : b # c => branch'[b] = branch[b]
  BY <1>1, <1>6
<1> QED
  BY <1>2, <1>3, <1>4, <1>7, <1>8 DEF DesiredEnabled

(* The branch operator changes the cluster of a branch and not the branch. *)
LEMMA ReconcileKeeps ==
    ASSUME Shape, NEW b \in Branches, ReconcileBranch(b)
    PROVE  \A c \in Branches : /\ branch'[c].hibernate = branch[c].hibernate
                              /\ branch'[c].s2zEnabled = branch[c].s2zEnabled
  BY DEF Shape, TypeOK, Branch, ReconcileBranch

(* Nobody else touches the branches while a worker walks them. *)
LEMMA ProgressStep ==
    ASSUME Shape, LeaseInv, ProgressInv, [Next]_vars PROVE ProgressInv'
<1>0. /\ worker \in [Workers -> Worker] /\ branch \in [Branches -> Branch]
      /\ \A w \in Workers : worker[w] \in Worker /\ worker[w].todo \subseteq Branches
  BY DEF Shape, TypeOK, Worker
<1>k. ASSUME NEW w \in Workers, branch' = branch, ~Active(w)',
             \A v \in Workers : v # w => worker'[v] = worker[v]
      PROVE  ProgressInv'
  BY <1>k DEF ProgressInv, Active, Conv
<1>a. ASSUME NEW w \in Workers, Active(w),
             \A v \in Workers : v # w => worker'[v] = worker[v]
      PROVE  \A v \in Workers : v # w => ~Active(v)'
  BY <1>a DEF LeaseInv, OneSyncAtATime, Active
<1>1. ASSUME NEW d \in BOOLEAN, UpdateOrganizationStatus(d) PROVE ProgressInv'
  <2>1. /\ branch' = branch
        /\ \A w \in Workers : /\ worker'[w].step = worker[w].step /\ worker'[w].at = worker[w].at
                              /\ worker'[w].todo = worker[w].todo
                              /\ worker'[w].failed = worker[w].failed
                              /\ worker'[w].disabled = worker[w].disabled
                              /\ worker'[w].sawHibernated = worker[w].sawHibernated
                              /\ worker'[w].sawEnabled = worker[w].sawEnabled
    BY <1>0, <1>1 DEF UpdateOrganizationStatus, Worker
  <2> QED
    BY <2>1 DEF ProgressInv, Conv
<1>2. CASE DeleteOrganizationStatus
  BY <1>2 DEF DeleteOrganizationStatus, ProgressInv, Conv
<1>3. ASSUME NEW w \in Workers, StartPass(w) \/ EndPass(w) \/ Crash(w) \/ Mark(w)
      PROVE  ProgressInv'
  <2>1. /\ ~Active(w)' /\ branch' = branch
        /\ \A v \in Workers : v # w => worker'[v] = worker[v]
    BY <1>0, <1>3 DEF StartPass, EndPass, Crash, Mark, Active, Idle
  <2> QED
    BY <1>k, <2>1
<1>4. ASSUME NEW w \in Workers, ClaimOrganizationStatusForSync(w) PROVE ProgressInv'
  <2>1. branch' = branch /\ \A v \in Workers : v # w => worker'[v] = worker[v]
    BY <1>0, <1>4 DEF ClaimOrganizationStatusForSync
  <2>2. CASE ~Active(w)'
    BY <1>k, <2>1, <2>2
  <2>3. CASE Active(w)'
    <3>1. worker'[w].step = "syncing" /\ worker'[w].todo = Branches /\ worker'[w].at = NoBranch
      BY ZenonT(60), <1>0, <1>4, <2>3, ClaimedWorker
    <3> QED
      BY <2>1, <3>1 DEF ProgressInv, Conv
  <2> QED
    BY <2>2, <2>3
<1>6. ASSUME NEW w \in Workers, DescribeBranch(w) PROVE ProgressInv'
  <2>1. /\ branch' = branch /\ worker[w].step = "syncing" /\ worker[w].at = NoBranch
        /\ \A v \in Workers : v # w => worker'[v] = worker[v]
    BY <1>0, <1>6 DEF DescribeBranch
  <2>2. /\ worker'[w].step = "syncing" /\ worker'[w].disabled = worker[w].disabled
        /\ \E b \in worker[w].todo :
               /\ worker'[w].todo = worker[w].todo \ {b}
               /\ \/ /\ worker'[w].at = b
                     /\ worker'[w].sawHibernated = DescribedHibernated(b)
                     /\ worker'[w].sawEnabled = branch[b].s2zEnabled
                     /\ worker'[w].failed = worker[w].failed
                  \/ /\ worker'[w].at = NoBranch
                     /\ worker'[w].failed = TRUE
    BY <1>0, <1>6 DEF DescribeBranch, Worker
  <2>3. \A b \in Branches \ Plain : DescribedHibernated(b) = branch[b].hibernate
    BY DEF DescribedHibernated
  <2>4. ~worker[w].failed =>
            \A b \in Branches \ worker[w].todo : Conv(b, worker[w].disabled)
    BY <2>1, BranchAssumption DEF ProgressInv
  <2>5. PICK b \in worker[w].todo :
               /\ worker'[w].todo = worker[w].todo \ {b}
               /\ \/ /\ worker'[w].at = b
                     /\ worker'[w].sawHibernated = DescribedHibernated(b)
                     /\ worker'[w].sawEnabled = branch[b].s2zEnabled
                     /\ worker'[w].failed = worker[w].failed
                  \/ /\ worker'[w].at = NoBranch
                     /\ worker'[w].failed = TRUE
    BY <2>2
  <2>6. b \in Branches
    BY <1>0, <2>5
  <2>7. /\ worker'[w].at # NoBranch =>
               /\ worker'[w].at \notin worker'[w].todo
               /\ worker'[w].at \notin Plain =>
                      worker'[w].sawHibernated = branch[worker'[w].at].hibernate
               /\ worker'[w].sawEnabled = branch[worker'[w].at].s2zEnabled
        /\ ~worker'[w].failed =>
               \A c \in Branches \ worker'[w].todo :
                   c # worker'[w].at => Conv(c, worker[w].disabled)
    BY <2>3, <2>4, <2>5, <2>6
  <2>8. \A v \in Workers : v # w => ~Active(v)'
    BY <1>a, <2>1 DEF Active
  <2>9. /\ worker'[w].step # "marking"
        /\ \A v \in Workers : v # w => worker'[v].step # "syncing" /\ worker'[v].step # "marking"
    BY <2>2, <2>8 DEF Active
  <2>10. \A c \in Branches : Conv(c, worker[w].disabled) => Conv(c, worker[w].disabled)'
    BY <2>1, <2>2 DEF Conv
  <2>11. /\ worker'[w].at # NoBranch =>
                /\ worker'[w].at \notin worker'[w].todo
                /\ worker'[w].at \notin Plain =>
                       worker'[w].sawHibernated = branch'[worker'[w].at].hibernate
                /\ worker'[w].sawEnabled = branch'[worker'[w].at].s2zEnabled
         /\ ~worker'[w].failed =>
                \A c \in Branches \ worker'[w].todo :
                    c # worker'[w].at => Conv(c, worker[w].disabled)'
    BY <2>1, <2>7, <2>10
  <2> QED
    BY <2>9, <2>11 DEF ProgressInv
<1>7. ASSUME NEW w \in Workers, UpdateBranch(w) PROVE ProgressInv'
  <2>1. /\ worker[w].step = "syncing" /\ worker[w].at # NoBranch
        /\ \E f \in BOOLEAN : NextBranch(w, f) /\ (~f => branch' = Updated(w))
    BY ZenonT(60), <1>7 DEF UpdateBranch
  <2>2. PICK f \in BOOLEAN : NextBranch(w, f) /\ (~f => branch' = Updated(w))
    BY <2>1
  <2>3. /\ worker'[w].step = "syncing" /\ worker'[w].at = NoBranch
        /\ worker'[w].todo = worker[w].todo /\ worker'[w].disabled = worker[w].disabled
        /\ worker'[w].failed = (worker[w].failed \/ f)
        /\ \A v \in Workers : v # w => worker'[v] = worker[v]
    BY <1>0, <2>1, <2>2 DEF NextBranch, Worker
  <2>4. ~f => \A b \in Branches : b # worker[w].at => branch'[b] = branch[b]
    BY <2>1, <2>2, UpdateConverges
  <2>5. ~f => /\ worker[w].at \notin Plain =>
                     branch'[worker[w].at].hibernate = worker[w].disabled
              /\ branch'[worker[w].at].s2zEnabled =
                     (~worker[w].disabled /\ worker[w].at \in ScaleToZero)
    BY <2>1, <2>2, UpdateConverges
  <2>6. ~worker[w].failed /\ ~f =>
            \A b \in Branches \ worker[w].todo : Conv(b, worker[w].disabled)'
    <3>1. ASSUME ~worker[w].failed, ~f, NEW b \in Branches \ worker[w].todo
          PROVE  /\ b \notin Plain => branch'[b].hibernate = worker[w].disabled
                 /\ branch'[b].s2zEnabled = (~worker[w].disabled /\ b \in ScaleToZero)
      BY SMTT(40), <2>1, <2>4, <2>5, <3>1 DEF ProgressInv, Conv
    <3> QED
      BY <2>3, <3>1 DEF Conv
  <2>7. \A v \in Workers : v # w => ~Active(v)'
    BY <1>a, <2>1, <2>3 DEF Active
  <2> QED
    BY ZenonT(60), <2>3, <2>6, <2>7 DEF ProgressInv, Active
<1>8. ASSUME NEW w \in Workers, SyncReturns(w) PROVE ProgressInv'
  <2>1. /\ worker[w].step = "syncing" /\ worker[w].todo = {} /\ worker[w].at = NoBranch
        /\ branch' = branch /\ ToMarking(w, worker[w].failed, FALSE)
    BY ZenonT(60), <1>8 DEF SyncReturns
  <2>2. /\ worker'[w].step = "marking" /\ worker'[w].failed = worker[w].failed
        /\ worker'[w].disabled = worker[w].disabled
        /\ \A v \in Workers : v # w => worker'[v] = worker[v]
    BY Zenon, <1>0, <2>1, MarkingWorker
  <2>3. ~worker[w].failed => \A b \in Branches : Conv(b, worker[w].disabled)
    BY <2>1, BranchAssumption DEF ProgressInv
  <2>4. \A v \in Workers : v # w => ~Active(v)'
    BY <1>a, <2>1, <2>2 DEF Active
  <2> QED
    BY ZenonT(60), <2>1, <2>2, <2>3, <2>4 DEF ProgressInv, Active, Conv
<1>9. ASSUME NEW w \in Workers, SyncAborts(w) \/ Shutdown(w) PROVE ProgressInv'
  <2>1. worker[w].step = "syncing" /\ \E s \in BOOLEAN : ToMarking(w, TRUE, s)
    BY ZenonT(60), <1>9 DEF SyncAborts, Shutdown
  <2>2. /\ worker'[w].step = "marking" /\ worker'[w].failed = TRUE
        /\ \A v \in Workers : v # w => worker'[v] = worker[v]
    BY Zenon, <1>0, <2>1, MarkingWorker
  <2>3. \A v \in Workers : v # w => ~Active(v)'
    BY <1>a, <2>1, <2>2 DEF Active
  <2> QED
    BY <2>2, <2>3 DEF ProgressInv, Active
<1>13. ASSUME NEW b \in Branches, ReconcileBranch(b) PROVE ProgressInv'
  BY <1>0, <1>13, ReconcileKeeps DEF ReconcileBranch, ProgressInv, Conv
<1>14. CASE Tick
  <2>1. /\ branch' = branch
        /\ \A w \in Workers : /\ worker'[w].step = worker[w].step /\ worker'[w].at = worker[w].at
                              /\ worker'[w].todo = worker[w].todo
                              /\ worker'[w].failed = worker[w].failed
                              /\ worker'[w].disabled = worker[w].disabled
                              /\ worker'[w].sawHibernated = worker[w].sawHibernated
                              /\ worker'[w].sawEnabled = worker[w].sawEnabled
    BY ZenonT(60), <1>0, <1>14 DEF Tick, Worker
  <2> QED
    BY <2>1 DEF ProgressInv, Conv
<1>15. CASE UNCHANGED vars
  BY <1>15 DEF vars, ProgressInv, Conv
<1> QED
  BY <1>1, <1>2, <1>3, <1>4, <1>6, <1>7, <1>8, <1>9, <1>13, <1>14, <1>15 DEF Next

(* A row is marked only by the worker that finished its version, and the branches *)
(* of a marked row have no worker.                                                 *)
LEMMA MarkStep ==
    ASSUME Shape, LeaseInv, HolderInv, ProgressInv, MarkInv, [Next]_vars
    PROVE  MarkInv'
<1>0. /\ row \in Row /\ worker \in [Workers -> Worker]
      /\ \A w \in Workers : worker[w] \in Worker
  BY DEF Shape, TypeOK
<1>k. ASSUME branch' = branch, row'.synced => row.synced, row'.disabled = row.disabled
      PROVE  MarkInv'
  BY <1>k DEF MarkInv, Conv
<1>n. ASSUME ~row'.synced PROVE MarkInv'
  BY <1>n DEF MarkInv
<1>1. ASSUME NEW d \in BOOLEAN, UpdateOrganizationStatus(d) PROVE MarkInv'
  <2>1. ~row'.synced
    BY <1>0, <1>1 DEF UpdateOrganizationStatus, Upserted, NoRow, Row
  <2> QED
    BY <1>n, <2>1
<1>2. CASE DeleteOrganizationStatus
  <2>1. ~row'.synced
    BY <1>2 DEF DeleteOrganizationStatus, NoRow
  <2> QED
    BY <1>n, <2>1
<1>3. ASSUME NEW w \in Workers,
             StartPass(w) \/ EndPass(w) \/ Crash(w) \/ DescribeBranch(w) \/ SyncReturns(w)
      PROVE  MarkInv'
  BY ZenonT(60), <1>k, <1>3 DEF StartPass, EndPass, Crash, DescribeBranch, SyncReturns
<1>4. ASSUME NEW w \in Workers, ClaimOrganizationStatusForSync(w) PROVE MarkInv'
  <2>1. row'.synced = row.synced /\ row'.disabled = row.disabled /\ branch' = branch
    BY <1>0, <1>4 DEF ClaimOrganizationStatusForSync, Claimed, Row
  <2> QED
    BY <1>k, <2>1
<1>7. ASSUME NEW w \in Workers, UpdateBranch(w) \/ SyncAborts(w) \/ Shutdown(w) PROVE MarkInv'
  <2>1. row' = row /\ Active(w)
    BY ZenonT(60), <1>7 DEF UpdateBranch, SyncAborts, Shutdown, Active
  <2> QED
    BY <1>n, <2>1 DEF HolderInv
<1>11. ASSUME NEW w \in Workers, Mark(w) PROVE MarkInv'
  <2>1. branch' = branch /\ worker[w].step = "marking" /\ Active(w)
    BY <1>11 DEF Mark, Active
  <2>2. CASE row' = row
    BY <1>k, <2>1, <2>2
  <2>3. CASE row' # row
    <3>1. /\ row.state = "present"
          /\ row' = IF worker[w].failed
                    THEN MarkedFailed(worker[w].version, RetryIn(w))
                    ELSE MarkedSynced(worker[w].version)
      BY ZenonT(60), <1>11, <2>3 DEF Mark
    <3>2. CASE worker[w].failed \/ row.version # worker[w].version
      <4>1. row'.synced = row.synced /\ row'.disabled = row.disabled
        BY ZenonT(60), <1>0, <3>1, <3>2 DEF MarkedFailed, MarkedSynced, Row
      <4> QED
        BY <1>k, <2>1, <4>1
    <3>3. CASE ~worker[w].failed /\ row.version = worker[w].version
      <4>1. row'.disabled = row.disabled
        BY <1>0, <3>1, <3>3 DEF MarkedSynced, Row
      <4>2. worker[w].disabled = row.disabled
        BY <2>1, <3>1, <3>3 DEF HolderInv
      <4>3. \A b \in Branches : Conv(b, row.disabled)
        BY <2>1, <3>3, <4>2 DEF ProgressInv
      <4> QED
        BY <2>1, <4>1, <4>3 DEF MarkInv, Conv
    <3> QED
      BY <3>2, <3>3
  <2> QED
    BY <2>2, <2>3
<1>13. ASSUME NEW b \in Branches, ReconcileBranch(b) PROVE MarkInv'
  BY <1>13, ReconcileKeeps DEF ReconcileBranch, MarkInv, Conv
<1>14. CASE Tick
  <2>1. row'.synced = row.synced /\ row'.disabled = row.disabled /\ branch' = branch
    BY ZenonT(60), <1>0, <1>14 DEF Tick, Row
  <2> QED
    BY <1>k, <2>1
<1>15. CASE UNCHANGED vars
  BY <1>k, <1>15 DEF vars
<1> QED
  BY <1>1, <1>2, <1>3, <1>4, <1>7, <1>11, <1>13, <1>14, <1>15 DEF Next

(* When the lease has that slack, a row that is marked synced describes the         *)
(* branches: no status change that arrives during a sync is lost (sync.go, the      *)
(* package comment).                                                                 *)
THEOREM SyncedRowsAreTrue ==
    ASSUME LeaseHasSlack PROVE Spec => []SyncedMeansConverged
<1> DEFINE Inv == Shape /\ LeaseInv /\ HolderInv /\ ProgressInv /\ MarkInv
<1>1. Init => Inv
  BY InitShape, InitLease, InitSync
<1>2. Inv /\ [Next]_vars => Inv'
  BY ShapeStep, LeaseStep, HolderStep, ProgressStep, MarkStep
<1>3. Inv => SyncedMeansConverged
  BY DEF MarkInv, Conv, SyncedMeansConverged, Converged
<1> QED
  BY <1>1, <1>2, <1>3, PTL DEF Spec

-----------------------------------------------------------------------------
(* The Vercel marketplace *)

InstRow == [status : {"absent", "active", "deleting"}, account : {c.account : c \in Installs} \cup {""},
            org : {c.org : c \in Installs} \cup {""}]

ResRow == [status : {"absent", "active", "deleting"}, project : {p.project : p \in Provisions} \cup {""}]

Asked == Adds \cup UNION {p.links : p \in Provisions}

LinkRow == [resource : Resources, scope : {l.scope : l \in Asked}, branch : {l.branch : l \in Asked},
            status : {"active", "deleting"}, late : BOOLEAN]

Provisioning == [pc : {"idle", "locked", "branches", "commit", "done"}, todo : SUBSET Asked]

(* Who has installed was told the organization of a row that is there. *)
InstallInv ==
    /\ inst \in [InstIds -> InstRow] /\ DOMAIN install = Installs
    /\ \A c \in Installs : install[c] \notin {"idle", "failed"} =>
          inst[c.id].status # "absent" /\ install[c] = inst[c.id].org
    /\ \A i, j \in InstIds : (inst[i].status = "active" /\ inst[j].status = "active"
                              /\ inst[i].account = inst[j].account) => i = j

ResTypeOK ==
    /\ res \in [Resources -> ResRow] /\ links \subseteq LinkRow
    /\ provision \in [Provisions -> Provisioning] /\ DOMAIN add = Adds

(* What a transaction has inserted is new ... *)
Fresh(p) ==
    /\ provision[p].pc = "commit" => provision[p].todo = {}
    /\ InTransaction(p) => /\ res[p.resource].status = "absent"
                           /\ \A r \in Resources : res[r].project # p.project
    /\ \A l \in Inserted(p) : \A m \in links : ~Clash(l, m)
    /\ \A l, m \in Inserted(p) : Clash(l, m) => l = m

(* ... and nothing another one has inserted. *)
Foreign(p, q) ==
    InTransaction(p) /\ InTransaction(q) =>
       /\ p.resource # q.resource /\ p.project # q.project
       /\ \A l \in Inserted(p), m \in Inserted(q) : l.branch # m.branch

LinksInv ==
    /\ \A l \in links : ~l.late /\ res[l.resource].status # "absent"
    /\ \A l, m \in links : Clash(l, m) => l = m

Provisioned ==
    \A r \in Resources : res[r].status # "absent" =>
       \E p \in Provisions : /\ p.resource = r
                             /\ \A l \in p.links : \E m \in links : m.resource = r /\ m.scope = l.scope

OneProject ==
    \A r, s \in Resources : (res[r].status # "absent" /\ res[s].status # "absent"
                             /\ res[r].project = res[s].project) => r = s

ResInv ==
    /\ ResTypeOK /\ LinksInv /\ Provisioned /\ OneProject
    /\ \A p \in Provisions : Fresh(p)
    /\ \A p, q \in Provisions : p # q => Foreign(p, q)
    /\ \A a \in Adds : add[a] = "locked" => res[a.resource].status = "active"

-----------------------------------------------------------------------------
LEMMA InstallInitInv == InstallInit => InstallInv
<1> SUFFICES ASSUME InstallInit PROVE InstallInv
  OBVIOUS
<1>1. Absent \in InstRow /\ Absent.status = "absent"
  BY DEF Absent, InstRow
<1> QED
  BY <1>1 DEF InstallInit, InstallInv

LEMMA UpsertInstallationInv ==
    ASSUME InstallInv, NEW c \in Installs, UpsertInstallation(c) PROVE InstallInv'
<1>1. c.id \in InstIds /\ inst[c.id] \in InstRow
  BY DEF InstIds, InstallInv
<1>2. \A d \in Installs : d.id \in InstIds
  BY DEF InstIds
<1>3. CASE inst[c.id].status = "absent" /\ ~Linked(c.account)
  <2>1. PICK entry : entry = [status |-> "active", account |-> c.account, org |-> c.org]
    BY Zenon
  <2>2. entry \in InstRow /\ entry.status = "active" /\ entry.account = c.account /\ entry.org = c.org
    BY Zenon, <2>1 DEF InstRow
  <2>3. inst' = [inst EXCEPT ![c.id] = entry] /\ install' = [install EXCEPT ![c] = c.org]
    BY <1>3, <2>1 DEF UpsertInstallation
  <2>4. /\ inst' \in [InstIds -> InstRow] /\ inst'[c.id] = entry
        /\ \A i \in InstIds : i # c.id => inst'[i] = inst[i]
    BY <1>1, <2>2, <2>3 DEF InstallInv
  <2>5. /\ DOMAIN install' = Installs /\ install'[c] = c.org
        /\ \A d \in Installs : d # c => install'[d] = install[d]
    BY <2>3 DEF InstallInv
  <2>6. ASSUME NEW d \in Installs, install'[d] \notin {"idle", "failed"}
        PROVE  inst'[d.id].status # "absent" /\ install'[d] = inst'[d.id].org
    BY <1>2, <1>3, <2>2, <2>4, <2>5, <2>6 DEF InstallInv
  <2>7. ASSUME NEW i \in InstIds, NEW j \in InstIds, inst'[i].status = "active", inst'[j].status = "active",
               inst'[i].account = inst'[j].account
        PROVE  i = j
    <3>1. \A k \in InstIds : k # c.id /\ inst'[k].status = "active" => inst'[k].account # c.account
      BY <1>3, <2>4 DEF Linked
    <3> QED
      BY ZenonT(60), <2>2, <2>4, <2>7, <3>1 DEF InstallInv
  <2> QED
    BY <2>4, <2>5, <2>6, <2>7 DEF InstallInv
<1>4. CASE inst[c.id].status # "absent" \/ Linked(c.account)
  <2>1. /\ inst' = inst
        /\ \/ install' = [install EXCEPT ![c] = "failed"]
           \/ install' = [install EXCEPT ![c] = inst[c.id].org] /\ inst[c.id].status = "active"
    BY <1>4 DEF UpsertInstallation
  <2>2. ASSUME NEW d \in Installs, install'[d] \notin {"idle", "failed"}
        PROVE  inst'[d.id].status # "absent" /\ install'[d] = inst'[d.id].org
    BY <2>1, <2>2 DEF InstallInv
  <2>3. DOMAIN install' = Installs
    BY <2>1 DEF InstallInv
  <2> QED
    BY <2>1, <2>2, <2>3 DEF InstallInv
<1> QED
  BY <1>3, <1>4

LEMMA DeleteInstallationInv ==
    ASSUME InstallInv, NEW i \in InstIds, DeleteInstallation(i) PROVE InstallInv'
<1>1. /\ inst' \in [InstIds -> InstRow] /\ inst'[i].status = "deleting" /\ install' = install
      /\ \A j \in InstIds : inst'[j].org = inst[j].org /\ inst'[j].account = inst[j].account
      /\ \A j \in InstIds : j # i => inst'[j] = inst[j]
      /\ inst[i].status = "active"
  BY Zenon DEF InstallInv, DeleteInstallation, InstRow
<1>2. \A d \in Installs : d.id \in InstIds
  BY DEF InstIds
<1>3. ASSUME NEW d \in Installs, install'[d] \notin {"idle", "failed"}
      PROVE  inst'[d.id].status # "absent" /\ install'[d] = inst'[d.id].org
  BY <1>1, <1>2, <1>3 DEF InstallInv
<1>4. ASSUME NEW j \in InstIds, NEW k \in InstIds, inst'[j].status = "active", inst'[k].status = "active",
             inst'[j].account = inst'[k].account
      PROVE  j = k
  BY <1>1, <1>4 DEF InstallInv
<1> QED
  BY <1>1, <1>3, <1>4 DEF InstallInv

-----------------------------------------------------------------------------
LEMMA ProvisionInitInv == ProvisionInit => ResInv
<1> SUFFICES ASSUME ProvisionInit PROVE ResInv
  OBVIOUS
<1>1. /\ \A r \in Resources : res[r].status = "absent"
      /\ \A p \in Provisions : provision[p].pc = "idle" /\ ~InTransaction(p)
      /\ \A a \in Adds : add[a] = "idle" /\ links = {}
  BY Zenon DEF ProvisionInit, InTransaction
<1>2. ResTypeOK
  BY Zenon DEF ProvisionInit, ResTypeOK, ResRow, Provisioning
<1>3. LinksInv /\ Provisioned /\ OneProject
  BY Zenon, <1>1 DEF LinksInv, Provisioned, OneProject, ProvisionInit
<1>4. \A p \in Provisions : Fresh(p)
  BY <1>1 DEF Fresh, Inserted
<1> QED
  BY <1>1, <1>2, <1>3, <1>4 DEF ResInv, Foreign

(* What a call has inserted stays its own while the call does not move. *)
LEMMA FreshKept ==
    ASSUME NEW p \in Provisions, Fresh(p), provision'[p] = provision[p],
           InTransaction(p) => /\ res'[p.resource].status = "absent"
                               /\ \A r \in Resources : res'[r].project # p.project,
           \A l \in Inserted(p) : \A m \in links' : ~Clash(l, m)
    PROVE  Fresh(p)'
<1>1. InTransaction(p)' = InTransaction(p) /\ Inserted(p)' = Inserted(p)
  BY DEF InTransaction, Inserted
<1>2. provision'[p].pc = "commit" => provision'[p].todo = {}
  BY DEF Fresh
<1>3. \A l \in Inserted(p)' : \A m \in links' : ~Clash(l, m)
  BY <1>1
<1>4. \A l, m \in Inserted(p)' : Clash(l, m) => l = m
  BY <1>1 DEF Fresh
<1> QED
  BY Zenon, <1>1, <1>2, <1>3, <1>4 DEF Fresh, Clash

LEMMA FreshStays ==
    ASSUME ResInv, NEW p \in Provisions, provision'[p] = provision[p], res' = res, links' = links PROVE Fresh(p)'
<1>1. Fresh(p)
  BY Zenon DEF ResInv
<1>2. /\ InTransaction(p) => /\ res'[p.resource].status = "absent"
                             /\ \A r \in Resources : res'[r].project # p.project
      /\ \A l \in Inserted(p) : \A m \in links' : ~Clash(l, m)
  BY Zenon, <1>1 DEF Fresh
<1> QED
  BY <1>1, <1>2, FreshKept

LEMMA ForeignKept ==
    ASSUME ResInv, NEW p \in Provisions, NEW q \in Provisions, p # q,
           provision'[p] = provision[p], provision'[q] = provision[q]
    PROVE  Foreign(p, q)'
<1>1. Foreign(p, q)
  BY DEF ResInv
<1>2. /\ InTransaction(p)' = InTransaction(p) /\ Inserted(p)' = Inserted(p)
      /\ InTransaction(q)' = InTransaction(q) /\ Inserted(q)' = Inserted(q)
  BY DEF InTransaction, Inserted
<1> QED
  BY <1>1, <1>2 DEF Foreign

LEMMA RowsStay ==
    ASSUME LinksInv, Provisioned, OneProject, UNCHANGED <<res, links>>
    PROVE  LinksInv' /\ Provisioned' /\ OneProject'
<1>1. LinksInv'
  BY Zenon DEF LinksInv, Clash
<1>2. Provisioned'
  BY Zenon DEF Provisioned
<1>3. OneProject'
  BY Zenon DEF OneProject
<1> QED
  BY <1>1, <1>2, <1>3

(* A provisioning call moves on and nothing else changes. *)
LEMMA ProvisionStep ==
    ASSUME ResInv, NEW p \in Provisions, NEW next \in Provisioning,
           provision' = [provision EXCEPT ![p] = next], UNCHANGED <<res, links, add>>,
           Fresh(p)', \A q \in Provisions : q # p => Foreign(p, q)' /\ Foreign(q, p)'
    PROVE  ResInv'
<1>1. /\ provision'[p] = next /\ \A q \in Provisions : q # p => provision'[q] = provision[q]
  BY DEF ResInv, ResTypeOK
<1>3. ResTypeOK'
  BY DEF ResInv, ResTypeOK
<1>4. LinksInv' /\ Provisioned' /\ OneProject'
  BY Zenon, RowsStay DEF ResInv
<1>5. ASSUME NEW q \in Provisions, q # p PROVE Fresh(q)'
  BY <1>1, <1>5, FreshStays
<1>6. ASSUME NEW q \in Provisions, NEW s \in Provisions, q # s, q # p, s # p PROVE Foreign(q, s)'
  BY <1>1, <1>6, ForeignKept
<1>7. \A a \in Adds : add'[a] = "locked" => res'[a.resource].status = "active"
  BY DEF ResInv
<1> QED
  BY ZenonT(60), <1>3, <1>4, <1>5, <1>6, <1>7 DEF ResInv

(* A call that is not in a transaction, or no longer. *)
LEMMA OutOfTransaction ==
    ASSUME ResInv, NEW p \in Provisions, NEW next \in Provisioning, next.pc \notin {"branches", "commit"},
           provision' = [provision EXCEPT ![p] = next], UNCHANGED <<res, links, add>>
    PROVE  ResInv'
<1>1. provision'[p].pc = next.pc
  BY DEF ResInv, ResTypeOK
<1>2. ~InTransaction(p)' /\ Inserted(p)' = {}
  BY <1>1 DEF InTransaction, Inserted
<1>3. Fresh(p)'
  BY <1>1, <1>2 DEF Fresh
<1>4. \A q \in Provisions : q # p => Foreign(p, q)' /\ Foreign(q, p)'
  BY <1>2 DEF Foreign
<1> QED
  BY Zenon, <1>3, <1>4, ProvisionStep

LEMMA TryAcquireLockInv ==
    ASSUME ResInv, NEW p \in Provisions, TryAcquireLock(p) PROVE ResInv'
<1>1. PICK pc \in {"locked", "done"} : provision' = [provision EXCEPT ![p].pc = pc]
  BY Zenon DEF TryAcquireLock
<1>2. PICK next : next = [provision[p] EXCEPT !.pc = pc]
  BY Zenon
<1>3. next \in Provisioning /\ next.pc = pc /\ provision' = [provision EXCEPT ![p] = next]
  BY <1>1, <1>2 DEF ResInv, ResTypeOK, Provisioning
<1> QED
  BY Zenon, <1>3, OutOfTransaction DEF TryAcquireLock

LEMMA InsertResourceInv ==
    ASSUME ResInv, NEW p \in Provisions, InsertResource(p) PROVE ResInv'
<1>1. CASE provision' = [provision EXCEPT ![p] = [@ EXCEPT !.pc = "done"]]
  <2>1. PICK next : next = [provision[p] EXCEPT !.pc = "done"]
    BY Zenon
  <2>2. next \in Provisioning /\ next.pc = "done" /\ provision' = [provision EXCEPT ![p] = next]
    BY <1>1, <2>1 DEF ResInv, ResTypeOK, Provisioning
  <2> QED
    BY <2>2, OutOfTransaction DEF InsertResource
<1>2. CASE /\ res[p.resource].status = "absent" /\ \A r \in Resources : res[r].project # p.project
           /\ provision' = [provision EXCEPT ![p] = [pc |-> IF p.links = {} THEN "commit" ELSE "branches",
                                                     todo |-> p.links]]
  <2>1. PICK next : next = [pc |-> IF p.links = {} THEN "commit" ELSE "branches", todo |-> p.links]
    BY Zenon
  <2>2. next \in Provisioning /\ next.todo = p.links /\ (next.pc = "commit" => p.links = {})
    BY <2>1 DEF Provisioning, Asked
  <2>3. /\ provision'[p] = next /\ \A q \in Provisions : q # p => provision'[q] = provision[q]
        /\ UNCHANGED <<res, links, add>>
    BY <1>2, <2>1 DEF ResInv, ResTypeOK, InsertResource
  <2>4. Inserted(p)' = {}
    BY <2>2, <2>3 DEF Inserted
  <2>5. Fresh(p)'
    BY <1>2, <2>2, <2>3, <2>4 DEF Fresh
  <2>6. ASSUME NEW q \in Provisions, q # p PROVE Foreign(p, q)' /\ Foreign(q, p)'
    <3>1. InTransaction(q)' = InTransaction(q)
      BY <2>3, <2>6 DEF InTransaction
    <3>2. InTransaction(q) => q.resource # p.resource /\ q.project # p.project
      BY DEF InsertResource, Waits
    <3> QED
      BY <2>4, <3>1, <3>2 DEF Foreign
  <2> QED
    BY <1>2, <2>1, <2>2, <2>3, <2>5, <2>6, ProvisionStep
<1> QED
  BY Zenon, <1>1, <1>2 DEF InsertResource

LEMMA InsertBranchInv ==
    ASSUME ResInv, NEW p \in Provisions, InsertBranch(p) PROVE ResInv'
<1>1. PICK l \in provision[p].todo :
         /\ ~BranchWaits(l, p)
         /\ provision' = [provision EXCEPT ![p] =
               IF BranchTaken(l) \/ \E m \in Inserted(p) : Clash(l, m) THEN [@ EXCEPT !.pc = "done"]
               ELSE [pc |-> IF @.todo = {l} THEN "commit" ELSE "branches", todo |-> @.todo \ {l}]]
  BY Zenon DEF InsertBranch
<1>2. provision[p].pc = "branches" /\ provision[p] \in Provisioning /\ InTransaction(p)
  BY DEF InsertBranch, InTransaction, ResInv, ResTypeOK
<1>3. CASE BranchTaken(l) \/ \E m \in Inserted(p) : Clash(l, m)
  <2>1. PICK next : next = [provision[p] EXCEPT !.pc = "done"]
    BY Zenon
  <2>2. next \in Provisioning /\ next.pc = "done" /\ provision' = [provision EXCEPT ![p] = next]
    BY Zenon, <1>1, <1>2, <1>3, <2>1 DEF Provisioning
  <2> QED
    BY <2>2, OutOfTransaction DEF InsertBranch
<1>4. CASE ~BranchTaken(l) /\ ~\E m \in Inserted(p) : Clash(l, m)
  <2>1. PICK todo : todo = provision[p].todo
    OBVIOUS
  <2>2. PICK next : next = [pc |-> IF todo = {l} THEN "commit" ELSE "branches", todo |-> todo \ {l}]
    BY Zenon
  <2>3. /\ next \in Provisioning /\ next.todo = todo \ {l} /\ next.pc \in {"branches", "commit"}
        /\ next.pc = "commit" => next.todo = {}
    BY <1>2, <2>1, <2>2 DEF Provisioning
  <2>4. /\ provision' = [provision EXCEPT ![p] = next] /\ UNCHANGED <<res, links, add>>
        /\ provision'[p] = next /\ \A q \in Provisions : q # p => provision'[q] = provision[q]
    BY Zenon, <1>1, <1>4, <2>1, <2>2 DEF ResInv, ResTypeOK, InsertBranch
  <2>5. InTransaction(p)' /\ Inserted(p)' \subseteq Inserted(p) \cup {l}
    BY <1>2, <2>1, <2>3, <2>4 DEF InTransaction, Inserted
  <2>6. Fresh(p)'
    <3>1. \A m \in links : ~Clash(l, m)
      BY <1>4 DEF BranchTaken
    <3>2. \A m, n \in Inserted(p)' : Clash(m, n) => m = n
      <4>1. \A m, n \in Inserted(p) : Clash(m, n) => m = n
        BY Zenon DEF ResInv, Fresh
      <4> QED
        BY SMTT(40), <1>4, <2>5, <4>1 DEF Clash
    <3>3. \A n \in Inserted(p)' : \A m \in links' : ~Clash(n, m)
      <4>1. \A n \in Inserted(p) : \A m \in links : ~Clash(n, m)
        BY Zenon DEF ResInv, Fresh
      <4> QED
        BY ZenonT(60), <2>4, <2>5, <3>1, <4>1
    <3>4. /\ res'[p.resource].status = "absent"
          /\ \A r \in Resources : res'[r].project # p.project
      BY Zenon, <1>2, <2>4 DEF ResInv, Fresh
    <3> QED
      BY Zenon, <2>3, <2>4, <3>2, <3>3, <3>4 DEF Fresh, Clash
  <2>7. ASSUME NEW q \in Provisions, q # p PROVE Foreign(p, q)' /\ Foreign(q, p)'
    <3>1. InTransaction(q)' = InTransaction(q) /\ Inserted(q)' = Inserted(q)
      BY <2>4, <2>7 DEF InTransaction, Inserted
    <3>2. \A m \in Inserted(q) : m.branch # l.branch
      BY <1>1, <2>7 DEF BranchWaits
    <3>3. Foreign(p, q) /\ Foreign(q, p)
      BY <2>7 DEF ResInv
    <3> QED
      BY ZenonT(60), <1>2, <2>5, <3>1, <3>2, <3>3 DEF Foreign
  <2> QED
    BY Zenon, <2>3, <2>4, <2>6, <2>7, ProvisionStep
<1> QED
  BY <1>3, <1>4

LEMMA CommitProvisionInv ==
    ASSUME ResInv, NEW p \in Provisions, CommitProvision(p) PROVE ResInv'
<1>1. PICK entry : entry = [status |-> "active", project |-> p.project]
  BY Zenon
<1>2. PICK new : new = {Link(l) : l \in p.links}
  BY Zenon
<1>3. PICK next : next = [provision[p] EXCEPT !.pc = "done"]
  BY Zenon
<1>4. /\ provision[p].pc = "commit" /\ InTransaction(p) /\ Inserted(p) = p.links
      /\ res[p.resource].status = "absent" /\ (\A r \in Resources : res[r].project # p.project)
      /\ p.resource \in Resources /\ \A l \in p.links : l.resource = p.resource
  BY VercelAssumption DEF CommitProvision, InTransaction, Inserted, ResInv, Fresh
<1>5. /\ res' = [res EXCEPT ![p.resource] = entry] /\ links' = links \cup new /\ add' = add
      /\ provision' = [provision EXCEPT ![p] = next]
  BY <1>1, <1>2, <1>3 DEF CommitProvision
<1>6. /\ entry \in ResRow /\ entry.status = "active" /\ entry.project = p.project
      /\ next \in Provisioning /\ next.pc = "done"
  BY Zenon, <1>1, <1>3 DEF ResRow, Provisioning, ResInv, ResTypeOK
<1>7. /\ res' \in [Resources -> ResRow] /\ res'[p.resource] = entry
      /\ \A r \in Resources : r # p.resource => res'[r] = res[r]
  BY Zenon, <1>4, <1>5, <1>6 DEF ResInv, ResTypeOK
<1>8. /\ provision' \in [Provisions -> Provisioning] /\ provision'[p].pc = "done"
      /\ \A q \in Provisions : q # p => provision'[q] = provision[q]
  BY Zenon, <1>5, <1>6 DEF ResInv, ResTypeOK
<1>9. ASSUME NEW l \in p.links
      PROVE  /\ Link(l) \in LinkRow /\ Link(l).branch = l.branch /\ Link(l).scope = l.scope
             /\ Link(l).resource = p.resource /\ ~Link(l).late
  BY Zenon, <1>4 DEF Link, LinkRow, Asked
<1>10. ResTypeOK'
  BY SMTT(40), <1>2, <1>5, <1>7, <1>8, <1>9 DEF ResInv, ResTypeOK
<1>11. ASSUME NEW n \in new
       PROVE  /\ ~n.late /\ n.resource = p.resource
              /\ \A m \in links : ~Clash(n, m) /\ ~Clash(m, n)
              /\ \A m \in new : Clash(n, m) => n = m
  <2>1. PICK l \in p.links : n = Link(l)
    BY <1>2
  <2>2. ~n.late /\ n.resource = p.resource /\ n.branch = l.branch /\ n.scope = l.scope
    BY <1>9, <2>1
  <2>3. \A m \in links : ~Clash(n, m) /\ ~Clash(m, n)
    BY SMTT(40), <1>4, <2>2 DEF ResInv, Fresh, Clash
  <2>4. ASSUME NEW m \in new, Clash(n, m) PROVE n = m
    <3>1. PICK k \in p.links : m = Link(k)
      BY <1>2
    <3>2. m.resource = p.resource /\ m.branch = k.branch /\ m.scope = k.scope
      BY <1>9, <3>1
    <3>3. Clash(l, k)
      BY <1>4, <2>2, <2>4, <3>2 DEF Clash
    <3>4. l = k
      BY <1>4, <3>3 DEF ResInv, Fresh
    <3> QED
      BY <2>1, <3>1, <3>4
  <2> QED
    BY <2>2, <2>3, <2>4
<1>12. LinksInv'
  <2>1. \A l \in links' : ~l.late /\ res'[l.resource].status # "absent"
    <3>1. \A l \in links : l.resource \in Resources
      BY Zenon DEF ResInv, ResTypeOK, LinkRow
    <3> QED
      BY Zenon, <1>4, <1>5, <1>6, <1>7, <1>11, <3>1 DEF ResInv, LinksInv
  <2>2. \A l, m \in links' : Clash(l, m) => l = m
    BY Zenon, <1>5, <1>11 DEF ResInv, LinksInv
  <2> QED
    BY <2>1, <2>2 DEF LinksInv, Clash
<1>13. Provisioned'
  <2> SUFFICES ASSUME NEW r \in Resources, res'[r].status # "absent"
               PROVE  \E q \in Provisions : /\ q.resource = r
                         /\ \A l \in q.links : \E m \in links' : m.resource = r /\ m.scope = l.scope
    BY DEF Provisioned
  <2>1. CASE r = p.resource
    <3>1. \A l \in p.links : Link(l) \in links' /\ Link(l).resource = r /\ Link(l).scope = l.scope
      BY <1>2, <1>5, <1>9, <2>1
    <3> QED
      BY <2>1, <3>1
  <2>2. CASE r # p.resource
    <3>1. Provisioned
      BY Zenon DEF ResInv
    <3> QED
      BY SMTT(40), <1>5, <1>7, <2>2, <3>1 DEF Provisioned
  <2> QED
    BY <2>1, <2>2
<1>14. OneProject'
  <2>1. \A r \in Resources : r # p.resource => res'[r].project # res'[p.resource].project
    BY <1>4, <1>6, <1>7
  <2>2. ASSUME NEW r \in Resources, NEW s \in Resources, r # p.resource, s # p.resource,
               res'[r].status # "absent", res'[s].status # "absent", res'[r].project = res'[s].project
        PROVE  r = s
    <3>1. res'[r] = res[r] /\ res'[s] = res[s] /\ OneProject
      BY <1>7, <2>2 DEF ResInv
    <3> QED
      BY <2>2, <3>1 DEF OneProject
  <2> QED
    BY <2>1, <2>2 DEF OneProject
<1>15. ~InTransaction(p)' /\ Inserted(p)' = {}
  BY <1>8 DEF InTransaction, Inserted
<1>16. \A q \in Provisions : q # p => InTransaction(q)' = InTransaction(q) /\ Inserted(q)' = Inserted(q)
  BY <1>8 DEF InTransaction, Inserted
<1>17. ASSUME NEW q \in Provisions PROVE Fresh(q)'
  <2>1. CASE q = p
    BY <1>8, <1>15, <2>1 DEF Fresh
  <2>2. CASE q # p
    <3>1. Foreign(q, p) /\ Fresh(q) /\ provision'[q] = provision[q] /\ q.resource \in Resources
      BY <1>8, <2>2, VercelAssumption DEF ResInv
    <3>2. InTransaction(q) => /\ res'[q.resource].status = "absent"
                              /\ \A r \in Resources : res'[r].project # q.project
      BY Zenon, <1>4, <1>6, <1>7, <3>1 DEF Foreign, Fresh
    <3>3. ASSUME NEW l \in Inserted(q), NEW m \in links' PROVE ~Clash(l, m)
      <4>1. InTransaction(q) /\ l \in q.links
        BY DEF Inserted
      <4>2. l.resource = q.resource /\ q.resource # p.resource
        BY Zenon, <1>4, <3>1, <4>1, VercelAssumption DEF Foreign
      <4>3. CASE m \in links
        BY Zenon, <3>1, <4>3 DEF Fresh
      <4>4. CASE m \in new
        <5>1. PICK k \in p.links : m = Link(k)
          BY <1>2, <4>4
        <5>2. m.branch = k.branch /\ m.resource = p.resource
          BY <1>9, <5>1
        <5>3. l.branch # k.branch
          BY <1>4, <3>1, <4>1 DEF Foreign
        <5> QED
          BY Zenon, <4>2, <5>2, <5>3 DEF Clash
      <4> QED
        BY <1>5, <4>3, <4>4
    <3>4. /\ provision'[q].pc = "commit" => provision'[q].todo = {}
          /\ \A l, m \in Inserted(q) : Clash(l, m) => l = m
      BY Zenon, <3>1 DEF Fresh
    <3> QED
      BY ZenonT(60), <1>16, <2>2, <3>2, <3>3, <3>4 DEF Fresh, Clash
  <2> QED
    BY <2>1, <2>2
<1>18. ASSUME NEW q \in Provisions, NEW s \in Provisions, q # s PROVE Foreign(q, s)'
  BY ZenonT(60), <1>15, <1>16, <1>18 DEF ResInv, Foreign
<1>19. \A a \in Adds : add'[a] = "locked" => res'[a.resource].status = "active"
  BY ZenonT(60), <1>4, <1>5, <1>6, <1>7, VercelAssumption DEF ResInv
<1> QED
  BY <1>10, <1>12, <1>13, <1>14, <1>17, <1>18, <1>19 DEF ResInv

LEMMA LockResourceInv ==
    ASSUME ResInv, NEW a \in Adds, LockResource(a) PROVE ResInv'
<1>1. /\ UNCHANGED <<res, links, provision>> /\ DOMAIN add' = Adds
      /\ \A b \in Adds : add'[b] = "locked" => res[b.resource].status = "active"
  BY DEF LockResource, ResInv, ResTypeOK
<1>2. ResTypeOK' /\ LinksInv' /\ Provisioned' /\ OneProject'
  BY SMTT(40), <1>1 DEF ResInv, ResTypeOK, LinksInv, Provisioned, OneProject, Clash
<1>3. \A p \in Provisions : InTransaction(p)' = InTransaction(p) /\ Inserted(p)' = Inserted(p)
  BY <1>1 DEF InTransaction, Inserted
<1>4. \A p \in Provisions : Fresh(p)'
  BY <1>1, FreshStays
<1>5. \A p, q \in Provisions : p # q => Foreign(p, q)'
  BY <1>1, ForeignKept
<1> QED
  BY Zenon, <1>1, <1>2, <1>4, <1>5 DEF ResInv

(* The links change, without any that clashes with what is there or inserted. *)
LEMMA LinkStep ==
    ASSUME ResInv, links' \subseteq LinkRow, UNCHANGED <<res, provision>>, DOMAIN add' = Adds,
           \A a \in Adds : add'[a] = "locked" => add[a] = "locked",
           \A l \in links' : ~l.late /\ res[l.resource].status # "absent",
           \A l, m \in links' : Clash(l, m) => l = m,
           \A l \in links : \E m \in links' : m.resource = l.resource /\ m.scope = l.scope,
           \A p \in Provisions : \A l \in Inserted(p) : \A m \in links' : ~Clash(l, m)
    PROVE  ResInv'
<1>1. ResTypeOK' /\ LinksInv' /\ OneProject'
  BY ZenonT(60) DEF ResInv, ResTypeOK, LinksInv, OneProject, Clash
<1>2. Provisioned'
  <2> SUFFICES ASSUME NEW r \in Resources, res[r].status # "absent"
               PROVE  \E p \in Provisions : /\ p.resource = r
                         /\ \A l \in p.links : \E m \in links' : m.resource = r /\ m.scope = l.scope
    BY DEF Provisioned
  <2>1. PICK p \in Provisions : /\ p.resource = r
                                /\ \A l \in p.links : \E m \in links : m.resource = r /\ m.scope = l.scope
    BY DEF ResInv, Provisioned
  <2>2. ASSUME NEW l \in p.links PROVE \E m \in links' : m.resource = r /\ m.scope = l.scope
    <3>1. PICK m \in links : m.resource = r /\ m.scope = l.scope
      BY <2>1
    <3>2. PICK n \in links' : n.resource = m.resource /\ n.scope = m.scope
      OBVIOUS
    <3> QED
      BY <3>1, <3>2
  <2> QED
    BY Zenon, <2>1, <2>2
<1>4. ASSUME NEW p \in Provisions PROVE Fresh(p)'
  <2>1. Fresh(p)
    BY Zenon DEF ResInv
  <2>2. InTransaction(p) => /\ res'[p.resource].status = "absent"
                            /\ \A r \in Resources : res'[r].project # p.project
    BY Zenon, <2>1 DEF Fresh
  <2> QED
    BY ZenonT(60), <2>1, <2>2, FreshKept
<1>5. \A p, q \in Provisions : p # q => Foreign(p, q)'
  BY ZenonT(60), ForeignKept
<1>6. \A a \in Adds : add'[a] = "locked" => res'[a.resource].status = "active"
  BY Zenon DEF ResInv
<1> QED
  BY Zenon, <1>1, <1>2, <1>4, <1>5, <1>6 DEF ResInv

LEMMA AddBranchInv ==
    ASSUME ResInv, NEW a \in Adds, AddBranch(a) PROVE ResInv'
<1>1. /\ UNCHANGED <<res, provision>> /\ DOMAIN add' = Adds
      /\ \A b \in Adds : add'[b] = "locked" => add[b] = "locked"
      /\ add[a] = "locked" /\ res[a.resource].status = "active" /\ a.resource \in Resources
  BY Zenon, VercelAssumption DEF AddBranch, ResInv, ResTypeOK
<1>2. PICK n : n = Link(a)
  OBVIOUS
<1>3. /\ n \in LinkRow /\ n.resource = a.resource /\ n.scope = a.scope /\ n.branch = a.branch /\ ~n.late
  BY Zenon, <1>1, <1>2 DEF Link, LinkRow, Asked
<1>4. CASE BranchTaken(a)
  <2>1. links' = links
    BY Zenon, <1>4 DEF AddBranch
  <2> QED
    BY Zenon, <1>1, <2>1, LinkStep DEF ResInv, ResTypeOK, LinksInv, Fresh
<1>5. CASE ~BranchTaken(a)
  <2>1. links' = links \cup {n}
    BY ZenonT(60), <1>2, <1>5 DEF AddBranch
  <2>2. \A m \in links : ~Clash(n, m) /\ ~Clash(m, n)
    BY <1>3, <1>5 DEF BranchTaken, Clash
  <2>3. ASSUME NEW p \in Provisions, NEW l \in Inserted(p) PROVE ~Clash(l, n)
    <3>1. l.branch # a.branch
      BY ZenonT(60) DEF AddBranch
    <3>2. InTransaction(p) /\ l.resource = p.resource
      BY ZenonT(60), VercelAssumption DEF Inserted
    <3>3. res[p.resource].status = "absent"
      BY Zenon, <3>2 DEF ResInv, Fresh
    <3> QED
      BY ZenonT(60), <1>1, <1>3, <3>1, <3>2, <3>3 DEF Clash
  <2>4. \A l \in links' : ~l.late /\ res[l.resource].status # "absent"
    BY Zenon, <1>1, <1>3, <2>1 DEF ResInv, LinksInv
  <2>5. \A l, m \in links' : Clash(l, m) => l = m
    BY Zenon, <2>1, <2>2 DEF ResInv, LinksInv
  <2>6. \A p \in Provisions : \A l \in Inserted(p) : \A m \in links' : ~Clash(l, m)
    <3>1. \A p \in Provisions : \A l \in Inserted(p) : \A m \in links : ~Clash(l, m)
      BY Zenon DEF ResInv, Fresh
    <3> QED
      BY SMTT(40), <2>1, <2>3, <3>1
  <2>7. links' \subseteq LinkRow /\ \A l \in links : \E m \in links' : m.resource = l.resource /\ m.scope = l.scope
    BY ZenonT(60), <1>3, <2>1 DEF ResInv, ResTypeOK
  <2> QED
    BY Zenon, <1>1, <2>4, <2>5, <2>6, <2>7, LinkStep
<1> QED
  BY <1>4, <1>5

LEMMA DeleteLinkInv ==
    ASSUME ResInv, NEW l \in links, DeleteLink(l) PROVE ResInv'
<1>1. PICK n : n = [l EXCEPT !.status = "deleting"]
  BY Zenon
<1>2. /\ n \in LinkRow /\ n.resource = l.resource /\ n.scope = l.scope /\ n.branch = l.branch /\ n.late = l.late
  BY <1>1 DEF ResInv, ResTypeOK, LinkRow
<1>3. links' = (links \ {l}) \cup {n} /\ UNCHANGED <<res, provision, add>>
  BY <1>1 DEF DeleteLink
<1>4. \A m \in links \ {l} : ~Clash(l, m) /\ ~Clash(m, l)
  BY Zenon DEF ResInv, LinksInv
<1>5. \A m \in links \ {l} : ~Clash(n, m) /\ ~Clash(m, n)
  BY ZenonT(60), <1>2, <1>4 DEF Clash
<1>6. \A m \in links' : ~m.late /\ res[m.resource].status # "absent"
  BY Zenon, <1>2, <1>3 DEF ResInv, LinksInv
<1>7. \A k, m \in links' : Clash(k, m) => k = m
  BY ZenonT(60), <1>3, <1>5 DEF ResInv, LinksInv
<1>8. \A k \in links : \E m \in links' : m.resource = k.resource /\ m.scope = k.scope
  BY <1>2, <1>3
<1>9. ASSUME NEW p \in Provisions, NEW k \in Inserted(p), NEW m \in links' PROVE ~Clash(k, m)
  <2>1. \A o \in links : ~Clash(k, o)
    BY ZenonT(60) DEF ResInv, Fresh
  <2> QED
    BY ZenonT(60), <1>2, <1>3, <2>1 DEF Clash
<1>10. links' \subseteq LinkRow /\ DOMAIN add' = Adds
  BY <1>2, <1>3 DEF ResInv, ResTypeOK
<1> QED
  BY ZenonT(60), <1>3, <1>6, <1>7, <1>8, <1>9, <1>10, LinkStep

LEMMA DeleteResourceInv ==
    ASSUME ResInv, NEW r \in Resources, DeleteResource(r) PROVE ResInv'
<1>1. /\ res' \in [Resources -> ResRow] /\ res'[r].status = "deleting" /\ res[r].status = "active"
      /\ \A s \in Resources : /\ res'[s].project = res[s].project
                              /\ s # r => res'[s] = res[s]
                              /\ res'[s].status = "absent" <=> res[s].status = "absent"
      /\ UNCHANGED <<links, provision, add>>
  BY Zenon DEF DeleteResource, ResInv, ResTypeOK, ResRow
<1>2. \A l \in links : l.resource \in Resources
  BY Zenon DEF ResInv, ResTypeOK, LinkRow
<1>3. ResTypeOK' /\ LinksInv' /\ OneProject'
  <2>1. ResTypeOK'
    BY Zenon, <1>1 DEF ResInv, ResTypeOK
  <2>2. LinksInv'
    <3>1. LinksInv /\ links' = links
      BY Zenon, <1>1 DEF ResInv
    <3>2. \A l \in links' : ~l.late /\ res'[l.resource].status # "absent"
      BY Zenon, <1>1, <1>2, <3>1 DEF LinksInv
    <3>3. \A l, m \in links' : Clash(l, m) => l = m
      BY Zenon, <3>1 DEF LinksInv
    <3> QED
      BY SMTT(40), <3>2, <3>3 DEF LinksInv, Clash
  <2>3. OneProject'
    <3>1. OneProject
      BY Zenon DEF ResInv
    <3> QED
      BY SMTT(40), <1>1, <3>1 DEF OneProject
  <2> QED
    BY <2>1, <2>2, <2>3
<1>4. Provisioned'
  BY <1>1 DEF ResInv, Provisioned
<1>6. ASSUME NEW p \in Provisions PROVE Fresh(p)'
  <2>1. Fresh(p) /\ p.resource \in Resources
    BY VercelAssumption DEF ResInv
  <2>2. InTransaction(p) => /\ res'[p.resource].status = "absent"
                            /\ \A s \in Resources : res'[s].project # p.project
    BY ZenonT(60), <1>1, <2>1 DEF Fresh
  <2>3. \A l \in Inserted(p) : \A m \in links' : ~Clash(l, m)
    BY Zenon, <1>1, <2>1 DEF Fresh
  <2> QED
    BY ZenonT(60), <1>1, <2>1, <2>2, <2>3, FreshKept
<1>7. \A p, q \in Provisions : p # q => Foreign(p, q)'
  BY ZenonT(60), <1>1, ForeignKept
<1>8. ASSUME NEW a \in Adds, add'[a] = "locked" PROVE res'[a.resource].status = "active"
  BY <1>1, <1>8, VercelAssumption DEF ResInv, DeleteResource
<1> QED
  BY Zenon, <1>1, <1>3, <1>4, <1>6, <1>7, <1>8 DEF ResInv

LEMMA ResStutter ==
    ASSUME ResInv, UNCHANGED <<res, links, provision, add>> PROVE ResInv'
<1>2. ResTypeOK' /\ LinksInv' /\ Provisioned' /\ OneProject'
  <2>1. ResTypeOK'
    BY Zenon DEF ResInv, ResTypeOK
  <2> QED
    BY Zenon, <2>1, RowsStay DEF ResInv
<1>3. \A p \in Provisions : Fresh(p)'
  BY FreshStays
<1>4. \A p, q \in Provisions : p # q => Foreign(p, q)'
  BY ForeignKept
<1> QED
  BY ZenonT(60), <1>2, <1>3, <1>4 DEF ResInv

LEMMA VercelInvNext ==
    InstallInv /\ ResInv /\ [InstallNext \/ ProvisionNext]_vercelVars => InstallInv' /\ ResInv'
<1> SUFFICES ASSUME InstallInv, ResInv, [InstallNext \/ ProvisionNext]_vercelVars
             PROVE  InstallInv' /\ ResInv'
  OBVIOUS
<1>1. UNCHANGED <<inst, install>> => InstallInv'
  BY DEF InstallInv
<1>2. CASE InstallNext
  <2>1. UNCHANGED <<res, links, provision, add>>
    BY Zenon, <1>2 DEF InstallNext, UpsertInstallation, DeleteInstallation
  <2> QED
    BY <1>2, <2>1, ResStutter, UpsertInstallationInv, DeleteInstallationInv DEF InstallNext
<1>3. CASE ProvisionNext
  <2>1. UNCHANGED <<inst, install>>
    BY Zenon, <1>3 DEF ProvisionNext, TryAcquireLock, InsertResource, InsertBranch, CommitProvision, LockResource,
       AddBranch, DeleteResource, DeleteLink
  <2> QED
    BY <1>1, <1>3, <2>1, TryAcquireLockInv, InsertResourceInv, InsertBranchInv, CommitProvisionInv,
       LockResourceInv, AddBranchInv, DeleteResourceInv, DeleteLinkInv DEF ProvisionNext
<1>4. CASE UNCHANGED vercelVars
  BY <1>1, <1>4, ResStutter DEF vercelVars
<1> QED
  BY <1>2, <1>3, <1>4

(* Installations, resources and links keep to their organization, project and     *)
(* branch, for any calls, however their statements and transactions interleave.   *)
THEOREM LinksAlwaysHold == VercelSpec => []LinksHold
<1>1. InstallInv /\ ResInv => LinksHold
  BY Zenon DEF InstallInv, ResInv, LinksHold, LinksInv, Provisioned, OneProject
<1> QED
  BY <1>1, InstallInitInv, ProvisionInitInv, VercelInvNext, PTL DEF VercelSpec
===============================================================================
