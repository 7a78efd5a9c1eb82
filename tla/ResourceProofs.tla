---------------------------- MODULE ResourceProofs ----------------------------
(***************************************************************************)
(* The objects that the Branch reconciler keeps for a Branch are what its    *)
(* status says they are, and what they rely on is there, for any plans,      *)
(* cluster names, edits, faults and restarts.                                *)
(***************************************************************************)
EXTENDS BranchResources, Integers, TLAPS

-----------------------------------------------------------------------------
(* The reconciler and the objects of a Branch *)

BranchOf == [there : BOOLEAN, gen : Nat, name : Named, paused : BOOLEAN, pooler : BOOLEAN,
             hibernated : BOOLEAN, plan : Plan, ready : {"none", "true", "false", "unknown"},
             observed : Nat, recorded : BOOLEAN]

ClusterSpecOf == [bootstrap : {"snapshot", "store", "noop", "initdb"},
                  archiver : {"off", "barman", "pgbackrest"}, encrypted : BOOLEAN, hibernated : BOOLEAN]

ClusterOf == [st : {"absent", "new", "healthy"}, owned : BOOLEAN, spec : ClusterSpecOf, archived : BOOLEAN]

Objects == [store : BOOLEAN, snapshot : BOOLEAN, clone : BOOLEAN, passwords : BOOLEAN,
            cipher : [own : Nat, source : BOOLEAN], services : Named, poolersvc : Named,
            pooler : [ClusterNames -> {"absent", "stopped", "running"}],
            schedule : {"absent", "suspended", "active"}, scheduled : Named,
            policy : Named, role : BOOLEAN, binding : Named, account : BOOLEAN,
            token : SUBSET ClusterNames]

TypesOK ==
    /\ branch \in BranchOf /\ known \in BranchOf
    /\ cluster \in [ClusterNames -> ClusterOf] /\ listed \in [ClusterNames -> ClusterOf]
    /\ have \in Objects
    /\ rec \in [pc : 0..17, b : BranchOf]
    /\ repo \in Nat /\ phrases \in Nat

(* Two copies of a Branch with the same specification. *)
Same(b, d) == b.name = d.name /\ b.pooler = d.pooler /\ b.hibernated = d.hibernated /\ b.plan = d.plan

(* Copies of the Branch are of an earlier generation, or specify the same. *)
Copies ==
    /\ known.gen <= branch.gen /\ known.observed <= known.gen /\ branch.observed <= known.gen
    /\ known.gen = branch.gen => Same(known, branch)
    /\ known.there => branch.there /\ known.plan = branch.plan
    /\ ~known.there => known = NoBranch
    /\ ~branch.there => branch = NoBranch /\ rec.pc = 0
    /\ branch.plan \in Plans \cup {NoPlan}
    /\ rec.pc # 0 => /\ rec.b.gen <= known.gen /\ branch.observed <= rec.b.gen
                     /\ rec.b.observed = rec.b.gen
                     /\ rec.b.gen = branch.gen => Same(rec.b, branch)
                     /\ rec.b.plan = branch.plan

(* What step j leaves behind for a Branch with the specification b. *)
Done(j, b) ==
    /\ j = 1 => have.store = (b.plan.backup = "barman")
    /\ j = 3 => (b.plan.restore = "clone" => have.clone)
    /\ j = 4 => have.passwords
    /\ j = 6 /\ b.name # NoName =>
          /\ cluster[b.name].st # "absent" /\ cluster[b.name].owned
          /\ cluster[b.name].spec = ClusterSpec(b)
    /\ j = 9 => have.services = b.name
    /\ j = 10 => (b.name # NoName /\ b.pooler => have.poolersvc = b.name)
    /\ j = 11 /\ b.name # NoName =>
          have.pooler[b.name] = CASE ~b.pooler -> "absent"
                                  [] b.hibernated -> "stopped"
                                  [] OTHER -> "running"
    /\ j = 12 => have.schedule = Schedule(b) /\ (b.plan.backup # "off" => have.scheduled = b.name)
    /\ j = 13 => have.policy = b.name
    /\ j = 14 => (b.name # NoName => have.role) /\ (b.name = NoName => have.binding = NoName)
    /\ j = 15 => (b.name # NoName => have.binding = b.name) /\ (b.name = NoName => ~have.role)
    /\ j = 16 => (b.plan.backup = "pgbackrest" =>
                     have.account /\ (b.name # NoName => b.name \in have.token))

(* A reconcile that has not failed. *)
Working == rec.pc \in 1..16 \/ (rec.pc = 17 /\ rec.b.ready = "true")

Progress ==
    /\ Working => \A j \in 1..16 : j < rec.pc => Done(j, rec.b)
    /\ branch.ready = "true" /\ branch.observed = branch.gen => \A j \in 1..16 : Done(j, branch)

(* Every copy shows the backups. *)
Noticed == branch.recorded /\ known.recorded /\ (rec.pc # 0 => rec.b.recorded)

Cipher ==
    /\ have.cipher # NoCipher => have.cipher.source = branch.plan.sealed
    /\ rec.pc \in 6..16 /\ branch.plan.sealed => have.cipher # NoCipher
    /\ repo # 0 => have.cipher.own \in {0, repo}
    /\ repo # 0 /\ have.cipher.own = 0 => Noticed
    /\ branch.plan.sealed /\ have.cipher = NoCipher /\ (\E c \in ClusterNames : cluster[c].st # "absent")
          => Noticed
    /\ ~branch.there => have.cipher = NoCipher /\ repo = 0

(* A branch that is not of a pool keeps its cluster, and the cache follows it. *)
Kept ==
    /\ ~branch.there => \A c \in ClusterNames : cluster[c].st = "absent" /\ listed[c].st = "absent"
    /\ branch.there /\ ~branch.plan.pooled =>
          /\ branch.name = FirstName
          /\ known.there => known.name = FirstName
          /\ rec.pc # 0 => rec.b.name = FirstName
          /\ \A c \in ClusterNames \ {FirstName} : cluster[c].st = "absent" /\ listed[c].st = "absent"
          /\ listed[FirstName].st = "healthy" => cluster[FirstName].st = "healthy"
          /\ listed[FirstName].st = "new" => cluster[FirstName].st # "absent"

Snapshot ==
    /\ \A c \in ClusterNames : cluster[c].spec.bootstrap = "snapshot" => branch.plan.restore = "snapshot"
    /\ branch.plan.restore = "snapshot" =>
          /\ cluster[FirstName].st = "new" => have.snapshot
          /\ rec.pc \in 3..6 /\ cluster[FirstName].st = "absent" => have.snapshot

Bound == have.binding # NoName => have.role

ObjectsInv == TypesOK /\ Copies /\ Progress /\ Cipher /\ Kept /\ Snapshot /\ Bound

LEMMA StepAt ==
    /\ Last = 17 /\ Len(Steps) = 16
    /\ \A s : At(s) => rec.pc \in 1..16 /\ Steps[rec.pc] = s
  BY DEF Last, Steps, At

LEMMA PlanIs ==
    ASSUME TypesOK, Copies, branch.plan.restore = "snapshot" \/ branch.plan.sealed
    PROVE  branch.there /\ ~branch.plan.pooled
<1>1. branch.plan \in Plans
  BY DEF Copies, NoPlan
<1>2. branch.there
  BY DEF Copies, NoBranch, NoPlan
<1>3. branch.plan \in Plan
  BY DEF TypesOK, BranchOf
<1> QED
  BY <1>1, <1>2, <1>3, PlansAssumption DEF Plan

LEMMA DoneSame ==
    ASSUME NEW j, NEW b, NEW d, Same(b, d), Done(j, b) PROVE Done(j, d)
<1>1. ClusterSpec(b) = ClusterSpec(d) /\ Schedule(b) = Schedule(d)
  BY DEF Same, ClusterSpec, Schedule
<1> QED
  BY <1>1 DEF Same, Done

LEMMA DoneSameNext ==
    ASSUME NEW j, NEW b, NEW d, Same(b, d), Done(j, b)' PROVE Done(j, d)'
<1>1. ClusterSpec(b) = ClusterSpec(d) /\ Schedule(b) = Schedule(d)
  BY DEF Same, ClusterSpec, Schedule
<1> QED
  BY <1>1 DEF Same, Done, ClusterSpec, Schedule

LEMMA DoneUnchanged ==
    ASSUME NEW j, NEW b, Done(j, b), UNCHANGED <<have, cluster>> PROVE Done(j, b)'
  BY DEF Done, ClusterSpec, Schedule

LEMMA ConvergedIs ==
    ASSUME TypesOK, \A j \in 1..16 : Done(j, branch) PROVE Converged(branch)
<1>1. \A j \in {1, 3, 4, 6, 9, 10, 11, 12, 13, 14, 15, 16} : Done(j, branch)
  OBVIOUS
<1>2. /\ have.store = (branch.plan.backup = "barman") /\ have.passwords
      /\ branch.plan.restore = "clone" => have.clone
  BY <1>1 DEF Done
<1>3. /\ have.services = branch.name /\ have.policy = branch.name /\ have.binding = branch.name
      /\ have.role = (branch.name # NoName)
  BY <1>1 DEF Done, TypesOK, Objects
<1>4. /\ have.schedule = Schedule(branch)
      /\ branch.plan.backup # "off" => have.scheduled = branch.name
      /\ branch.plan.backup = "pgbackrest" => have.account
  BY <1>1 DEF Done
<1>5. ASSUME branch.name # NoName
      PROVE  /\ cluster[branch.name].st # "absent" /\ cluster[branch.name].owned
             /\ cluster[branch.name].spec = ClusterSpec(branch)
             /\ branch.pooler => have.poolersvc = branch.name
             /\ have.pooler[branch.name] = CASE ~branch.pooler -> "absent"
                                             [] branch.hibernated -> "stopped"
                                             [] OTHER -> "running"
             /\ branch.plan.backup = "pgbackrest" => branch.name \in have.token
  BY <1>1, <1>5 DEF Done
<1> QED
  BY <1>2, <1>3, <1>4, <1>5 DEF Converged

LEMMA ObjectsInvInit == ResInit => ObjectsInv
<1> SUFFICES ASSUME ResInit PROVE ObjectsInv
  OBVIOUS
<1>1. NoPlan \in Plan /\ NoName \in Named
  BY DEF NoPlan, Plan, Named
<1>2. NoBranch \in BranchOf /\ ~NoBranch.there /\ NoBranch.gen = 0 /\ NoBranch.observed = 0
      /\ NoBranch.ready = "none" /\ NoBranch.plan = NoPlan
  BY <1>1 DEF NoBranch, BranchOf
<1>3. NoCluster \in ClusterOf /\ NoCluster.st = "absent" /\ NoCluster.spec.bootstrap = "noop"
  BY DEF NoCluster, NoSpec, ClusterOf, ClusterSpecOf
<1>4. Nothing \in Objects /\ Nothing.cipher = NoCipher /\ Nothing.binding = NoName
  BY <1>1 DEF Nothing, Objects, NoCipher
<1>5. TypesOK
  BY <1>2, <1>3, <1>4 DEF ResInit, TypesOK, Idle
<1>6. Copies
  BY <1>2 DEF ResInit, Copies, Idle, Same
<1>7. Progress
  BY <1>2 DEF ResInit, Progress, Working, Idle
<1>8. Cipher /\ Kept /\ Snapshot /\ Bound
  BY <1>2, <1>3, <1>4 DEF ResInit, Cipher, Kept, Snapshot, Bound, Idle, NoPlan
<1> QED
  BY <1>5, <1>6, <1>7, <1>8 DEF ObjectsInv

-----------------------------------------------------------------------------
(* The steps of a reconcile. *)

(* The reconcile goes on, or has failed. *)
Moves ==
    /\ rec' \in [pc : 0..17, b : BranchOf] /\ Same(rec'.b, rec.b)
    /\ rec'.b.gen = rec.b.gen /\ rec'.b.observed = rec.b.observed
    /\ rec.b.recorded => rec'.b.recorded
    /\ \/ rec'.pc = rec.pc + 1
       \/ rec'.pc = 17 /\ rec'.b.ready = "false"

LEMMA ProceedMoves ==
    ASSUME TypesOK, rec.pc \in 1..16, Proceed PROVE Moves /\ rec'.pc = rec.pc + 1
<1>1. PICK b : b = IF rec.pc = Len(Steps) THEN [rec.b EXCEPT !.ready = "true"] ELSE rec.b
  BY Zenon
<1>2. rec.b \in BranchOf
  BY DEF TypesOK
<1>3. /\ b \in BranchOf /\ Same(b, rec.b) /\ b.gen = rec.b.gen /\ b.observed = rec.b.observed
      /\ b.recorded = rec.b.recorded
  <2>1. CASE b = rec.b
    BY <1>2, <2>1 DEF Same
  <2>2. CASE b = [rec.b EXCEPT !.ready = "true"]
    BY <1>2, <2>2 DEF Same, BranchOf
  <2> QED
    BY <1>1, <2>1, <2>2
<1>4. rec' = [pc |-> rec.pc + 1, b |-> b]
  BY <1>1 DEF Proceed
<1> QED
  BY <1>3, <1>4 DEF Moves

LEMMA AbortMoves ==
    ASSUME TypesOK, Abort PROVE Moves /\ rec'.pc = 17 /\ rec'.b.ready = "false"
<1>1. PICK b : b = [rec.b EXCEPT !.ready = "false"]
  BY Zenon
<1>2. rec.b \in BranchOf
  BY DEF TypesOK
<1>3. /\ b \in BranchOf /\ Same(b, rec.b) /\ b.gen = rec.b.gen /\ b.observed = rec.b.observed
      /\ b.recorded = rec.b.recorded /\ b.ready = "false"
  BY <1>1, <1>2 DEF Same, BranchOf
<1>4. rec' = [pc |-> 17, b |-> b]
  BY <1>1, StepAt DEF Abort
<1> QED
  BY <1>3, <1>4 DEF Moves

LEMMA WrittenMoves ==
    ASSUME TypesOK, rec.pc \in 1..16, Written \/ Proceed \/ Abort PROVE Moves
  BY ProceedMoves, AbortMoves DEF Written

LEMMA StepInv ==
    ASSUME ObjectsInv, NEW k \in 1..16, rec.pc = k, NEW r \in BranchOf, rec.b = r,
           UNCHANGED <<branch, known, listed, repo>>,
           cluster' \in [ClusterNames -> ClusterOf], have' \in Objects, phrases' \in Nat, Moves,
           \A j \in 1..16, b \in BranchOf : Same(b, r) /\ Done(j, b) => Done(j, b)',
           Working' => Done(k, r)',
           Cipher', Kept', Snapshot', Bound'
    PROVE  ObjectsInv'
<1>1. branch \in BranchOf /\ Same(r, r) /\ Same(r, rec'.b)
  BY DEF ObjectsInv, TypesOK, Same, Moves
<1>2. TypesOK'
  BY DEF ObjectsInv, TypesOK, Moves
<1>3. Copies'
  <2>1. Same(r, branch) => Same(rec'.b, branch)
    BY DEF Moves, Same
  <2>2. rec'.b.plan = r.plan /\ branch.there
    BY DEF Moves, Same, ObjectsInv, Copies
  <2> QED
    BY <2>1, <2>2 DEF ObjectsInv, Copies, Moves, Same
<1>4. ASSUME Working', NEW j \in 1..16, j < rec'.pc PROVE Done(j, rec.b)'
  <2>1. rec'.pc = k + 1
    BY <1>4 DEF Moves, Working
  <2>2. Done(j, r)'
    <3>1. CASE j = k
      BY <1>4, <3>1
    <3>2. CASE j < k
      BY <1>1, <3>2 DEF ObjectsInv, Progress, Working
    <3> QED
      BY <1>4, <2>1, <3>1, <3>2
  <2>3. PICK d : d = rec'.b
    OBVIOUS
  <2>4. Done(j, d)'
    BY <1>1, <2>2, <2>3, DoneSameNext
  <2> QED
    BY <2>3, <2>4 DEF Done, ClusterSpec, Schedule
<1>5. ASSUME branch.ready = "true", branch.observed = branch.gen, NEW j \in 1..16 PROVE Done(j, branch)'
  <2>1. r.gen = branch.gen
    BY <1>1, <1>5 DEF ObjectsInv, Copies, BranchOf, TypesOK
  <2>2. PICK d \in BranchOf : d = branch
    BY <1>1
  <2>3. Same(d, r) /\ Done(j, d)
    BY <1>5, <2>1, <2>2 DEF ObjectsInv, Progress, Same, Copies
  <2>4. Done(j, d)'
    BY <2>3
  <2> QED
    BY <2>2, <2>4 DEF Done, ClusterSpec, Schedule
<1>6. Progress'
  BY <1>4, <1>5 DEF Progress
<1> QED
  BY <1>2, <1>3, <1>6 DEF ObjectsInv

(* Nothing but the reconcile itself changes. *)
LEMMA QuietInv ==
    ASSUME ObjectsInv, NEW k \in 1..16, rec.pc = k, NEW r \in BranchOf, rec.b = r,
           UNCHANGED <<branch, known, listed, repo, cluster, have, phrases>>, Moves,
           rec'.pc = k + 1 => /\ \/ k \notin {2, 5}
                                 \/ k = 2 /\ (branch.plan.restore = "snapshot" =>
                                                 cluster[FirstName].st # "absent" \/ have.snapshot)
                                 \/ k = 5 /\ (branch.plan.sealed => have.cipher # NoCipher)
                              /\ k # 16 \/ rec'.b.ready # "false" => Done(k, r)
    PROVE  ObjectsInv'
<1>1. TypesOK' /\ k + 1 \in 1..17
  BY DEF ObjectsInv, TypesOK, Moves
<1>2. rec'.pc = k + 1 \/ (rec'.pc = 17 /\ rec'.b.ready = "false")
  BY DEF Moves
<1>3. Noticed => Noticed'
  BY DEF Noticed, Moves
<1>4. Cipher'
  <2>1. rec'.pc \in 6..16 /\ branch.plan.sealed => have.cipher # NoCipher
    BY <1>2 DEF ObjectsInv, Cipher
  <2> QED
    BY <1>3, <2>1 DEF ObjectsInv, Cipher
<1>5. Kept'
  <2>1. rec'.b.name = r.name
    BY DEF Moves, Same
  <2> QED
    BY <2>1 DEF ObjectsInv, Kept
<1>6. Snapshot'
  <2>1. branch.plan.restore = "snapshot" /\ rec'.pc \in 3..6 /\ cluster[FirstName].st = "absent" => have.snapshot
    BY <1>2 DEF ObjectsInv, Snapshot
  <2> QED
    BY <2>1 DEF ObjectsInv, Snapshot
<1>7. Bound'
  BY DEF ObjectsInv, Bound
<1>8. \A j \in 1..16, b \in BranchOf : Done(j, b) => Done(j, b)'
  BY DoneUnchanged
<1>9. Working' => Done(k, r)'
  <2>1. Working' => rec'.pc = k + 1 /\ (k # 16 \/ rec'.b.ready # "false")
    BY <1>2 DEF Working
  <2> QED
    BY <1>8, <2>1
<1> QED
  BY <1>1, <1>4, <1>5, <1>6, <1>7, <1>8, <1>9, StepInv DEF ObjectsInv, TypesOK

LEMMA AbortInv ==
    ASSUME ObjectsInv, rec.pc \in 1..16, Abort,
           UNCHANGED <<branch, known, listed, repo, cluster, have, phrases>>
    PROVE  ObjectsInv'
<1>1. TypesOK
  BY DEF ObjectsInv
<1>2. Moves /\ rec'.pc = 17 /\ rec'.b.ready = "false"
  BY <1>1, AbortMoves
<1>3. PICK k \in 1..16, r \in BranchOf : rec.pc = k /\ rec.b = r
  BY <1>1 DEF TypesOK
<1>4. rec'.pc = k + 1 => k = 16
  BY <1>2
<1> QED
  BY <1>2, <1>3, <1>4, QuietInv

LEMMA SkipInv ==
    ASSUME ObjectsInv, NEW k \in 1..16, rec.pc = k, NEW r \in BranchOf, rec.b = r, Skip, Done(k, r),
           k = 2 => (branch.plan.restore = "snapshot" => cluster[FirstName].st # "absent" \/ have.snapshot),
           k = 5 => (branch.plan.sealed => have.cipher # NoCipher)
    PROVE  ObjectsInv'
<1>1. TypesOK
  BY DEF ObjectsInv
<1>2. Moves /\ UNCHANGED <<branch, known, listed, repo, cluster, have, phrases>>
  BY <1>1, ProceedMoves DEF Skip, OtherVars
<1> QED
  BY <1>2, QuietInv

(* A step that writes an object other than the snapshot, the cipher and clusters. *)
LEMMA PutInv ==
    ASSUME ObjectsInv, NEW k \in (1..16) \ {2, 5}, rec.pc = k, NEW r \in BranchOf, rec.b = r,
           Written \/ Abort, UNCHANGED <<branch, known, listed, repo, cluster, phrases>>,
           have' \in Objects, have'.cipher = have.cipher, have'.snapshot = have.snapshot,
           \A j \in 1..16, b \in BranchOf : Same(b, r) /\ Done(j, b) => Done(j, b)',
           Working' => Done(k, r)',
           Bound'
    PROVE  ObjectsInv'
<1>1. TypesOK
  BY DEF ObjectsInv
<1>2. Moves
  BY <1>1, WrittenMoves
<1>3. rec'.pc = k + 1 \/ rec'.pc = 17
  BY <1>2 DEF Moves
<1>4. Noticed => Noticed'
  BY <1>2 DEF Noticed, Moves
<1>5. Cipher'
  <2>1. rec'.pc \in 6..16 /\ branch.plan.sealed => have.cipher # NoCipher
    BY <1>3 DEF ObjectsInv, Cipher
  <2> QED
    BY <1>4, <2>1 DEF ObjectsInv, Cipher
<1>6. Kept'
  <2>1. rec'.b.name = r.name
    BY <1>2 DEF Moves, Same
  <2> QED
    BY <2>1 DEF ObjectsInv, Kept
<1>7. Snapshot'
  <2>1. branch.plan.restore = "snapshot" /\ rec'.pc \in 3..6 /\ cluster[FirstName].st = "absent" => have.snapshot
    BY <1>3 DEF ObjectsInv, Snapshot
  <2> QED
    BY <2>1 DEF ObjectsInv, Snapshot
<1> QED
  BY ZenonT(60), <1>1, <1>2, <1>5, <1>6, <1>7, StepInv DEF ObjectsInv, TypesOK

HaveFields == {"store", "snapshot", "clone", "passwords", "cipher", "services", "poolersvc", "pooler",
               "schedule", "scheduled", "policy", "role", "binding", "account", "token"}

LEMMA HaveIs == ASSUME NEW h \in Objects PROVE DOMAIN h = HaveFields
  BY DEF Objects, HaveFields

LEMMA ReconcileObjectStoreInv == ASSUME ObjectsInv, ReconcileObjectStore PROVE ObjectsInv'
<1>1. rec.pc = 1 /\ TypesOK
  BY StepAt DEF ReconcileObjectStore, Steps, ObjectsInv
<1>2. PICK r \in BranchOf : rec.b = r
  BY <1>1 DEF TypesOK
<1>3. /\ have' = [have EXCEPT !.store = (r.plan.backup = "barman")] /\ Written
      /\ UNCHANGED <<branch, known, listed, repo, cluster, phrases>>
  BY Zenon, <1>2 DEF ReconcileObjectStore, Put, OtherVars
<1>4. /\ have' \in Objects /\ have'.store = (r.plan.backup = "barman")
      /\ \A f \in DOMAIN have \ {"store"} : have'[f] = have[f]
  BY Zenon, <1>1, <1>3 DEF TypesOK, Objects
<1>5. DOMAIN have = HaveFields
  BY <1>1, HaveIs DEF TypesOK
<1>6. ASSUME NEW j \in 1..16, NEW b \in BranchOf, Same(b, r), Done(j, b) PROVE Done(j, b)'
  BY <1>3, <1>4, <1>5, <1>6 DEF HaveFields, Done, Same, ClusterSpec, Schedule
<1>7. Done(1, r)'
  BY <1>4 DEF Done
<1>8. Bound'
  BY <1>4, <1>5 DEF HaveFields, ObjectsInv, Bound
<1>20. 1 \in (1..16) \ {2, 5} /\ have' \in Objects /\ have'.cipher = have.cipher /\ have'.snapshot = have.snapshot
  BY <1>4, <1>5 DEF HaveFields
<1> QED
  BY <1>1, <1>2, <1>3, <1>6, <1>7, <1>8, <1>20, PutInv

LEMMA ReconcileSecretInv == ASSUME ObjectsInv, ReconcileSecret PROVE ObjectsInv'
<1>1. rec.pc = 4 /\ TypesOK
  BY StepAt DEF ReconcileSecret, Steps, ObjectsInv
<1>2. PICK r \in BranchOf : rec.b = r
  BY <1>1 DEF TypesOK
<1>3. /\ have' = [have EXCEPT !.passwords = TRUE] /\ Written
      /\ UNCHANGED <<branch, known, listed, repo, cluster, phrases>>
  BY Zenon, <1>2 DEF ReconcileSecret, Put, OtherVars
<1>4. /\ have' \in Objects /\ have'.passwords = TRUE
      /\ \A f \in DOMAIN have \ {"passwords"} : have'[f] = have[f]
  BY Zenon, <1>1, <1>2, <1>3 DEF TypesOK, Objects, BranchOf
<1>5. DOMAIN have = HaveFields
  BY <1>1, HaveIs DEF TypesOK
<1>6. ASSUME NEW j \in 1..16, NEW b \in BranchOf, Same(b, r), Done(j, b) PROVE Done(j, b)'
  BY <1>3, <1>4, <1>5, <1>6 DEF HaveFields, Done, Same, ClusterSpec, Schedule
<1>7. Done(4, r)'
  BY <1>4 DEF Done
<1>8. Bound'
  BY <1>4, <1>5 DEF HaveFields, ObjectsInv, Bound
<1>20. 4 \in (1..16) \ {2, 5} /\ have' \in Objects /\ have'.cipher = have.cipher /\ have'.snapshot = have.snapshot
  BY <1>4, <1>5 DEF HaveFields
<1> QED
  BY Zenon, <1>1, <1>2, <1>3, <1>6, <1>7, <1>8, <1>20, PutInv

LEMMA ReconcileAdditionalServiceInv == ASSUME ObjectsInv, ReconcileAdditionalService PROVE ObjectsInv'
<1>1. rec.pc = 9 /\ TypesOK
  BY StepAt DEF ReconcileAdditionalService, Steps, ObjectsInv
<1>2. PICK r \in BranchOf : rec.b = r
  BY <1>1 DEF TypesOK
<1>3. /\ have' = [have EXCEPT !.services = r.name] /\ Written
      /\ UNCHANGED <<branch, known, listed, repo, cluster, phrases>>
  BY Zenon, <1>2 DEF ReconcileAdditionalService, Put, OtherVars
<1>4. /\ have' \in Objects /\ have'.services = r.name
      /\ \A f \in DOMAIN have \ {"services"} : have'[f] = have[f]
  BY <1>1, <1>2, <1>3 DEF TypesOK, Objects, BranchOf
<1>5. DOMAIN have = HaveFields
  BY <1>1, HaveIs DEF TypesOK
<1>6. ASSUME NEW j \in 1..16, NEW b \in BranchOf, Same(b, r), Done(j, b) PROVE Done(j, b)'
  BY <1>3, <1>4, <1>5, <1>6 DEF HaveFields, Done, Same, ClusterSpec, Schedule
<1>7. Done(9, r)'
  BY <1>4 DEF Done
<1>8. Bound'
  BY <1>4, <1>5 DEF HaveFields, ObjectsInv, Bound
<1>20. 9 \in (1..16) \ {2, 5} /\ have' \in Objects /\ have'.cipher = have.cipher /\ have'.snapshot = have.snapshot
  BY <1>4, <1>5 DEF HaveFields
<1> QED
  BY <1>1, <1>2, <1>3, <1>6, <1>7, <1>8, <1>20, PutInv

LEMMA ReconcileNetworkPolicyInv == ASSUME ObjectsInv, ReconcileNetworkPolicy PROVE ObjectsInv'
<1>1. rec.pc = 13 /\ TypesOK
  BY StepAt DEF ReconcileNetworkPolicy, Steps, ObjectsInv
<1>2. PICK r \in BranchOf : rec.b = r
  BY <1>1 DEF TypesOK
<1>3. /\ have' = [have EXCEPT !.policy = r.name] /\ Written
      /\ UNCHANGED <<branch, known, listed, repo, cluster, phrases>>
  BY Zenon, <1>2 DEF ReconcileNetworkPolicy, Put, OtherVars
<1>4. /\ have' \in Objects /\ have'.policy = r.name
      /\ \A f \in DOMAIN have \ {"policy"} : have'[f] = have[f]
  BY <1>1, <1>2, <1>3 DEF TypesOK, Objects, BranchOf
<1>5. DOMAIN have = HaveFields
  BY <1>1, HaveIs DEF TypesOK
<1>6. ASSUME NEW j \in 1..16, NEW b \in BranchOf, Same(b, r), Done(j, b) PROVE Done(j, b)'
  BY <1>3, <1>4, <1>5, <1>6 DEF HaveFields, Done, Same, ClusterSpec, Schedule
<1>7. Done(13, r)'
  BY <1>4 DEF Done
<1>8. Bound'
  BY <1>4, <1>5 DEF HaveFields, ObjectsInv, Bound
<1>20. 13 \in (1..16) \ {2, 5} /\ have' \in Objects /\ have'.cipher = have.cipher /\ have'.snapshot = have.snapshot
  BY <1>4, <1>5 DEF HaveFields
<1> QED
  BY <1>1, <1>2, <1>3, <1>6, <1>7, <1>8, <1>20, PutInv

LEMMA ReconcileXVolCloneInv == ASSUME ObjectsInv, ReconcileXVolClone PROVE ObjectsInv'
<1>1. rec.pc = 3 /\ TypesOK
  BY StepAt DEF ReconcileXVolClone, Steps, ObjectsInv
<1>2. PICK r \in BranchOf : rec.b = r
  BY <1>1 DEF TypesOK
<1>3. CASE Put("clone", TRUE)
  <2>3. /\ have' = [have EXCEPT !.clone = TRUE] /\ Written
        /\ UNCHANGED <<branch, known, listed, repo, cluster, phrases>>
    BY Zenon, <1>3 DEF Put, OtherVars
  <2>4. /\ have' \in Objects /\ have'.clone = TRUE
        /\ \A f \in DOMAIN have \ {"clone"} : have'[f] = have[f]
    BY Zenon, <1>1, <2>3 DEF TypesOK, Objects
  <2>5. DOMAIN have = HaveFields
    BY <1>1, HaveIs DEF TypesOK
  <2>6. ASSUME NEW j \in 1..16, NEW b \in BranchOf, Same(b, r), Done(j, b) PROVE Done(j, b)'
    BY <2>3, <2>4, <2>5, <2>6 DEF HaveFields, Done, Same, ClusterSpec, Schedule
  <2>7. Done(3, r)' /\ Bound'
    BY <2>4, <2>5 DEF Done, HaveFields, ObjectsInv, Bound
  <2>20. 3 \in (1..16) \ {2, 5} /\ have' \in Objects /\ have'.cipher = have.cipher /\ have'.snapshot = have.snapshot
    BY <2>4, <2>5 DEF HaveFields
  <2> QED
    BY Zenon, <1>1, <1>2, <2>3, <2>6, <2>7, <2>20, PutInv
<1>4. CASE Refuse
  BY <1>1, <1>4, AbortInv DEF Refuse, OtherVars
<1>5. CASE Skip /\ ~(r.plan.restore = "clone" /\ ~have.clone)
  BY <1>1, <1>2, <1>5, SkipInv DEF Done
<1> QED
  BY Zenon, <1>2, <1>3, <1>4, <1>5 DEF ReconcileXVolClone

LEMMA ReconcileAdditionalServicePoolerInv ==
    ASSUME ObjectsInv, ReconcileAdditionalServicePooler PROVE ObjectsInv'
<1>1. rec.pc = 10 /\ TypesOK
  BY StepAt DEF ReconcileAdditionalServicePooler, Steps, ObjectsInv
<1>2. PICK r \in BranchOf : rec.b = r
  BY <1>1 DEF TypesOK
<1>3. CASE Put("poolersvc", r.name)
  <2>3. /\ have' = [have EXCEPT !.poolersvc = r.name] /\ Written
        /\ UNCHANGED <<branch, known, listed, repo, cluster, phrases>>
    BY Zenon, <1>3 DEF Put, OtherVars
  <2>4. /\ have' \in Objects /\ have'.poolersvc = r.name
        /\ \A f \in DOMAIN have \ {"poolersvc"} : have'[f] = have[f]
    BY <1>1, <1>2, <2>3 DEF TypesOK, Objects, BranchOf
  <2>5. DOMAIN have = HaveFields
    BY <1>1, HaveIs DEF TypesOK
  <2>6. ASSUME NEW j \in 1..16, NEW b \in BranchOf, Same(b, r), Done(j, b) PROVE Done(j, b)'
    BY <2>3, <2>4, <2>5, <2>6 DEF HaveFields, Done, Same, ClusterSpec, Schedule
  <2>7. Done(10, r)' /\ Bound'
    BY <2>4, <2>5 DEF Done, HaveFields, ObjectsInv, Bound
  <2>20. 10 \in (1..16) \ {2, 5} /\ have' \in Objects /\ have'.cipher = have.cipher /\ have'.snapshot = have.snapshot
    BY <2>4, <2>5 DEF HaveFields
  <2> QED
    BY <1>1, <1>2, <2>3, <2>6, <2>7, <2>20, PutInv
<1>4. CASE Skip /\ ~(r.pooler /\ r.name # NoName)
  BY <1>1, <1>2, <1>4, SkipInv DEF Done
<1> QED
  BY <1>2, <1>3, <1>4 DEF ReconcileAdditionalServicePooler

LEMMA ReconcileScheduledBackupInv == ASSUME ObjectsInv, ReconcileScheduledBackup PROVE ObjectsInv'
<1>1. rec.pc = 12 /\ TypesOK
  BY StepAt DEF ReconcileScheduledBackup, Steps, ObjectsInv
<1>2. PICK r \in BranchOf : rec.b = r
  BY <1>1 DEF TypesOK
<1>3. PICK when, where : when = Schedule(r) /\ where = IF r.plan.backup = "off" THEN NoName ELSE r.name
  OBVIOUS
<1>4. when \in {"absent", "suspended", "active"} /\ where \in Named
  BY <1>3 DEF Schedule, BranchOf, Named
<1>5. /\ have' = [have EXCEPT !.schedule = when, !.scheduled = where] /\ Written
      /\ UNCHANGED <<branch, known, listed, repo, cluster, phrases>>
  BY <1>2, <1>3 DEF ReconcileScheduledBackup, OtherVars
<1>6. /\ have' \in Objects /\ have'.schedule = when /\ have'.scheduled = where
      /\ \A f \in DOMAIN have \ {"schedule", "scheduled"} : have'[f] = have[f]
  BY Zenon, <1>1, <1>4, <1>5 DEF TypesOK, Objects
<1>7. DOMAIN have = HaveFields
  BY <1>1, HaveIs DEF TypesOK
<1>8. ASSUME NEW j \in 1..16, NEW b \in BranchOf, Same(b, r), Done(j, b) PROVE Done(j, b)'
  <2>1. CASE j = 12
    <3>1. Schedule(b) = when /\ (b.plan.backup # "off" => where = b.name)
      BY <1>3, <1>8 DEF Same, Schedule
    <3> QED
      BY <1>6, <2>1, <3>1 DEF Done, Schedule
  <2>2. CASE j # 12
    BY <1>5, <1>6, <1>7, <1>8, <2>2 DEF HaveFields, Done, Same, ClusterSpec
  <2> QED
    BY <2>1, <2>2
<1>9. Done(12, r)'
  BY <1>3, <1>6 DEF Done, Schedule
<1>10. Bound'
  BY <1>6, <1>7 DEF HaveFields, ObjectsInv, Bound
<1>20. 12 \in (1..16) \ {2, 5} /\ have' \in Objects /\ have'.cipher = have.cipher /\ have'.snapshot = have.snapshot
  BY <1>6, <1>7 DEF HaveFields
<1> QED
  BY <1>1, <1>2, <1>5, <1>8, <1>9, <1>10, <1>20, PutInv

LEMMA DoneBefore ==
    ASSUME ObjectsInv, NEW k \in 1..16, rec.pc = k, NEW r, rec.b = r, NEW j \in 1..16, j < k PROVE Done(j, r)
  BY DEF ObjectsInv, Progress, Working

LEMMA ReconcileScaleToZeroRBACInv == ASSUME ObjectsInv, ReconcileScaleToZeroRBAC PROVE ObjectsInv'
<1>a. PICK r \in BranchOf : rec.b = r
  BY DEF ObjectsInv, TypesOK
<1>b. CASE At("rbac1") /\ r.name # NoName /\ Put("role", TRUE)
  <2>1. rec.pc = 14 /\ TypesOK
    BY <1>b, StepAt DEF Steps, ObjectsInv
  <2>3. /\ have' = [have EXCEPT !.role = TRUE] /\ Written
        /\ UNCHANGED <<branch, known, listed, repo, cluster, phrases>>
    BY Zenon, <1>b DEF Put, OtherVars
  <2>4. /\ have' \in Objects /\ have'.role = TRUE
        /\ \A f \in DOMAIN have \ {"role"} : have'[f] = have[f]
    BY Zenon, <2>1, <2>3 DEF TypesOK, Objects, BranchOf, Named
  <2>5. DOMAIN have = HaveFields
    BY <2>1, HaveIs DEF TypesOK
  <2>6. ASSUME NEW j \in 1..16, NEW b \in BranchOf, Same(b, r), Done(j, b) PROVE Done(j, b)'
    BY <1>b, <2>3, <2>4, <2>5, <2>6 DEF HaveFields, Done, Same, ClusterSpec, Schedule
  <2>7. Done(14, r)'
    BY <2>4, <2>5, <1>b DEF Done, HaveFields
  <2>8. Bound'
    BY <2>4, <2>5, <1>a DEF HaveFields, ObjectsInv, Bound
  <2>9. 14 \in (1..16) \ {2, 5} /\ have' \in Objects /\ have'.cipher = have.cipher /\ have'.snapshot = have.snapshot
    BY <2>4, <2>5 DEF HaveFields
  <2> QED
    BY Zenon, <2>1, <1>a, <2>3, <2>6, <2>7, <2>8, <2>9, PutInv
<1>c. CASE At("rbac1") /\ r.name = NoName /\ Put("binding", NoName)
  <2>1. rec.pc = 14 /\ TypesOK
    BY <1>c, StepAt DEF Steps, ObjectsInv
  <2>3. /\ have' = [have EXCEPT !.binding = NoName] /\ Written
        /\ UNCHANGED <<branch, known, listed, repo, cluster, phrases>>
    BY Zenon, <1>c DEF Put, OtherVars
  <2>4. /\ have' \in Objects /\ have'.binding = NoName
        /\ \A f \in DOMAIN have \ {"binding"} : have'[f] = have[f]
    BY <2>1, <2>3 DEF TypesOK, Objects, BranchOf, Named
  <2>5. DOMAIN have = HaveFields
    BY <2>1, HaveIs DEF TypesOK
  <2>6. ASSUME NEW j \in 1..16, NEW b \in BranchOf, Same(b, r), Done(j, b) PROVE Done(j, b)'
    BY <1>c, <2>3, <2>4, <2>5, <2>6 DEF HaveFields, Done, Same, ClusterSpec, Schedule
  <2>7. Done(14, r)'
    BY <2>4, <2>5, <1>c DEF Done, HaveFields
  <2>8. Bound'
    BY <2>4, <2>5, <1>a DEF HaveFields, ObjectsInv, Bound
  <2>9. 14 \in (1..16) \ {2, 5} /\ have' \in Objects /\ have'.cipher = have.cipher /\ have'.snapshot = have.snapshot
    BY <2>4, <2>5 DEF HaveFields
  <2> QED
    BY <2>1, <1>a, <2>3, <2>6, <2>7, <2>8, <2>9, PutInv
<1>d. CASE At("rbac2") /\ r.name # NoName /\ Put("binding", r.name)
  <2>1. rec.pc = 15 /\ TypesOK
    BY <1>d, StepAt DEF Steps, ObjectsInv
  <2>2. have.role
    BY <1>a, <1>d, <2>1, DoneBefore DEF Done
  <2>3. /\ have' = [have EXCEPT !.binding = r.name] /\ Written
        /\ UNCHANGED <<branch, known, listed, repo, cluster, phrases>>
    BY Zenon, <1>d DEF Put, OtherVars
  <2>4. /\ have' \in Objects /\ have'.binding = r.name
        /\ \A f \in DOMAIN have \ {"binding"} : have'[f] = have[f]
    BY <1>a, <2>1, <2>3 DEF TypesOK, Objects, BranchOf, Named
  <2>5. DOMAIN have = HaveFields
    BY <2>1, HaveIs DEF TypesOK
  <2>6. ASSUME NEW j \in 1..16, NEW b \in BranchOf, Same(b, r), Done(j, b) PROVE Done(j, b)'
    BY <1>d, <2>3, <2>4, <2>5, <2>6 DEF HaveFields, Done, Same, ClusterSpec, Schedule
  <2>7. Done(15, r)'
    BY <2>4, <2>5, <1>d DEF Done, HaveFields
  <2>8. Bound'
    BY <2>4, <2>5, <2>2 DEF HaveFields, ObjectsInv, Bound
  <2>9. 15 \in (1..16) \ {2, 5} /\ have' \in Objects /\ have'.cipher = have.cipher /\ have'.snapshot = have.snapshot
    BY <2>4, <2>5 DEF HaveFields
  <2> QED
    BY <2>1, <1>a, <2>3, <2>6, <2>7, <2>8, <2>9, PutInv
<1>e. CASE At("rbac2") /\ r.name = NoName /\ Put("role", FALSE)
  <2>1. rec.pc = 15 /\ TypesOK
    BY <1>e, StepAt DEF Steps, ObjectsInv
  <2>2. have.binding = NoName
    BY <1>a, <1>e, <2>1, DoneBefore DEF Done
  <2>3. /\ have' = [have EXCEPT !.role = FALSE] /\ Written
        /\ UNCHANGED <<branch, known, listed, repo, cluster, phrases>>
    BY Zenon, <1>e DEF Put, OtherVars
  <2>4. /\ have' \in Objects /\ have'.role = FALSE
        /\ \A f \in DOMAIN have \ {"role"} : have'[f] = have[f]
    BY Zenon, <2>1, <2>3 DEF TypesOK, Objects, BranchOf, Named
  <2>5. DOMAIN have = HaveFields
    BY <2>1, HaveIs DEF TypesOK
  <2>6. ASSUME NEW j \in 1..16, NEW b \in BranchOf, Same(b, r), Done(j, b) PROVE Done(j, b)'
    BY <1>e, <2>3, <2>4, <2>5, <2>6 DEF HaveFields, Done, Same, ClusterSpec, Schedule
  <2>7. Done(15, r)'
    BY <2>4, <2>5, <1>e DEF Done, HaveFields
  <2>8. Bound'
    BY <2>4, <2>5, <2>2 DEF HaveFields, ObjectsInv, Bound
  <2>9. 15 \in (1..16) \ {2, 5} /\ have' \in Objects /\ have'.cipher = have.cipher /\ have'.snapshot = have.snapshot
    BY <2>4, <2>5 DEF HaveFields
  <2> QED
    BY Zenon, <2>1, <1>a, <2>3, <2>6, <2>7, <2>8, <2>9, PutInv
<1> QED
  BY Zenon, <1>a, <1>b, <1>c, <1>d, <1>e DEF ReconcileScaleToZeroRBAC

LEMMA ReconcilePoolerInv == ASSUME ObjectsInv, ReconcilePooler PROVE ObjectsInv'
<1>1. rec.pc = 11 /\ TypesOK
  BY StepAt DEF ReconcilePooler, Steps, ObjectsInv
<1>2. PICK r \in BranchOf : rec.b = r
  BY <1>1 DEF TypesOK
<1>3. CASE r.name = NoName /\ Skip
  BY <1>1, <1>2, <1>3, SkipInv DEF Done
<1>4. CASE Refuse
  BY <1>1, <1>4, AbortInv DEF Refuse, OtherVars
<1>5. ASSUME r.name # NoName, NEW v, v = (CASE ~r.pooler \/ cluster[r.name].st = "absent" -> "absent"
                                            [] r.hibernated -> "stopped"
                                            [] OTHER -> "running"),
             NEW ps, ps = [have.pooler EXCEPT ![r.name] = v], Put("pooler", ps)
      PROVE  ObjectsInv'
  <2>1. r.name \in ClusterNames /\ cluster[r.name].st # "absent"
    BY <1>1, <1>2, <1>5, DoneBefore DEF Done, BranchOf, Named
  <2>2. v = (CASE ~r.pooler -> "absent" [] r.hibernated -> "stopped" [] OTHER -> "running")
    BY <1>5, <2>1
  <2>a. ps \in [ClusterNames -> {"absent", "stopped", "running"}] /\ ps[r.name] = v
    <3>1. have.pooler \in [ClusterNames -> {"absent", "stopped", "running"}]
      BY <1>1 DEF TypesOK, Objects
    <3>2. v \in {"absent", "stopped", "running"}
      BY <2>2
    <3> QED
      BY <1>5, <2>1, <3>1, <3>2
  <2>3. /\ have' = [have EXCEPT !.pooler = ps] /\ Written
        /\ UNCHANGED <<branch, known, listed, repo, cluster, phrases>>
    BY Zenon, <1>5 DEF Put, OtherVars
  <2>4. /\ have' \in Objects /\ have'.pooler = ps
        /\ \A f \in DOMAIN have \ {"pooler"} : have'[f] = have[f]
    BY <1>1, <2>a, <2>3 DEF TypesOK, Objects
  <2>5. DOMAIN have = HaveFields
    BY <1>1, HaveIs DEF TypesOK
  <2>6. ASSUME NEW j \in 1..16, NEW b \in BranchOf, Same(b, r), Done(j, b) PROVE Done(j, b)'
    <3>1. CASE j = 11
      BY <2>2, <2>a, <2>4, <2>6, <3>1 DEF Done, Same
    <3>2. CASE j # 11
      BY <2>3, <2>4, <2>5, <2>6, <3>2 DEF HaveFields, Done, ClusterSpec, Schedule
    <3> QED
      BY <3>1, <3>2
  <2>7. Done(11, r)'
    BY <2>2, <2>a, <2>4 DEF Done
  <2>8. Bound'
    BY <2>4, <2>5 DEF HaveFields, ObjectsInv, Bound
  <2>9. 11 \in (1..16) \ {2, 5} /\ have' \in Objects /\ have'.cipher = have.cipher /\ have'.snapshot = have.snapshot
    BY <2>4, <2>5 DEF HaveFields
  <2> QED
    BY <1>1, <1>2, <2>3, <2>6, <2>7, <2>8, <2>9, PutInv
<1> QED
  BY <1>2, <1>3, <1>4, <1>5 DEF ReconcilePooler

LEMMA ReconcilePgBackRestIdentityInv == ASSUME ObjectsInv, ReconcilePgBackRestIdentity PROVE ObjectsInv'
<1>1. rec.pc = 16 /\ TypesOK
  BY StepAt DEF ReconcilePgBackRestIdentity, Steps, ObjectsInv
<1>2. PICK r \in BranchOf : rec.b = r
  BY <1>1 DEF TypesOK
<1>3. CASE r.plan.backup # "pgbackrest" /\ Skip
  BY <1>1, <1>2, <1>3, SkipInv DEF Done
<1>4. ASSUME NEW ts, ts \in SUBSET ClusterNames, have.token \subseteq ts,
             have' = [have EXCEPT !.account = TRUE, !.token = ts],
             (Written /\ (r.name # NoName => r.name \in ts)) \/ Abort,
             UNCHANGED <<branch, known, listed, repo, cluster, phrases>>
      PROVE  ObjectsInv'
  <2>4. /\ have' \in Objects /\ have'.account = TRUE /\ have'.token = ts
        /\ \A f \in DOMAIN have \ {"account", "token"} : have'[f] = have[f]
    BY Zenon, <1>1, <1>4 DEF TypesOK, Objects
  <2>5. DOMAIN have = HaveFields
    BY <1>1, HaveIs DEF TypesOK
  <2>6. ASSUME NEW j \in 1..16, NEW b \in BranchOf, Same(b, r), Done(j, b) PROVE Done(j, b)'
    BY <1>4, <2>4, <2>5, <2>6 DEF HaveFields, Done, ClusterSpec, Schedule
  <2>7. Working' => Done(16, r)'
    <3>1. CASE r.name # NoName => r.name \in ts
      BY <2>4, <3>1 DEF Done
    <3>2. CASE Abort
      BY <1>1, <3>2, AbortMoves DEF Working
    <3> QED
      BY <1>4, <3>1, <3>2
  <2>8. Bound'
    BY <2>4, <2>5 DEF HaveFields, ObjectsInv, Bound
  <2>9. 16 \in (1..16) \ {2, 5} /\ have' \in Objects /\ have'.cipher = have.cipher /\ have'.snapshot = have.snapshot
    BY <2>4, <2>5 DEF HaveFields
  <2> QED
    BY <1>1, <1>2, <1>4, <2>6, <2>7, <2>8, <2>9, PutInv
<1>5. have.token \subseteq ClusterNames /\ have \in Objects
  BY <1>1 DEF TypesOK, Objects
<1>6. ASSUME have' = [have EXCEPT !.account = TRUE] PROVE have' = [have EXCEPT !.account = TRUE, !.token = have.token]
  BY Zenon, <1>5, <1>6 DEF Objects
<1>7. CASE r.name = NoName /\ Put("account", TRUE)
  <2>1. have' = [have EXCEPT !.account = TRUE] /\ Written /\ UNCHANGED <<branch, known, listed, repo, cluster, phrases>>
    BY Zenon, <1>7 DEF Put, OtherVars
  <2> QED
    BY Zenon, <1>4, <1>5, <1>6, <1>7, <2>1
<1>8. CASE /\ have' = [have EXCEPT !.account = TRUE] /\ Abort
           /\ UNCHANGED <<cluster, phrases, stepFaults, OtherVars>>
  BY Zenon, <1>4, <1>5, <1>6, <1>8 DEF OtherVars
<1>9. CASE /\ r.name # NoName
           /\ have' = [have EXCEPT !.account = TRUE,
                                   !.token = IF cluster[r.name].st = "absent" THEN @ ELSE @ \cup {r.name}]
           /\ Written /\ UNCHANGED <<cluster, phrases, OtherVars>>
  <2>1. r.name \in ClusterNames /\ cluster[r.name].st # "absent"
    BY <1>1, <1>2, <1>9, DoneBefore DEF Done, BranchOf, Named
  <2>2. PICK ts : ts = have.token \cup {r.name}
    BY Zenon
  <2>3. have' = [have EXCEPT !.account = TRUE, !.token = ts]
    BY <1>5, <1>9, <2>1, <2>2 DEF Objects
  <2>4. ts \in SUBSET ClusterNames /\ have.token \subseteq ts /\ r.name \in ts
    BY <1>5, <2>1, <2>2
  <2>5. UNCHANGED <<branch, known, listed, repo, cluster, phrases>>
    BY <1>9 DEF OtherVars
  <2> QED
    BY Zenon, <1>4, <1>9, <2>3, <2>4, <2>5
<1> QED
  BY <1>2, <1>3, <1>7, <1>8, <1>9, Zenon DEF ReconcilePgBackRestIdentity

LEMMA KeptByStep ==
    ASSUME Kept, Moves, rec.pc # 0, UNCHANGED <<branch, known, listed, cluster>> PROVE Kept'
<1>1. rec'.b.name = rec.b.name
  BY DEF Moves, Same
<1> QED
  BY <1>1 DEF Kept

LEMMA SnapshotTaken ==
    ASSUME ObjectsInv, rec.pc = 2, NEW r \in BranchOf, rec.b = r, NEW v \in BOOLEAN, Put("snapshot", v),
           branch.plan.restore = "snapshot" => v \/ cluster[FirstName].st = "healthy"
    PROVE  ObjectsInv'
<1>1. TypesOK
  BY DEF ObjectsInv
<1>3. /\ have' = [have EXCEPT !.snapshot = v] /\ Written
      /\ UNCHANGED <<branch, known, listed, repo, cluster, phrases>>
  BY Zenon DEF Put, OtherVars
<1>4. /\ have' \in Objects /\ have'.snapshot = v
      /\ \A f \in DOMAIN have \ {"snapshot"} : have'[f] = have[f]
  BY <1>1, <1>3 DEF TypesOK, Objects
<1>5. DOMAIN have = HaveFields
  BY <1>1, HaveIs DEF TypesOK
<1>6. ASSUME NEW j \in 1..16, NEW b \in BranchOf, Same(b, r), Done(j, b) PROVE Done(j, b)'
  BY <1>3, <1>4, <1>5, <1>6 DEF HaveFields, Done, ClusterSpec, Schedule
<1>7. Done(2, r)'
  BY DEF Done
<1>8. Bound' /\ have'.cipher = have.cipher
  BY <1>4, <1>5 DEF HaveFields, ObjectsInv, Bound
<1>9. Moves /\ rec'.pc \in {3, 17}
  <2>1. Moves
    BY <1>1, <1>3, WrittenMoves
  <2> QED
    BY <2>1 DEF Moves
<1>10. Noticed => Noticed'
  BY <1>3, <1>9 DEF Noticed, Moves
<1>11. Cipher'
  BY <1>3, <1>8, <1>9, <1>10 DEF ObjectsInv, Cipher
<1>12. Kept'
  BY <1>3, <1>9, KeptByStep DEF ObjectsInv
<1>13. Snapshot'
  BY <1>3, <1>4 DEF ObjectsInv, Snapshot
<1>14. cluster' \in [ClusterNames -> ClusterOf] /\ phrases' \in Nat
  BY <1>1, <1>3 DEF TypesOK
<1>15. 2 \in 1..16 /\ have' \in Objects
  BY <1>4
<1> QED
  BY <1>3, <1>6, <1>7, <1>8, <1>9, <1>11, <1>12, <1>13, <1>14, <1>15, StepInv

LEMMA ReconcileVolumeSnapshotInv == ASSUME ObjectsInv, ReconcileVolumeSnapshot PROVE ObjectsInv'
<1>1. rec.pc = 2 /\ TypesOK
  BY StepAt DEF ReconcileVolumeSnapshot, Steps, ObjectsInv
<1>2. PICK r \in BranchOf : rec.b = r
  BY <1>1 DEF TypesOK
<1>3. Done(2, r)
  BY DEF Done
<1>4. r.plan = branch.plan /\ (branch.plan.restore = "snapshot" => ~branch.plan.pooled /\ branch.there)
  BY <1>1, <1>2, PlanIs DEF ObjectsInv, Copies
<1>5. branch.plan.restore = "snapshot" =>
         /\ r.name = FirstName /\ FirstName # NoName
         /\ listed[FirstName].st = "healthy" => cluster[FirstName].st = "healthy"
         /\ listed[FirstName].st = "new" => cluster[FirstName].st # "absent"
  BY <1>1, <1>2, <1>4, PlansAssumption DEF ObjectsInv, Kept
<1>6. CASE Put("snapshot", TRUE)
  BY Zenon, <1>1, <1>2, <1>6, SnapshotTaken
<1>7. CASE Refuse
  BY <1>1, <1>7, AbortInv DEF Refuse, OtherVars
<1>8. CASE listed[r.name].st = "healthy" /\ Put("snapshot", FALSE)
  BY Zenon, <1>1, <1>2, <1>5, <1>8, SnapshotTaken
<1>9. CASE Skip /\ (r.plan.restore = "snapshot" /\ r.name # NoName => listed[r.name].st = "new")
  BY <1>1, <1>2, <1>3, <1>4, <1>5, <1>9, SkipInv
<1> QED
  BY Zenon, <1>2, <1>6, <1>7, <1>8, <1>9 DEF ReconcileVolumeSnapshot

LEMMA ReconcilePgBackRestCipherInv == ASSUME ObjectsInv, ReconcilePgBackRestCipher PROVE ObjectsInv'
<1>1. rec.pc = 5 /\ TypesOK
  BY StepAt DEF ReconcilePgBackRestCipher, Steps, ObjectsInv
<1>2. PICK r \in BranchOf : rec.b = r
  BY <1>1 DEF TypesOK
<1>3. r.plan = branch.plan /\ branch.there /\ r.plan \in Plan
  BY <1>1, <1>2 DEF ObjectsInv, Copies, BranchOf
<1>4. CASE Skip /\ ((~r.plan.encrypted /\ ~r.plan.sealed) \/ have.cipher # NoCipher)
  <2>1. Done(5, r) /\ (branch.plan.sealed => have.cipher # NoCipher)
    BY <1>3, <1>4 DEF Done
  <2> QED
    BY <1>1, <1>2, <1>4, <2>1, SkipInv
<1>5. CASE Refuse
  BY <1>1, <1>5, AbortInv DEF Refuse, OtherVars
<1>6. ASSUME NEW own, own = (IF r.plan.encrypted THEN phrases + 1 ELSE 0), r.plan.encrypted \/ r.plan.sealed,
             have.cipher = NoCipher, ~(r.plan.encrypted /\ r.recorded),
             phrases' = IF r.plan.encrypted THEN phrases + 1 ELSE phrases,
             NEW key, key = [own |-> own, source |-> r.plan.sealed],
             have' = [have EXCEPT !.cipher = key], Written, UNCHANGED <<cluster, OtherVars>>
      PROVE  ObjectsInv'
  <2>1. phrases \in Nat /\ phrases' \in Nat /\ own \in Nat /\ (r.plan.encrypted => own # 0) /\ (~r.plan.encrypted => own = 0)
    BY <1>1, <1>6 DEF TypesOK
  <2>2. /\ key \in [own : Nat, source : BOOLEAN] /\ key.own = own /\ key.source = branch.plan.sealed
        /\ key # NoCipher /\ NoCipher.own = 0
    BY <1>3, <1>6, <2>1 DEF Plan, NoCipher
  <2>3. UNCHANGED <<branch, known, listed, repo, cluster>>
    BY <1>6 DEF OtherVars
  <2>4. /\ have' \in Objects /\ have'.cipher = key
        /\ \A f \in DOMAIN have \ {"cipher"} : have'[f] = have[f]
    BY <1>1, <1>6, <2>2 DEF TypesOK, Objects
  <2>5. DOMAIN have = HaveFields
    BY <1>1, HaveIs DEF TypesOK
  <2>6. ASSUME NEW j \in 1..16, NEW b \in BranchOf, Same(b, r), Done(j, b) PROVE Done(j, b)'
    BY <2>3, <2>4, <2>5, <2>6 DEF HaveFields, Done, ClusterSpec, Schedule
  <2>7. Done(5, r)'
    BY DEF Done
  <2>8. Bound' /\ have'.snapshot = have.snapshot
    BY <2>4, <2>5 DEF HaveFields, ObjectsInv, Bound
  <2>9. Moves /\ rec'.pc \in {6, 17}
    <3>1. Moves
      BY <1>1, <1>6, WrittenMoves
    <3> QED
      BY <1>1, <3>1 DEF Moves
  <2>10. Noticed => Noticed'
    BY <1>1, <2>3, <2>9 DEF Noticed, Moves
  <2>11. repo # 0 => Noticed /\ own = 0
    <3>1. repo # 0 => Noticed
      BY <1>6, <2>2 DEF ObjectsInv, Cipher
    <3>2. Noticed => r.recorded
      BY <1>1, <1>2 DEF Noticed
    <3> QED
      BY <1>6, <2>1, <3>1, <3>2
  <2>12. Cipher'
    BY <1>3, <2>2, <2>3, <2>4, <2>10, <2>11 DEF Cipher
  <2>13. Kept'
    BY <1>1, <2>3, <2>9, KeptByStep DEF ObjectsInv
  <2>14. Snapshot'
    BY <1>1, <2>3, <2>8, <2>9 DEF ObjectsInv, Snapshot
  <2>15. cluster' \in [ClusterNames -> ClusterOf] /\ have' \in Objects /\ 5 \in 1..16
    BY <1>1, <2>3, <2>4 DEF TypesOK
  <2> QED
    BY <1>1, <1>2, <2>1, <2>3, <2>6, <2>7, <2>8, <2>9, <2>12, <2>13, <2>14, <2>15, StepInv
<1>7. ASSUME r.plan.encrypted \/ r.plan.sealed, have.cipher = NoCipher,
             ~((r.plan.encrypted /\ r.recorded) \/ (r.plan.sealed /\ parent = "absent")),
             phrases' = IF r.plan.encrypted THEN phrases + 1 ELSE phrases,
             have' = [have EXCEPT !.cipher = [own |-> IF r.plan.encrypted THEN phrases + 1 ELSE 0,
                                              source |-> r.plan.sealed]],
             Written, UNCHANGED <<cluster, OtherVars>>
      PROVE  ObjectsInv'
  BY <1>6, <1>7, Zenon
<1> QED
  BY <1>2, <1>4, <1>5, <1>7, Zenon DEF ReconcilePgBackRestCipher

LEMMA ClusterSpecIs == ASSUME NEW b \in BranchOf PROVE ClusterSpec(b) \in ClusterSpecOf
<1>1. b.plan \in Plan /\ b.hibernated \in BOOLEAN
  BY DEF BranchOf
<1>2. b.plan.backup \in {"off", "barman", "pgbackrest"} /\ b.plan.encrypted \in BOOLEAN
  BY <1>1 DEF Plan
<1> QED
  BY <1>1, <1>2 DEF ClusterSpec, ClusterSpecOf

LEMMA ReconcileClusterInv == ASSUME ObjectsInv, ReconcileCluster PROVE ObjectsInv'
<1>1. rec.pc = 6 /\ TypesOK
  BY SMTT(40), StepAt DEF ReconcileCluster, Steps, ObjectsInv
<1>2. PICK r \in BranchOf : rec.b = r
  BY <1>1 DEF TypesOK
<1>3. r.plan = branch.plan /\ branch.there
  BY <1>1, <1>2 DEF ObjectsInv, Copies
<1>4. CASE r.name = NoName /\ Skip
  BY <1>1, <1>2, <1>4, SkipInv DEF Done
<1>5. CASE /\ r.name # NoName
           /\ cluster' = [cluster EXCEPT ![r.name].st = IF @ = "absent" THEN "new" ELSE @,
                                         ![r.name].owned = TRUE, ![r.name].spec = ClusterSpec(r)]
           /\ Written /\ UNCHANGED <<have, phrases, OtherVars>>
  <2>1. r.name \in ClusterNames /\ cluster \in [ClusterNames -> ClusterOf]
    BY <1>1, <1>5 DEF BranchOf, Named, TypesOK
  <2>2. PICK c \in ClusterNames, spec \in ClusterSpecOf : c = r.name /\ spec = ClusterSpec(r)
    BY <2>1, ClusterSpecIs
  <2>3. cluster' = [cluster EXCEPT ![c].st = IF @ = "absent" THEN "new" ELSE @,
                                   ![c].owned = TRUE, ![c].spec = spec]
    BY <1>5, <2>2
  <2>4. /\ cluster' \in [ClusterNames -> ClusterOf]
        /\ cluster'[c].st = (IF cluster[c].st = "absent" THEN "new" ELSE cluster[c].st)
        /\ cluster'[c].owned /\ cluster'[c].spec = spec
        /\ \A d \in ClusterNames \ {c} : cluster'[d] = cluster[d]
    BY SMTT(40), <2>1, <2>2, <2>3 DEF ClusterOf
  <2>5. UNCHANGED <<branch, known, listed, repo, have, phrases>>
    BY <1>5 DEF OtherVars
  <2>6. ASSUME NEW j \in 1..16, NEW b \in BranchOf, Same(b, r), Done(j, b) PROVE Done(j, b)'
    <3>1. CASE j = 6
      <4>1. b.name = c /\ ClusterSpec(b) = spec
        BY <2>2, <2>6 DEF Same, ClusterSpec
      <4> QED
        BY <2>4, <3>1, <4>1 DEF Done, ClusterSpec
    <3>2. CASE j # 6
      BY <2>5, <2>6, <3>2 DEF Done, Schedule
    <3> QED
      BY <3>1, <3>2
  <2>7. Done(6, r)'
    BY <2>2, <2>4 DEF Done, ClusterSpec
  <2>8. Bound'
    BY <2>5 DEF ObjectsInv, Bound
  <2>9. Moves /\ rec'.pc \in {7, 17}
    <3>1. Moves
      BY <1>1, <1>5, WrittenMoves
    <3> QED
      BY <1>1, <3>1 DEF Moves
  <2>10. Noticed => Noticed'
    BY <1>1, <2>5, <2>9 DEF Noticed, Moves
  <2>11. Cipher'
    <3>1. branch.plan.sealed => have.cipher # NoCipher
      BY <1>1 DEF ObjectsInv, Cipher
    <3> QED
      BY <1>3, <2>5, <2>10, <3>1 DEF ObjectsInv, Cipher
  <2>12. Kept'
    <3>1. rec'.b.name = c
      BY <1>2, <2>2, <2>9 DEF Moves, Same
    <3>2. ~branch.plan.pooled => c = FirstName
      BY <1>1, <1>2, <1>3, <2>2 DEF ObjectsInv, Kept
    <3> QED
      BY <1>3, <2>4, <2>5, <3>1, <3>2 DEF ObjectsInv, Kept
  <2>13. Snapshot'
    <3>1. spec.bootstrap = "snapshot" => branch.plan.restore = "snapshot"
      BY <1>3, <2>2 DEF ClusterSpec
    <3>2. branch.plan.restore = "snapshot" => c = FirstName
      BY <1>1, <1>2, <1>3, <2>2, PlanIs DEF ObjectsInv, Kept
    <3>3. \A d \in ClusterNames : cluster'[d].spec.bootstrap = "snapshot" => branch.plan.restore = "snapshot"
      BY <2>4, <3>1 DEF ObjectsInv, Snapshot
    <3>4. branch.plan.restore = "snapshot" /\ cluster[FirstName].st \in {"absent", "new"} => have.snapshot
      BY <1>1 DEF ObjectsInv, Snapshot
    <3> QED
      BY Zenon, <2>4, <2>5, <2>9, <3>2, <3>3, <3>4 DEF Snapshot
  <2>14. phrases' \in Nat /\ have' \in Objects /\ 6 \in 1..16
    BY <1>1, <2>5 DEF TypesOK
  <2> QED
    BY <1>1, <1>2, <2>4, <2>5, <2>6, <2>7, <2>8, <2>9, <2>11, <2>12, <2>13, <2>14, StepInv
<1> QED
  BY <1>2, <1>4, <1>5, Zenon DEF ReconcileCluster

LEMMA UpdateBackupStatusInv == ASSUME ObjectsInv, UpdateBackupStatus PROVE ObjectsInv'
<1>1. rec.pc = 7 /\ TypesOK
  BY StepAt DEF UpdateBackupStatus, Steps, ObjectsInv
<1>2. PICK r \in BranchOf : rec.b = r
  BY <1>1 DEF TypesOK
<1>3. PICK v : v = (r.recorded \/ (r.name # NoName /\ listed[r.name].archived))
  OBVIOUS
<1>4. v \in BOOLEAN /\ (r.recorded => v)
  BY Zenon, <1>3
<1>5. PICK b : b = [r EXCEPT !.recorded = v]
  BY Zenon
<1>6. /\ b \in BranchOf /\ Same(b, r) /\ b.gen = r.gen /\ b.observed = r.observed /\ b.recorded = v
  BY <1>4, <1>5 DEF BranchOf, Same
<1>7. rec' = [pc |-> 8, b |-> b]
  <2>1. rec' = [pc |-> rec.pc + 1, b |-> [r EXCEPT !.recorded = v]]
    BY <1>2, <1>3 DEF UpdateBackupStatus
  <2> QED
    BY <1>1, <1>5, <2>1
<1>8. Moves /\ UNCHANGED <<branch, known, listed, repo, cluster, have, phrases>>
  BY <1>1, <1>2, <1>4, <1>6, <1>7 DEF Moves, UpdateBackupStatus, OtherVars
<1>9. Done(7, r) /\ 7 \in 1..16 /\ 7 \notin {2, 5}
  BY DEF Done
<1> QED
  BY <1>1, <1>2, <1>8, <1>9, QuietInv

LEMMA ReconcileOwnedClustersInv == ASSUME ObjectsInv, ReconcileOwnedClusters PROVE ObjectsInv'
<1>1. rec.pc = 8 /\ TypesOK
  BY StepAt DEF ReconcileOwnedClusters, Steps, ObjectsInv
<1>2. PICK r \in BranchOf : rec.b = r
  BY <1>1 DEF TypesOK
<1>3. PICK cs : cs = {c \in ClusterNames : listed[c].owned /\ listed[c].st # "absent"} \ {r.name}
  BY Zenon
<1>4. /\ cluster' = [c \in ClusterNames |-> IF c \in cs THEN NoCluster ELSE cluster[c]]
      /\ have' = [have EXCEPT !.token = @ \ cs,
                              !.pooler = [c \in ClusterNames |-> IF c \in cs THEN "absent" ELSE @[c]]]
      /\ Written \/ Abort
      /\ UNCHANGED <<branch, known, listed, repo, phrases>>
  BY <1>2, <1>3 DEF ReconcileOwnedClusters, OtherVars
<1>5. branch.there
  BY <1>1 DEF ObjectsInv, Copies
<1>6. ~branch.plan.pooled => cs = {}
  BY <1>1, <1>2, <1>3, <1>5 DEF ObjectsInv, Kept
<1>7. NoCluster \in ClusterOf /\ NoCluster.st = "absent" /\ NoCluster.spec.bootstrap = "noop"
  BY DEF NoCluster, NoSpec, ClusterOf, ClusterSpecOf
<1>8. /\ cluster' \in [ClusterNames -> ClusterOf]
      /\ \A c \in ClusterNames : (c \in cs => cluster'[c] = NoCluster) /\ (c \notin cs => cluster'[c] = cluster[c])
  BY <1>1, <1>4, <1>7 DEF TypesOK
<1>9. PICK ps, ts : /\ ps = [c \in ClusterNames |-> IF c \in cs THEN "absent" ELSE have.pooler[c]]
                    /\ ts = have.token \ cs
  BY Zenon
<1>10. /\ ps \in [ClusterNames -> {"absent", "stopped", "running"}] /\ ts \in SUBSET ClusterNames
       /\ \A c \in ClusterNames \ cs : ps[c] = have.pooler[c] /\ (c \in have.token => c \in ts)
  BY <1>1, <1>9 DEF TypesOK, Objects
<1>11. have' = [have EXCEPT !.token = ts, !.pooler = ps]
  BY <1>4, <1>9
<1>12. /\ have' \in Objects /\ have'.token = ts /\ have'.pooler = ps
       /\ \A f \in DOMAIN have \ {"token", "pooler"} : have'[f] = have[f]
  BY Zenon, <1>1, <1>10, <1>11 DEF TypesOK, Objects
<1>13. DOMAIN have = HaveFields
  BY <1>1, HaveIs DEF TypesOK
<1>14. ASSUME NEW j \in 1..16, NEW b \in BranchOf, Same(b, r), Done(j, b) PROVE Done(j, b)'
  <2>1. b.name \in Named /\ b.name \notin cs
    BY <1>3, <1>14 DEF Same, BranchOf
  <2>2. b.name # NoName => b.name \in ClusterNames \ cs
    BY <2>1 DEF Named
  <2>3. CASE j \notin {6, 11, 16}
    BY <1>12, <1>13, <1>14, <2>3 DEF HaveFields, Done, Schedule
  <2>4. CASE j = 6
    BY <1>8, <1>14, <2>2, <2>4 DEF Done, ClusterSpec
  <2>5. CASE j = 11
    BY <1>10, <1>12, <1>14, <2>2, <2>5 DEF Done
  <2>6. CASE j = 16
    BY <1>10, <1>12, <1>13, <1>14, <2>2, <2>6 DEF HaveFields, Done
  <2> QED
    BY <2>3, <2>4, <2>5, <2>6
<1>15. Done(8, r)'
  BY DEF Done
<1>16. Bound' /\ have'.cipher = have.cipher /\ have'.snapshot = have.snapshot
  BY <1>12, <1>13 DEF HaveFields, ObjectsInv, Bound
<1>17. Moves /\ rec'.pc \in {9, 17}
  <2>1. Moves
    BY <1>1, <1>4, WrittenMoves
  <2> QED
    BY <1>1, <2>1 DEF Moves
<1>18. Noticed => Noticed'
  BY <1>1, <1>4, <1>17 DEF Noticed, Moves
<1>19. Cipher'
  <2>1. branch.plan.sealed => have.cipher # NoCipher
    BY <1>1 DEF ObjectsInv, Cipher
  <2> QED
    BY <1>4, <1>5, <1>16, <1>18, <2>1 DEF ObjectsInv, Cipher
<1>20. ~branch.plan.pooled => \A c \in ClusterNames : cluster'[c] = cluster[c]
  BY <1>6, <1>8
<1>21. Kept'
  <2>1. rec'.b.name = rec.b.name
    BY <1>17 DEF Moves, Same
  <2> QED
    BY <1>1, <1>4, <1>5, <1>20, <2>1, PlansAssumption DEF ObjectsInv, Kept
<1>22. Snapshot'
  <2>1. \A c \in ClusterNames : cluster'[c].spec.bootstrap = "snapshot" => branch.plan.restore = "snapshot"
    BY <1>7, <1>8 DEF ObjectsInv, Snapshot
  <2>2. branch.plan.restore = "snapshot" => cluster'[FirstName] = cluster[FirstName]
    BY <1>1, <1>20, PlanIs, PlansAssumption DEF ObjectsInv
  <2> QED
    BY <1>4, <1>16, <1>17, <2>1, <2>2 DEF ObjectsInv, Snapshot
<1>23. phrases' \in Nat /\ have' \in Objects /\ 8 \in 1..16
  <2>1. phrases \in Nat /\ phrases' = phrases
    BY <1>1, <1>4 DEF TypesOK
  <2> QED
    BY <1>12, <2>1
<1> QED
  BY Zenon, <1>1, <1>2, <1>4, <1>8, <1>14, <1>15, <1>16, <1>17, <1>19, <1>21, <1>22, <1>23, StepInv

-----------------------------------------------------------------------------
(* The start and the end of a reconcile, the caches and the environment. *)

LEMMA ProgressKept ==
    ASSUME Progress, NEW r, rec.b = r, NEW d, branch = d,
           rec' = rec \/ rec'.pc \in {0, 1},
           \A j \in 1..16 : Done(j, r) => Done(j, r)',
           branch'.ready = "true" /\ branch'.observed = branch'.gen =>
              /\ Same(d, branch') /\ branch.ready = "true" /\ branch.observed = branch.gen
              /\ \A j \in 1..16 : Done(j, d) => Done(j, d)'
    PROVE  Progress'
<1>1. ASSUME Working', NEW j \in 1..16, j < rec'.pc PROVE Done(j, rec.b)'
  <2>1. rec' = rec
    BY <1>1
  <2>2. Done(j, r)'
    BY <1>1, <2>1 DEF Progress, Working
  <2>3. PICK x : x = rec'.b
    OBVIOUS
  <2>4. Done(j, x)'
    BY <2>1, <2>2, <2>3
  <2> QED
    BY SMTT(40), <2>3, <2>4 DEF Done, ClusterSpec, Schedule
<1>2. ASSUME branch'.ready = "true", branch'.observed = branch'.gen, NEW j \in 1..16 PROVE Done(j, branch)'
  <2>1. Done(j, d)
    BY <1>2 DEF Progress
  <2>2. PICK x : x = branch'
    OBVIOUS
  <2>3. Same(d, x) /\ Done(j, d)'
    BY <1>2, <2>1, <2>2
  <2>4. Done(j, x)'
    BY <2>3, DoneSameNext
  <2> QED
    BY <2>2, <2>4 DEF Done, ClusterSpec, Schedule
<1> QED
  BY <1>1, <1>2 DEF Progress

LEMMA StartInv == ASSUME ObjectsInv, Start PROVE ObjectsInv'
<1>1. PICK b : b = [known EXCEPT !.observed = known.gen]
  BY Zenon
<1>2. known \in BranchOf /\ branch \in BranchOf
  BY DEF ObjectsInv, TypesOK
<1>3. /\ b \in BranchOf /\ Same(b, known) /\ b.gen = known.gen /\ b.observed = known.gen
      /\ b.recorded = known.recorded
  BY <1>1, <1>2 DEF BranchOf, Same
<1>4. /\ rec' = [pc |-> 1, b |-> b] /\ rec.pc = 0 /\ known.there
      /\ UNCHANGED <<branch, known, cluster, listed, have, repo, phrases>>
  BY <1>1 DEF Start
<1>5. TypesOK'
  BY <1>3, <1>4 DEF ObjectsInv, TypesOK
<1>6. Copies'
  <2>1. known.gen \in Nat
    BY <1>2 DEF BranchOf
  <2>2. Copies
    BY Zenon DEF ObjectsInv
  <2> QED
    BY SMTT(40), <1>3, <1>4, <2>1, <2>2 DEF Copies, Same
<1>7. Progress'
  <2>1. PICK r, d : rec.b = r /\ branch = d
    OBVIOUS
  <2>2. \A j \in 1..16 : (Done(j, r) => Done(j, r)') /\ (Done(j, d) => Done(j, d)')
    BY <1>4, DoneUnchanged
  <2>3. rec'.pc = 1 /\ Same(d, branch')
    BY <1>4, <2>1 DEF Same
  <2> QED
    BY Zenon, <1>4, <2>1, <2>2, <2>3, ProgressKept DEF ObjectsInv
<1>8. Noticed => Noticed'
  BY Zenon, <1>3, <1>4 DEF Noticed
<1>9. Cipher'
  BY SMTT(90), <1>4, <1>8 DEF ObjectsInv, Cipher
<1>10. Kept'
  BY <1>3, <1>4 DEF ObjectsInv, Kept, Same
<1>11. Snapshot' /\ Bound'
  BY <1>4 DEF ObjectsInv, Snapshot, Bound
<1> QED
  BY <1>5, <1>6, <1>7, <1>9, <1>10, <1>11 DEF ObjectsInv

(* A write of the status, from a copy that is not older than the last one written. *)
LEMMA StatusInv ==
    ASSUME ObjectsInv, NEW how \in {"none", "true", "false", "unknown"}, NEW seen \in Nat, NEW noted \in BOOLEAN,
           branch' = [branch EXCEPT !.ready = how, !.observed = seen, !.recorded = noted],
           branch.there, seen <= known.gen, Noticed => noted,
           rec' \in [pc : 0..17, b : BranchOf], rec'.pc = 0,
           how = "true" /\ seen = branch.gen => \A j \in 1..16 : Done(j, branch),
           UNCHANGED <<known, cluster, listed, have, repo, phrases>>
    PROVE  ObjectsInv'
<1>1. branch \in BranchOf /\ known \in BranchOf
  BY DEF ObjectsInv, TypesOK
<1>2. /\ branch' \in BranchOf /\ Same(branch, branch') /\ branch'.gen = branch.gen /\ branch'.there = branch.there
      /\ branch'.ready = how /\ branch'.observed = seen /\ branch'.recorded = noted
  BY Zenon, <1>1 DEF BranchOf, Same
<1>3. rec'.pc = 0
  OBVIOUS
<1>4. TypesOK'
  BY <1>2 DEF ObjectsInv, TypesOK
<1>5. Copies'
  BY <1>1, <1>2, <1>3 DEF ObjectsInv, Copies, Same
<1>6. Progress'
  <2>1. ~Working'
    BY <1>3 DEF Working
  <2>2. ASSUME branch'.ready = "true", branch'.observed = branch'.gen, NEW j \in 1..16 PROVE Done(j, branch)'
    <3>1. PICK d, x : d = branch /\ x = branch'
      OBVIOUS
    <3>2. Done(j, d) /\ Same(d, x)
      BY Zenon, <1>2, <2>2, <3>1
    <3>3. Done(j, d)'
      BY <3>2, DoneUnchanged
    <3>4. Done(j, x)'
      BY <3>2, <3>3, DoneSameNext
    <3> QED
      BY <3>1, <3>4 DEF Done, ClusterSpec, Schedule
  <2> QED
    BY <2>1, <2>2 DEF Progress
<1>7. Noticed => Noticed'
  BY <1>2, <1>3 DEF Noticed
<1>8. Cipher'
  BY <1>2, <1>3, <1>7 DEF ObjectsInv, Cipher, Same
<1>9. Kept'
  BY <1>2, <1>3 DEF ObjectsInv, Kept, Same
<1>10. Snapshot' /\ Bound'
  BY <1>2, <1>3 DEF ObjectsInv, Snapshot, Bound, Same
<1> QED
  BY <1>4, <1>5, <1>6, <1>8, <1>9, <1>10 DEF ObjectsInv

LEMMA StartPausedInv == ASSUME ObjectsInv, StartPaused PROVE ObjectsInv'
<1>1. known \in BranchOf /\ branch \in BranchOf /\ rec \in [pc : 0..17, b : BranchOf]
  BY DEF ObjectsInv, TypesOK
<1>2. /\ rec.pc = 0 /\ rec' = rec /\ branch.there /\ known.observed <= known.gen
      /\ UNCHANGED <<known, cluster, listed, have, repo, phrases>>
  BY DEF StartPaused, ObjectsInv, Copies
<1>3. PICK seen \in Nat, noted \in BOOLEAN : seen = known.observed /\ noted = known.recorded
  BY <1>1 DEF BranchOf
<1>4. branch' = [branch EXCEPT !.ready = "unknown", !.observed = seen, !.recorded = noted]
  BY <1>3 DEF StartPaused
<1>5. Noticed => noted
  BY <1>3 DEF Noticed
<1> QED
  BY Zenon, <1>1, <1>2, <1>3, <1>4, <1>5, StatusInv

LEMMA IdleIs == Idle \in [pc : 0..17, b : BranchOf] /\ Idle.pc = 0
<1>1. NoPlan \in Plan /\ NoName \in Named
  BY DEF NoPlan, Plan, Named
<1>2. NoBranch \in BranchOf
  BY <1>1 DEF NoBranch, BranchOf
<1> QED
  BY <1>2 DEF Idle

(* The reconcile is over or lost, and the caches may have been filled. *)
LEMMA CachesInv ==
    ASSUME ObjectsInv, rec' = rec \/ rec' = Idle, known' = known \/ known' = branch,
           listed' = listed \/ listed' = cluster, UNCHANGED <<branch, cluster, have, repo, phrases>>
    PROVE  ObjectsInv'
<1>1. rec' \in [pc : 0..17, b : BranchOf] /\ (rec' = rec \/ rec'.pc = 0)
  BY IdleIs DEF ObjectsInv, TypesOK
<1>2. known \in BranchOf /\ branch \in BranchOf
  BY DEF ObjectsInv, TypesOK
<1>3. TypesOK'
  BY <1>1 DEF ObjectsInv, TypesOK
<1>4. Copies'
  <2>1. known.gen \in Nat /\ branch.gen \in Nat /\ branch.observed \in Nat /\ known.gen <= branch.gen
        /\ branch.observed <= branch.gen /\ Same(branch, branch)
    BY <1>2 DEF BranchOf, ObjectsInv, Copies, Same
  <2>2. rec.pc # 0 => rec.b.gen \in Nat /\ rec.b.gen <= branch.gen
    BY <2>1 DEF ObjectsInv, TypesOK, BranchOf, Copies
  <2>3. CASE known' = known
    BY Zenon, <1>1, <2>3 DEF ObjectsInv, Copies, Same
  <2>4. CASE known' = branch
    <3>1. Copies
      BY Zenon DEF ObjectsInv
    <3> QED
      BY SMTT(40), <1>1, <2>1, <2>2, <2>4, <3>1 DEF Copies, Same
  <2> QED
    BY <2>3, <2>4
<1>5. Progress'
  <2>1. PICK r, d : rec.b = r /\ branch = d
    OBVIOUS
  <2>2. \A j \in 1..16 : (Done(j, r) => Done(j, r)') /\ (Done(j, d) => Done(j, d)')
    BY DoneUnchanged
  <2>3. Same(d, branch')
    BY <2>1 DEF Same
  <2> QED
    BY Zenon, <1>1, <2>1, <2>2, <2>3, ProgressKept DEF ObjectsInv
<1>6. Noticed => Noticed'
  BY <1>1 DEF Noticed
<1>7. Cipher'
  BY SMTT(40), <1>1, <1>6 DEF ObjectsInv, Cipher
<1>8. Kept'
  BY Zenon, <1>1, PlansAssumption DEF ObjectsInv, Kept
<1>9. Snapshot' /\ Bound'
  BY SMTT(40), <1>1 DEF ObjectsInv, Snapshot, Bound
<1> QED
  BY <1>3, <1>4, <1>5, <1>7, <1>8, <1>9 DEF ObjectsInv

LEMMA ApplyStatusInv == ASSUME ObjectsInv, ApplyStatus PROVE ObjectsInv'
<1>1. rec.pc = 17 /\ rec' = Idle /\ UNCHANGED <<known, cluster, listed, have, repo, phrases>>
  BY StepAt DEF ApplyStatus
<1>2. CASE UNCHANGED branch
  BY <1>1, <1>2, CachesInv
<1>3. CASE branch' = [branch EXCEPT !.ready = rec.b.ready, !.observed = rec.b.observed, !.recorded = rec.b.recorded]
  <2>1. PICK r \in BranchOf : rec.b = r
    BY DEF ObjectsInv, TypesOK
  <2>2. PICK how \in {"none", "true", "false", "unknown"}, seen \in Nat, noted \in BOOLEAN :
           how = r.ready /\ seen = r.observed /\ noted = r.recorded
    BY <2>1 DEF BranchOf
  <2>3. branch' = [branch EXCEPT !.ready = how, !.observed = seen, !.recorded = noted]
    BY <1>3, <2>1, <2>2
  <2>4. branch.there /\ seen <= known.gen /\ seen = r.gen
    <3>1. Copies
      BY Zenon DEF ObjectsInv
    <3> QED
      BY SMTT(40), <1>1, <2>1, <2>2, <3>1 DEF Copies
  <2>5. Noticed => noted
    BY <1>1, <2>1, <2>2 DEF Noticed
  <2>6. ASSUME how = "true", seen = branch.gen, NEW j \in 1..16 PROVE Done(j, branch)
    <3>1. Done(j, r)
      BY <1>1, <2>1, <2>2, <2>6 DEF ObjectsInv, Progress, Working
    <3>2. Same(r, branch)
      BY <1>1, <2>1, <2>4, <2>6 DEF ObjectsInv, Copies
    <3> QED
      BY <3>1, <3>2, DoneSame
  <2> QED
    BY Zenon, <1>1, <2>3, <2>4, <2>5, <2>6, IdleIs, StatusInv
<1> QED
  BY <1>2, <1>3 DEF ApplyStatus

LEMMA DoneCluster ==
    ASSUME NEW j, NEW b, Done(j, b), UNCHANGED have,
           b.name # NoName => /\ cluster[b.name].st # "absent" => cluster'[b.name].st # "absent"
                              /\ cluster[b.name].st # "absent" =>
                                    /\ cluster'[b.name].owned = cluster[b.name].owned
                                    /\ cluster'[b.name].spec = cluster[b.name].spec
    PROVE  Done(j, b)'
  BY DEF Done, ClusterSpec, Schedule

(* CNPG changes a cluster. *)
LEMMA ClusterMovesInv ==
    ASSUME ObjectsInv, NEW c \in ClusterNames, cluster[c].st # "absent",
           cluster' \in [ClusterNames -> ClusterOf], repo' \in Nat,
           \A d \in ClusterNames : /\ cluster'[d].owned = cluster[d].owned /\ cluster'[d].spec = cluster[d].spec
                                   /\ d # c => cluster'[d].st = cluster[d].st,
           cluster'[c].st = "healthy",
           repo' # repo => repo = 0 /\ repo' = have.cipher.own,
           UNCHANGED <<branch, known, listed, have, rec, phrases>>
    PROVE  ObjectsInv'
<1>1. TypesOK' /\ Copies'
  BY Zenon DEF ObjectsInv, TypesOK, Copies
<1>2. Progress'
  <2>1. PICK r \in BranchOf, d \in BranchOf : rec.b = r /\ branch = d
    BY Zenon DEF ObjectsInv, TypesOK
  <2>2. \A b \in BranchOf : b.name # NoName => b.name \in ClusterNames
    BY DEF BranchOf, Named
  <2>3. \A j \in 1..16 : (Done(j, r) => Done(j, r)') /\ (Done(j, d) => Done(j, d)')
    BY <2>1, <2>2, DoneCluster
  <2>4. Same(d, branch')
    BY <2>1 DEF Same
  <2> QED
    BY Zenon, <2>1, <2>3, <2>4, ProgressKept DEF ObjectsInv
<1>3. branch.there
  BY DEF ObjectsInv, Kept
<1>4. Noticed => Noticed'
  BY DEF Noticed
<1>5. Cipher'
  <2>1. (\E d \in ClusterNames : cluster'[d].st # "absent") => \E d \in ClusterNames : cluster[d].st # "absent"
    OBVIOUS
  <2> QED
    BY <1>3, <1>4, <2>1 DEF ObjectsInv, Cipher
<1>6. Kept'
  BY ZenonT(60), <1>3, PlansAssumption DEF ObjectsInv, Kept
<1>7. Snapshot' /\ Bound'
  <2>1. cluster'[FirstName].st \in {"absent", "new"} => cluster'[FirstName].st = cluster[FirstName].st
    BY PlansAssumption
  <2> QED
    BY <2>1 DEF ObjectsInv, Snapshot, Bound
<1> QED
  BY <1>1, <1>2, <1>5, <1>6, <1>7 DEF ObjectsInv

LEMMA ClusterUpInv == ASSUME ObjectsInv, NEW c \in ClusterNames, ClusterUp(c) PROVE ObjectsInv'
<1>1. cluster \in [ClusterNames -> ClusterOf] /\ repo \in Nat
  BY DEF ObjectsInv, TypesOK
<1>2. /\ cluster' = [cluster EXCEPT ![c].st = "healthy"] /\ cluster[c].st = "new"
      /\ UNCHANGED <<branch, known, listed, have, rec, phrases, repo>>
  BY DEF ClusterUp
<1>3. /\ cluster' \in [ClusterNames -> ClusterOf] /\ cluster'[c].st = "healthy"
      /\ \A d \in ClusterNames : /\ cluster'[d].owned = cluster[d].owned /\ cluster'[d].spec = cluster[d].spec
                                 /\ d # c => cluster'[d].st = cluster[d].st
  BY <1>1, <1>2 DEF ClusterOf
<1> QED
  BY <1>1, <1>2, <1>3, ClusterMovesInv

LEMMA ArchiveInv == ASSUME ObjectsInv, NEW c \in ClusterNames, Archive(c) PROVE ObjectsInv'
<1>1. cluster \in [ClusterNames -> ClusterOf] /\ repo \in Nat /\ have.cipher.own \in Nat
  BY DEF ObjectsInv, TypesOK, Objects
<1>2. /\ cluster' = [cluster EXCEPT ![c].archived = TRUE] /\ cluster[c].st = "healthy"
      /\ repo' = IF repo = 0 THEN have.cipher.own ELSE repo
      /\ UNCHANGED <<branch, known, listed, have, rec, phrases>>
  BY DEF Archive
<1>3. /\ cluster' \in [ClusterNames -> ClusterOf] /\ cluster'[c].st = "healthy"
      /\ \A d \in ClusterNames : /\ cluster'[d].owned = cluster[d].owned /\ cluster'[d].spec = cluster[d].spec
                                 /\ d # c => cluster'[d].st = cluster[d].st
  BY Zenon, <1>1, <1>2 DEF ClusterOf
<1> QED
  BY Zenon, <1>1, <1>2, <1>3, ClusterMovesInv

LEMMA LoseCipherInv == ASSUME ObjectsInv, LoseCipher PROVE ObjectsInv'
<1>1. /\ have' = [have EXCEPT !.cipher = NoCipher] /\ Noticed /\ rec.pc = 0
      /\ UNCHANGED <<branch, known, cluster, listed, rec, repo, phrases>>
  BY DEF LoseCipher, Noticed
<1>2. have \in Objects /\ NoCipher \in [own : Nat, source : BOOLEAN] /\ NoCipher.own = 0
  BY DEF ObjectsInv, TypesOK, NoCipher
<1>3. /\ have' \in Objects /\ have'.cipher = NoCipher
      /\ \A f \in DOMAIN have \ {"cipher"} : have'[f] = have[f]
  BY <1>1, <1>2 DEF Objects
<1>4. DOMAIN have = HaveFields
  BY <1>2, HaveIs
<1>5. TypesOK'
  <2>1. UNCHANGED <<branch, known, cluster, listed, rec, repo, phrases>> /\ have' \in Objects
    BY <1>1, <1>3
  <2> QED
    BY <2>1 DEF ObjectsInv, TypesOK
<1>6. Copies'
  BY <1>1 DEF ObjectsInv, Copies, Same
<1>7. Progress'
  <2>1. PICK r, d : rec.b = r /\ branch = d
    OBVIOUS
  <2>2. ASSUME NEW j \in 1..16, NEW b, Done(j, b) PROVE Done(j, b)'
    BY <1>1, <1>3, <1>4, <2>2 DEF HaveFields, Done, ClusterSpec, Schedule
  <2>3. Same(d, branch')
    BY <1>1, <2>1 DEF Same
  <2> QED
    BY <1>1, <2>1, <2>2, <2>3, ProgressKept DEF ObjectsInv
<1>8. Noticed'
  BY <1>1 DEF Noticed
<1>9. Cipher'
  BY <1>1, <1>2, <1>3, <1>8 DEF ObjectsInv, Cipher
<1>10. Kept'
  BY <1>1 DEF ObjectsInv, Kept
<1>11. Snapshot' /\ Bound'
  BY <1>1, <1>3, <1>4 DEF ObjectsInv, Snapshot, Bound, HaveFields
<1> QED
  BY <1>5, <1>6, <1>7, <1>9, <1>10, <1>11 DEF ObjectsInv

(* An edit is a new generation, or specifies the same.  A cluster of the pool   *)
(* may be taken for a pool branch.                                              *)
LEMMA EditInv ==
    ASSUME ObjectsInv, branch.there, branch' \in BranchOf, branch'.there,
           branch'.plan = branch.plan, branch'.observed = branch.observed, branch'.recorded = branch.recorded,
           ~branch.plan.pooled => branch'.name = branch.name,
           \/ branch'.gen = branch.gen + 1
           \/ branch'.gen = branch.gen /\ Same(branch, branch') /\ branch'.ready = branch.ready,
           \/ cluster' = cluster
           \/ /\ branch.plan.pooled /\ branch'.gen = branch.gen + 1
              /\ \E c \in ClusterNames : cluster[c].st = "absent" /\ cluster' = [cluster EXCEPT ![c] = Warm],
           UNCHANGED <<known, listed, have, rec, repo, phrases>>
    PROVE  ObjectsInv'
<1>1. branch \in BranchOf /\ known \in BranchOf /\ rec.b \in BranchOf /\ cluster \in [ClusterNames -> ClusterOf]
  BY DEF ObjectsInv, TypesOK
<1>2. Warm \in ClusterOf /\ Warm.spec.bootstrap = "noop"
  BY Zenon DEF Warm, NoCluster, NoSpec, ClusterOf, ClusterSpecOf
<1>3. /\ cluster' \in [ClusterNames -> ClusterOf]
      /\ \A c \in ClusterNames : /\ cluster[c].st # "absent" => cluster'[c] = cluster[c]
                                 /\ cluster'[c] = cluster[c] \/ cluster'[c].spec.bootstrap = "noop"
                                 /\ ~branch.plan.pooled => cluster'[c] = cluster[c]
  BY <1>1, <1>2
<1>4. TypesOK'
  BY Zenon, <1>3 DEF ObjectsInv, TypesOK
<1>5. Copies'
  <2>0. Copies
    BY Zenon DEF ObjectsInv
  <2>1. branch.gen \in Nat /\ known.gen \in Nat /\ rec.b.gen \in Nat
    BY <1>1 DEF BranchOf
  <2>2. CASE branch'.gen = branch.gen + 1
    <3>1. known.gen <= branch.gen /\ (rec.pc # 0 => rec.b.gen <= known.gen)
      BY Zenon, <2>0 DEF Copies
    <3>2. /\ known.gen <= branch'.gen /\ known.gen # branch'.gen
          /\ rec.pc # 0 => rec.b.gen # branch'.gen
      BY <2>1, <2>2, <3>1
    <3> QED
      BY ZenonT(60), <2>0, <3>2 DEF Copies
  <2>3. CASE branch'.gen = branch.gen /\ Same(branch, branch')
    BY Zenon, <2>3 DEF ObjectsInv, Copies, Same
  <2> QED
    BY <2>2, <2>3
<1>6. Progress'
  <2>1. PICK r \in BranchOf, d \in BranchOf : rec.b = r /\ branch = d
    BY ZenonT(60), <1>1
  <2>2. \A b \in BranchOf : b.name # NoName => b.name \in ClusterNames
    BY DEF BranchOf, Named
  <2>3. \A j \in 1..16 : (Done(j, r) => Done(j, r)') /\ (Done(j, d) => Done(j, d)')
    BY ZenonT(60), <1>3, <2>1, <2>2, DoneCluster
  <2>4. branch.gen \in Nat /\ branch.observed \in Nat /\ branch.observed <= branch.gen
    <3>1. Copies
      BY Zenon DEF ObjectsInv
    <3>2. branch.gen \in Nat /\ branch.observed \in Nat /\ known.gen \in Nat
      BY <1>1 DEF BranchOf
    <3>3. branch.observed <= known.gen /\ known.gen <= branch.gen
      BY Zenon, <3>1 DEF Copies
    <3> QED
      BY <3>2, <3>3
  <2>5. branch'.observed = branch'.gen => branch'.gen = branch.gen /\ Same(branch, branch') /\ branch'.ready = branch.ready
    BY SMTT(40), <2>4
  <2> QED
    BY Zenon, <2>1, <2>3, <2>5, ProgressKept DEF ObjectsInv
<1>7. Noticed => Noticed'
  BY DEF Noticed
<1>8. Cipher'
  <2>1. branch.plan.sealed => ~branch.plan.pooled
    BY PlanIs DEF ObjectsInv
  <2> QED
    BY Zenon, <1>3, <1>7, <2>1 DEF ObjectsInv, Cipher
<1>9. Kept'
  BY Zenon, <1>3, PlansAssumption DEF ObjectsInv, Kept
<1>10. Snapshot' /\ Bound'
  <2>1. branch.plan.restore = "snapshot" => cluster'[FirstName] = cluster[FirstName]
    BY <1>3, PlanIs, PlansAssumption DEF ObjectsInv
  <2>2. \A c \in ClusterNames : cluster'[c].spec.bootstrap = "snapshot" => branch.plan.restore = "snapshot"
    BY <1>3 DEF ObjectsInv, Snapshot
  <2> QED
    BY Zenon, <2>1, <2>2 DEF ObjectsInv, Snapshot, Bound
<1> QED
  BY <1>4, <1>5, <1>6, <1>8, <1>9, <1>10 DEF ObjectsInv

LEMMA EditsInv == ASSUME ObjectsInv, TogglePooler \/ Hibernate \/ Wake \/ TogglePause PROVE ObjectsInv'
<1>1. branch \in BranchOf
  BY DEF ObjectsInv, TypesOK
<1>a. PICK g \in Nat : g = branch.gen + 1
  BY <1>1 DEF BranchOf
<1>2. branch.there /\ UNCHANGED <<known, listed, have, rec, repo, phrases>>
  BY Zenon DEF TogglePooler, Hibernate, Wake, TogglePause, Edited
<1>3. CASE TogglePooler
  <2>1. branch' = [branch EXCEPT !.pooler = ~@, !.gen = g] /\ cluster' = cluster
    BY <1>3, <1>a DEF TogglePooler, Edited
  <2>2. /\ branch' \in BranchOf /\ branch'.there /\ branch'.plan = branch.plan /\ branch'.observed = branch.observed
        /\ branch'.recorded = branch.recorded /\ branch'.name = branch.name /\ branch'.gen = g
    BY Zenon, <1>1, <1>2, <2>1 DEF BranchOf
  <2> QED
    BY <1>2, <2>1, <2>2, <1>a, EditInv
<1>4. CASE Hibernate
  <2>1. CASE branch.plan.pooled /\ branch' = [branch EXCEPT !.name = NoName, !.gen = g] /\ cluster' = cluster
    <3>1. /\ branch' \in BranchOf /\ branch'.there /\ branch'.plan = branch.plan /\ branch'.observed = branch.observed
          /\ branch'.recorded = branch.recorded /\ branch'.gen = g
      BY Zenon, <1>1, <1>2, <2>1 DEF BranchOf, Named
    <3> QED
      BY <1>2, <2>1, <3>1, <1>a, EditInv
  <2>2. CASE branch' = [branch EXCEPT !.hibernated = TRUE, !.gen = g] /\ cluster' = cluster
    <3>1. /\ branch' \in BranchOf /\ branch'.there /\ branch'.plan = branch.plan /\ branch'.observed = branch.observed
          /\ branch'.recorded = branch.recorded /\ branch'.name = branch.name /\ branch'.gen = g
      BY Zenon, <1>1, <1>2, <2>2 DEF BranchOf
    <3> QED
      BY <1>2, <2>2, <3>1, <1>a, EditInv
  <2> QED
    BY <1>4, <1>a, <2>1, <2>2 DEF Hibernate, Edited
<1>5. CASE Wake
  <2>1. ASSUME branch.plan.pooled, NEW c \in ClusterNames, cluster[c].st = "absent",
               branch' = [branch EXCEPT !.name = c, !.gen = g], cluster' = [cluster EXCEPT ![c] = Warm]
        PROVE  ObjectsInv'
    <3>1. /\ branch' \in BranchOf /\ branch'.there /\ branch'.plan = branch.plan /\ branch'.observed = branch.observed
          /\ branch'.recorded = branch.recorded /\ branch'.gen = g
      BY Zenon, <1>1, <1>2, <2>1 DEF BranchOf, Named
    <3> QED
      BY Zenon, <1>2, <2>1, <3>1, <1>a, EditInv
  <2>2. CASE branch' = [branch EXCEPT !.hibernated = FALSE, !.gen = g] /\ cluster' = cluster
    <3>1. /\ branch' \in BranchOf /\ branch'.there /\ branch'.plan = branch.plan /\ branch'.observed = branch.observed
          /\ branch'.recorded = branch.recorded /\ branch'.name = branch.name /\ branch'.gen = g
      BY Zenon, <1>1, <1>2, <2>2 DEF BranchOf
    <3> QED
      BY <1>2, <2>2, <3>1, <1>a, EditInv
  <2> QED
    BY Zenon, <1>5, <1>a, <2>1, <2>2 DEF Wake, Edited
<1>6. CASE TogglePause
  <2>1. branch' = [branch EXCEPT !.paused = ~@] /\ cluster' = cluster
    BY <1>6 DEF TogglePause, Edited
  <2>2. /\ branch' \in BranchOf /\ branch'.there /\ branch'.plan = branch.plan /\ branch'.observed = branch.observed
        /\ branch'.recorded = branch.recorded /\ branch'.name = branch.name /\ branch'.gen = branch.gen
        /\ Same(branch, branch') /\ branch'.ready = branch.ready
    BY Zenon, <1>1, <1>2, <2>1 DEF BranchOf, Same
  <2> QED
    BY <1>2, <2>1, <2>2, <1>a, EditInv
<1> QED
  BY <1>3, <1>4, <1>5, <1>6

LEMMA CreateBranchInv == ASSUME ObjectsInv, NEW p \in Plans, CreateBranch(p) PROVE ObjectsInv'
<1>1. PICK n : n = IF p.restore = "clone" THEN NoName ELSE FirstName
  OBVIOUS
<1>2. n \in Named /\ p \in Plan /\ (~p.pooled => n = FirstName) /\ (p.restore = "snapshot" \/ p.sealed => ~p.pooled)
  BY <1>1, PlansAssumption DEF Named, Plan
<1>3. /\ ~branch.there /\ branch = NoBranch /\ known = NoBranch /\ rec.pc = 0 /\ NoBranch.plan = NoPlan
      /\ ~NoBranch.there /\ NoBranch.gen = 0 /\ NoBranch.observed = 0 /\ NoBranch \in BranchOf
      /\ NoBranch.ready = "none" /\ UNCHANGED <<known, listed, have, rec, repo, phrases>>
  BY Zenon DEF CreateBranch, ObjectsInv, TypesOK, Copies, NoBranch
<1>4. branch' = [NoBranch EXCEPT !.there = TRUE, !.gen = 1, !.plan = p, !.name = n]
  BY <1>1 DEF CreateBranch
<1>5. /\ branch' \in BranchOf /\ branch'.there /\ branch'.gen = 1 /\ branch'.plan = p /\ branch'.name = n
      /\ branch'.observed = 0 /\ branch'.ready = "none"
  BY Zenon, <1>2, <1>3, <1>4 DEF BranchOf
<1>6. Warm \in ClusterOf /\ Warm.spec.bootstrap = "noop"
  BY Zenon DEF Warm, NoCluster, NoSpec, ClusterOf, ClusterSpecOf
<1>7. cluster \in [ClusterNames -> ClusterOf] /\ \A c \in ClusterNames : cluster[c].st = "absent" /\ listed[c].st = "absent"
  BY <1>3 DEF ObjectsInv, TypesOK, Kept
<1>8. /\ cluster' \in [ClusterNames -> ClusterOf]
      /\ \A c \in ClusterNames : /\ cluster'[c] = cluster[c] \/ cluster'[c].spec.bootstrap = "noop"
                                 /\ ~p.pooled => cluster'[c] = cluster[c]
  BY <1>6, <1>7, PlansAssumption DEF CreateBranch
<1>0. Copies /\ Cipher /\ Snapshot /\ Bound
  BY Zenon DEF ObjectsInv
<1>9. TypesOK'
  BY <1>3, <1>5, <1>8 DEF ObjectsInv, TypesOK
<1>10. Copies'
  <2>1. /\ known' = NoBranch /\ NoBranch.gen = 0 /\ NoBranch.observed = 0 /\ ~NoBranch.there
        /\ branch'.gen = 1 /\ branch'.observed = 0 /\ branch'.there /\ branch'.plan = p /\ rec'.pc = 0
    BY Zenon, <1>3, <1>5
  <2> QED
    BY SMTT(40), <2>1 DEF Copies
<1>11. Progress'
  BY SMTT(90), <1>3, <1>5 DEF Progress, Working
<1>12. Cipher'
  <2>1. have'.cipher = NoCipher /\ repo' = 0 /\ branch'.plan = p /\ branch'.there
    BY Zenon, <1>0, <1>3, <1>5 DEF Cipher
  <2>2. ~(rec'.pc \in 6..16)
    BY <1>3
  <2>3. p.sealed => \A c \in ClusterNames : cluster'[c].st = "absent"
    BY Zenon, <1>2, <1>7, <1>8
  <2> QED
    BY Zenon, <2>1, <2>2, <2>3 DEF Cipher
<1>13. Kept'
  BY ZenonT(60), <1>2, <1>3, <1>5, <1>7, <1>8, PlansAssumption DEF ObjectsInv, Kept
<1>14. Snapshot' /\ Bound'
  <2>1. \A c \in ClusterNames : cluster'[c].spec.bootstrap # "snapshot"
    <3>1. NoPlan.restore # "snapshot"
      BY Zenon DEF NoPlan
    <3> QED
      <4>1. branch.plan = NoPlan
        BY Zenon, <1>3
      <4>2. \A c \in ClusterNames : cluster[c].spec.bootstrap # "snapshot"
        BY Zenon, <1>0, <3>1, <4>1 DEF Snapshot
      <4>3. "noop" # "snapshot"
        OBVIOUS
      <4> QED
        BY Zenon, <1>8, <4>2, <4>3
  <2>2. p.restore = "snapshot" => cluster'[FirstName].st = "absent"
    BY ZenonT(60), <1>2, <1>7, <1>8, PlansAssumption
  <2>3. Snapshot'
    <3>1. /\ branch'.plan = p /\ rec'.pc = 0
          /\ "absent" # "new" /\ ~(0 \in 3..6)
      BY <1>3, <1>5
    <3> QED
      BY Zenon, <2>1, <2>2, <3>1 DEF Snapshot
  <2>4. Bound'
    BY Zenon, <1>0, <1>3 DEF Bound
  <2> QED
    BY <2>3, <2>4
<1> QED
  BY <1>9, <1>10, <1>11, <1>12, <1>13, <1>14 DEF ObjectsInv

LEMMA ObjectsInvNext == ASSUME ObjectsInv, [ResNext]_resVars PROVE ObjectsInv'
<1>1. CASE UNCHANGED resVars \/ MoveParent \/ SyncBranch \/ SyncClusters \/ RestartOperator
  BY Zenon, <1>1, CachesInv DEF resVars, MoveParent, SyncBranch, SyncClusters, RestartOperator
<1>2. CASE \E p \in Plans : CreateBranch(p)
  BY <1>2, CreateBranchInv
<1>3. CASE TogglePooler \/ Hibernate \/ Wake \/ TogglePause
  BY <1>3, EditsInv
<1>4. CASE \E c \in ClusterNames : ClusterUp(c) \/ Archive(c)
  BY <1>4, ClusterUpInv, ArchiveInv
<1>5. CASE LoseCipher \/ StartPaused \/ Start
  BY <1>5, LoseCipherInv, StartPausedInv, StartInv
<1>6. CASE FailStep
  BY <1>6, AbortInv, StepAt DEF FailStep
<1>7. CASE ReconcileStep
  BY <1>7, ReconcileObjectStoreInv, ReconcileVolumeSnapshotInv, ReconcileXVolCloneInv, ReconcileSecretInv,
     ReconcilePgBackRestCipherInv, ReconcileClusterInv, UpdateBackupStatusInv, ReconcileOwnedClustersInv,
     ReconcileAdditionalServiceInv, ReconcileAdditionalServicePoolerInv, ReconcilePoolerInv,
     ReconcileScheduledBackupInv, ReconcileNetworkPolicyInv, ReconcileScaleToZeroRBACInv,
     ReconcilePgBackRestIdentityInv, ApplyStatusInv
     DEF ReconcileStep
<1> QED
  BY <1>1, <1>2, <1>3, <1>4, <1>5, <1>6, <1>7 DEF ResNext

LEMMA ObjectsInvHolds == ResSpec => []ObjectsInv
  BY ObjectsInvInit, ObjectsInvNext, PTL DEF ResSpec

(* A Branch whose Ready condition is True for its present generation has every  *)
(* object as it specifies (Reconcile and applyStatus of the Branch reconciler), *)
(* for any set of clusters, any plans and any number of edits and failures.     *)
THEOREM ReadyIsConverged == ResSpec => []ReadyMeansConverged
<1>1. ObjectsInv => ReadyMeansConverged
  BY Zenon, ConvergedIs DEF ObjectsInv, Progress, ReadyMeansConverged
<1> QED
  BY <1>1, ObjectsInvHolds, PTL

(* What clusters, backups and the binding of the sidecar rely on is there at    *)
(* every moment (the order of the steps of Reconcile, deleteScaleToZeroRBAC and *)
(* the refusal in reconcilePgBackRestCipher), whatever fails between two steps. *)
THEOREM ReliedOnStaysThere == ResSpec => []ReliedOnIsThere
<1>1. ASSUME ObjectsInv PROVE ReliedOnIsThere
  <2>1. ASSUME NEW c \in ClusterNames, cluster[c].st = "new", cluster[c].spec.bootstrap = "snapshot"
        PROVE  have.snapshot
    <3>1. branch.plan.restore = "snapshot" /\ branch.there /\ ~branch.plan.pooled
      BY <1>1, <2>1, PlanIs DEF ObjectsInv, Snapshot
    <3>2. c = FirstName
      BY <1>1, <2>1, <3>1 DEF ObjectsInv, Kept
    <3> QED
      BY <1>1, <2>1, <3>1, <3>2 DEF ObjectsInv, Snapshot
  <2>2. ASSUME NEW c \in ClusterNames, cluster[c].st = "new", branch.plan.sealed
        PROVE  have.cipher.source \/ branch.recorded
    BY Zenon, <1>1, <2>2 DEF ObjectsInv, Cipher, Noticed
  <2> QED
    BY Zenon, <1>1, <2>1, <2>2 DEF ObjectsInv, Cipher, Bound, ReliedOnIsThere
<1> QED
  BY <1>1, ObjectsInvHolds, PTL
=============================================================================
