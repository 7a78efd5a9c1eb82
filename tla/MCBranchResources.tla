-------------------------- MODULE MCBranchResources --------------------------
(* Instances for TLC of the Branch objects (BranchSpecs), the calls that        *)
(* create one (ClusterCreate) and the reconciler that works on one              *)
(* (BranchResources).  They share no state: one of them moves while the others  *)
(* have not started.                                                            *)
EXTENDS BranchResources, BranchSpecs, ClusterCreate

(* A child from a snapshot, a clone of a volume, and a restored backup. *)
MCPlans ==
    { [restore |-> "snapshot", backup |-> "barman", encrypted |-> FALSE,
       sealed |-> FALSE, pooled |-> FALSE],
      [restore |-> "clone", backup |-> "pgbackrest", encrypted |-> TRUE,
       sealed |-> FALSE, pooled |-> TRUE],
      [restore |-> "store", backup |-> "pgbackrest", encrypted |-> TRUE,
       sealed |-> TRUE, pooled |-> FALSE] }

(* A step of the environment that commutes with the steps of a reconcile is    *)
(* taken where its effect is read next: edits and the cache of the Branch      *)
(* between reconciles or before the status is written, the parent and the       *)
(* clusters before the steps that look at them.                                 *)
Commuting ==
    LET Between == rec.pc \in {0, Last}
        Failure == stepFaults' # stepFaults IN
    /\ edits' # edits => Between
    /\ (known' # known /\ ~Failure) => Between
    /\ moves' # moves => rec.pc = 0 \/ At("clone") \/ At("cipher")
    /\ (rec' = rec /\ (listed' # listed \/ cluster' # cluster)) =>
          \/ Between
          \/ \E s \in {"snapshot", "backup", "owned", "pooler", "identity"} : At(s)

-----------------------------------------------------------------------------
CellOf(provider, encrypt, qos) ==
    [provider |-> provider, encrypt |-> encrypt, qos |-> qos]

MCCells ==
    { CellOf("aws", FALSE, FALSE), CellOf("aws", TRUE, TRUE), CellOf("s3", FALSE, FALSE),
      CellOf("s3", TRUE, FALSE), CellOf("gcp", TRUE, FALSE) }

OneCell == {CellOf("aws", FALSE, FALSE)}

WithPgBackRestOnly ==
    [image |-> "i1", mem |-> 4, libs |-> [first |-> "audit", rest |-> {"xatautils"}], qos |-> "micro",
     method |-> "pgbackrest", pool |-> FALSE]

OneRequest == {WithPgBackRestOnly}

MCRequests ==
    { WithPgBackRestOnly,
      [image |-> "i1", mem |-> 8, libs |-> NoLibs, qos |-> "keep",
       method |-> "barman", pool |-> TRUE] }

Keep == [image |-> "keep", mem |-> 0, libs |-> NoLibs, qos |-> "keep", user |-> "keep",
         ext |-> "keep", backup |-> FALSE, hibernate |-> "keep"]

(* Another image, with settings that are not the user's to change; more memory; *)
(* a schedule for backups; hibernation.                                         *)
MCUpdates ==
    { [Keep EXCEPT !.image = "i2", !.ext = "u1", !.libs = [first |-> "cron", rest |-> {"xatautils"}]],
      [Keep EXCEPT !.mem = 8, !.qos = "large", !.user = "u1"],
      [Keep EXCEPT !.backup = TRUE],
      [Keep EXCEPT !.hibernate = "on"], [Keep EXCEPT !.hibernate = "off"] }

-----------------------------------------------------------------------------
BranchInit == ResInit /\ SpecInit /\ CreateInit

BranchNext ==
    \/ /\ SpecInit /\ CreateInit /\ ResNext /\ Commuting
       /\ UNCHANGED <<specVars, createVars>>
    \/ ResInit /\ CreateInit /\ SpecNext /\ UNCHANGED <<resVars, createVars>>
    \/ ResInit /\ SpecInit /\ CreateNext /\ UNCHANGED <<resVars, specVars>>

BranchSpec ==
    /\ BranchInit
    /\ [][BranchNext]_<<resVars, specVars, createVars>>
    /\ ResFairness
=============================================================================
