------------------------------ MODULE BranchSpecs ------------------------------
(* The Branch objects that the clusters service writes (services/clusters,      *)
(* branchbuilder.go and overrides.go) and the CNPG cluster that the operator    *)
(* derives from each of them (branch-operator, resources/cluster.go): how the   *)
(* configuration of a branch comes out of requests, of its parent and of the    *)
(* configuration of the cell, and where its backups are written and read.       *)
(* A request is one step here; its calls are taken apart in ClusterCreate.      *)
EXTENDS Naturals

CONSTANTS
    Ids,           \* identifiers of branches
    NoId,          \* no branch
    Images,        \* Postgres images
    Cells,         \* configurations the cell may have, see Cell
    SpecRequests,      \* configurations of a new root branch, see Request
    Updates,       \* updates, see Update
    MaxOps         \* bound on requests and changes of the configuration

Methods == {"off", "barman", "pgbackrest"}

(* The configuration of a cell that matters here.  "s3" is AWS or a compatible  *)
(* store with an endpoint and static keys, "aws" is AWS with web identity.      *)
Cell == [provider : {"aws", "s3", "gcp", "azure"}, encrypt : BOOLEAN, qos : BOOLEAN]

Libraries == {"xatautils", "audit", "cron"}

(* shared_preload_libraries: the first one, and the others. *)
Preload == [first : Libraries \cup {"none"}, rest : SUBSET Libraries]

NoLibs == [first |-> "none", rest |-> {}]

(* A configuration; `user' is a parameter of the user and `ext' one of the      *)
(* mandatory ones, the list of extensions of the image.  Absent fields are      *)
(* "keep", 0 or NoLibs.                                                         *)
Request == [image : Images, mem : Nat, libs : Preload, qos : {"keep", "micro", "large"},
            method : Methods, pool : BOOLEAN]

Update == [image : Images \cup {"keep"}, mem : Nat, libs : Preload,
           qos : {"keep", "micro", "large"},
           user : {"keep", "u1"}, ext : {"keep", "u1"}, backup : BOOLEAN,
           hibernate : {"keep", "on", "off"}]

ASSUME SpecsAssumption ==
    /\ NoId \notin Ids
    /\ "keep" \notin Images
    /\ \A c \in Cells : c \in Cell
    /\ \A r \in SpecRequests : r \in Request /\ r.mem > 1
    /\ \A u \in Updates : u \in Update

VARIABLES
    cell,     \* the configuration of the cell
    specs,    \* the Branch objects
    asked,    \* the memory that was asked for each branch, or for its parent
    ops       \* requests so far

specVars == <<cell, specs, asked, ops>>

NoPath == [kind |-> "none", of |-> NoId]

NoBackup == [method |-> "off", store |-> "none", path |-> NoPath, cipher |-> FALSE,
             touched |-> FALSE]

NoSpecYet == [there |-> FALSE, image |-> "keep", mem |-> 0, libs |-> NoLibs, vac |-> "none",
              user |-> "keep", ext |-> "keep", restore |-> "none", source |-> NoId,
              sealed |-> FALSE, backup |-> NoBackup, cluster |-> "none",
              pooled |-> FALSE, hibernated |-> FALSE]

NoCell == [provider |-> "none", encrypt |-> FALSE, qos |-> FALSE]

SpecInit ==
    /\ cell = NoCell
    /\ specs = [i \in Ids |-> NoSpecYet]
    /\ asked = [i \in Ids |-> 0]
    /\ ops = 0

-----------------------------------------------------------------------------
(* The builder. *)

(* Memory set aside for the pooler, in units of which a request has several. *)
Reservation == 1

ResourceRequirements(mem) == mem - Reservation

(* backupSpec: a backup method without its storage. *)
BackupSpec(method) == [NoBackup EXCEPT !.method = method]

(* Mutant of WithPgBackRest: a restored branch goes on in the repository of its  *)
(* source.                                                                       *)
WithPgBackRestOfSource(id, s) ==
    IF s.backup.method # "pgbackrest" THEN s
    ELSE [s EXCEPT
            !.backup.store = CASE cell.provider = "gcp" -> "gcs"
                               [] cell.provider = "azure" -> "azure"
                               [] OTHER -> "s3",
            !.backup.path = [kind |-> "name", of |-> IF s.restore = "store" THEN s.source ELSE id]]

(* WithPgBackRest: the store of the provider; with web identity the path in it  *)
(* that the identity of the branch gives access to.                             *)
WithPgBackRest(id, s) ==
    IF s.backup.method # "pgbackrest" THEN s
    ELSE [s EXCEPT
            !.backup.store = CASE cell.provider = "gcp" -> "gcs"
                               [] cell.provider = "azure" -> "azure"
                               [] OTHER -> "s3",
            !.backup.path = CASE cell.provider = "gcp" -> [kind |-> "name", of |-> id]
                              [] cell.provider = "aws" -> [kind |-> "claim", of |-> id]
                              [] OTHER -> NoPath]

WithPgBackRestCipher(s) ==
    IF s.backup.method = "pgbackrest" /\ cell.encrypt
    THEN [s EXCEPT !.backup.cipher = TRUE] ELSE s

(* WithPgBackRestRestoreCipher: decided by the source as it is now. *)
WithPgBackRestRestoreCipher(s) ==
    IF /\ s.restore = "store" /\ s.backup.method = "pgbackrest"
       /\ specs[s.source].backup.method = "pgbackrest"
    THEN [s EXCEPT !.sealed = specs[s.source].backup.cipher] ELSE s

WithXataUtilsPreloadLibrary(s) ==
    [s EXCEPT !.libs = [first |-> "xatautils",
                        rest |-> (@.rest \cup {@.first}) \ {"xatautils", "none"}]]

(* The privileged extensions follow from the image. *)
WithMandatoryPostgresParameters(s) == [s EXCEPT !.ext = s.image]

WithStorageQoSClass(s, class) ==
    IF cell.qos /\ class # "keep" THEN [s EXCEPT !.vac = class] ELSE s

(* The steps common to every creation. *)
Built(id, s, class) ==
    WithMandatoryPostgresParameters(WithXataUtilsPreloadLibrary(
        WithPgBackRestRestoreCipher(WithPgBackRestCipher(
            WithPgBackRest(id, WithStorageQoSClass(s, class))))))

FromCreateClusterRequest(r) ==
    [NoSpecYet EXCEPT !.there = TRUE, !.image = r.image, !.libs = r.libs,
                      !.mem = ResourceRequirements(r.mem),
                      !.backup = BackupSpec(r.method), !.cluster = "own"]

(* The child has the configuration of its parent; backups only if it has them.  *)
(* From a volume of a pool branch it is cloned, and joins the pool.              *)
WithOverridesFromParent(s, parent) ==
    LET adopted == parent.pooled /\ s.restore = "snapshot" IN
    [s EXCEPT !.image = parent.image, !.libs = parent.libs, !.user = parent.user,
              !.ext = parent.ext, !.vac = parent.vac, !.mem = parent.mem,
              !.backup = IF parent.backup.method = "off" THEN NoBackup ELSE @,
              !.restore = IF adopted THEN "clone" ELSE @,
              !.cluster = IF adopted THEN "none" ELSE @,
              !.pooled = adopted]

(* Clusters of a pool are prepared for pgbackrest only. *)
WithClusterFromPool(s) ==
    [s EXCEPT !.cluster = "pool", !.pooled = TRUE,
              !.backup = IF s.backup.method = "pgbackrest" THEN @ ELSE NoBackup]

WithHibernation(s, h) ==
    CASE h = "keep" -> s
      [] h = "on" /\ s.pooled -> [s EXCEPT !.hibernated = FALSE, !.cluster = "none"]
      [] h = "on" /\ ~s.pooled -> [s EXCEPT !.hibernated = TRUE]
      [] OTHER -> [s EXCEPT !.hibernated = FALSE]

WithUpdatesFrom(s, u) ==
    LET t == WithHibernation(s, u.hibernate) IN
    WithStorageQoSClass(
        [t EXCEPT !.image = IF u.image = "keep" THEN @ ELSE u.image,
                  !.mem = IF u.mem = 0 THEN @ ELSE ResourceRequirements(u.mem),
                  !.user = IF u.user = "keep" THEN @ ELSE u.user,
                  !.ext = IF u.ext = "keep" THEN @ ELSE u.ext,
                  !.libs = IF u.libs = NoLibs THEN @ ELSE u.libs,
                  !.backup = IF ~u.backup THEN @
                             ELSE IF @.method = "off" THEN BackupSpec("pgbackrest")
                             ELSE [@ EXCEPT !.touched = TRUE]],
        u.qos)

-----------------------------------------------------------------------------
(* The cluster of a Branch. *)

(* backupConfiguration and clusterPlugins: where the cluster archives to. *)
ArchivesTo(id) ==
    LET b == specs[id].backup IN
    [method |-> b.method, store |-> b.store,
     path |-> IF b.path = NoPath THEN [kind |-> "name", of |-> id] ELSE b.path]

(* ExternalClusters: where a restored cluster is recovered from.  The path of   *)
(* the Branch itself comes first, and the name of the source second.            *)
RecoversFrom(id) ==
    LET s == specs[id]
        source == [kind |-> "name", of |-> s.source] IN
    IF s.backup.method = "pgbackrest"
    THEN [method |-> "pgbackrest", store |-> s.backup.store,
          path |-> IF s.backup.path = NoPath THEN source ELSE s.backup.path]
    ELSE [method |-> "barman", store |-> "none", path |-> source]

(* DescribePostgresCluster: the memory that a client sees. *)
DescribedMemory(id) == specs[id].mem + Reservation

-----------------------------------------------------------------------------
(* Requests. *)

Op == ops < MaxOps /\ ops' = ops + 1

(* The cell starts with a configuration; whether backups are encrypted and       *)
(* storage classes are used may change, its provider does not.                   *)
Configure(c) ==
    /\ c # cell
    /\ cell.provider \in {"none", c.provider}
    /\ Op
    /\ cell' = c
    /\ UNCHANGED <<specs, asked>>

Store(id, s, mem) ==
    /\ specs' = [specs EXCEPT ![id] = s]
    /\ asked' = [asked EXCEPT ![id] = mem]
    /\ Op
    /\ UNCHANGED cell

(* Identifiers are generated and not used again; which one it is does not matter. *)
New(id) ==
    /\ cell # NoCell
    /\ specs[id] = NoSpecYet
    /\ id = CHOOSE i \in Ids : specs[i] = NoSpecYet

(* A root branch, on a cluster of a pool when there is one. *)
CreateRoot(id, r) ==
    LET s == Built(id, FromCreateClusterRequest(r), r.qos) IN
    /\ New(id)
    /\ \/ Store(id, s, r.mem)
       \/ r.pool /\ Store(id, WithClusterFromPool(s), r.mem)

Inherited == [NoSpecYet EXCEPT !.there = TRUE, !.cluster = "own"]

(* A child branch; only a method of backups is asked for, the rest is inherited. *)
CreateChild(id, p, method) ==
    /\ New(id) /\ specs[p].there
    /\ Store(id,
             Built(id, WithOverridesFromParent(
                     [Inherited EXCEPT !.restore = "snapshot", !.source = p,
                                       !.backup = BackupSpec(method)], specs[p]), "keep"),
             asked[p])

(* A branch restored from the backups of another one, which it also inherits     *)
(* from.  A recovery window is checked for, with barman that of the source.      *)
RestoreFromBackup(id, p, method) ==
    LET s == Built(id, WithOverridesFromParent(
                     [Inherited EXCEPT !.restore = "store", !.source = p,
                                       !.backup = BackupSpec(method)], specs[p]), "keep") IN
    /\ New(id) /\ specs[p].there
    /\ specs[p].backup.method # "off"
    /\ s.backup.method = "pgbackrest" \/ specs[p].backup.method = "barman"
    /\ Store(id, s, asked[p])

(* Mutant of UpdatePostgresCluster: mandatory settings first, then the update. *)
UpdateAfterMandatory(id, u) ==
    /\ specs[id].there
    /\ ~(u.backup /\ specs[id].backup.method = "off")
    /\ Store(id, WithUpdatesFrom(WithMandatoryPostgresParameters(
                    WithXataUtilsPreloadLibrary(specs[id])), u),
             IF u.mem = 0 THEN asked[id] ELSE u.mem)

(* Mutant of UpdatePostgresCluster: an update may enable backups. *)
UpdateEnablingBackups(id, u) ==
    /\ specs[id].there
    /\ Store(id, WithMandatoryPostgresParameters(WithXataUtilsPreloadLibrary(
                    WithUpdatesFrom(specs[id], u))),
             IF u.mem = 0 THEN asked[id] ELSE u.mem)

(* An update cannot enable backups. *)
UpdatePostgresCluster(id, u) ==
    /\ specs[id].there
    /\ ~(u.backup /\ specs[id].backup.method = "off")
    /\ Store(id, WithMandatoryPostgresParameters(WithXataUtilsPreloadLibrary(
                    WithUpdatesFrom(specs[id], u))),
             IF u.mem = 0 THEN asked[id] ELSE u.mem)

DeletePostgresCluster(id) ==
    /\ specs[id].there
    /\ Store(id, [NoSpecYet EXCEPT !.cluster = "deleted"], 0)

SpecNext ==
    \/ \E c \in Cells : Configure(c)
    \/ \E id \in Ids :
         \/ \E r \in SpecRequests : CreateRoot(id, r)
         \/ \E p \in Ids, method \in Methods : CreateChild(id, p, method)
         \/ \E p \in Ids, method \in Methods : RestoreFromBackup(id, p, method)
         \/ \E u \in Updates : UpdatePostgresCluster(id, u)
         \/ DeletePostgresCluster(id)

SpecsSpec == SpecInit /\ [][SpecNext]_specVars

-----------------------------------------------------------------------------
(* Properties. *)

(* After any sequence of requests a branch has the settings its user cannot      *)
(* change: xatautils is loaded first and once, and the privileged extensions     *)
(* are those of the image it runs, inherited, updated or both.  It is described  *)
(* with the memory that was asked for it, or for the branch it inherits from:    *)
(* resourceRequirements sets memory aside for the pooler once, however often a   *)
(* configuration is handed on.                                                   *)
SettingsHold ==
    \A id \in Ids : specs[id].there =>
        LET s == specs[id] IN
        /\ s.ext = s.image
        /\ s.libs.first = "xatautils" /\ "xatautils" \notin s.libs.rest
        /\ DescribedMemory(id) = asked[id]

(* No two branches archive to the same place of a store, and a branch restored   *)
(* with pgbackrest has the passphrase of its source's repository exactly when    *)
(* that is encrypted, also when the configuration of the cell has changed since  *)
(* the source was created.  A branch on clusters of a pool has pgbackrest        *)
(* backups or none, whatever it inherits.                                        *)
BackupsAreApart ==
    LET PgBackRest(id) == specs[id].there /\ specs[id].backup.method = "pgbackrest" IN
    \A i \in Ids :
        /\ \A j \in Ids \ {i} :
              PgBackRest(i) /\ PgBackRest(j) => ArchivesTo(i) # ArchivesTo(j)
        /\ (/\ specs[i].restore = "store" /\ PgBackRest(i)
            /\ specs[specs[i].source].backup.method = "pgbackrest")
               => specs[i].sealed = specs[specs[i].source].backup.cipher
        /\ specs[i].cluster = "pool" => specs[i].backup.method # "barman"

(* While a branch exists its backups stay what they are: an update changes       *)
(* neither the method nor the place nor the encryption, and enables nothing.     *)
BackupsStayPut ==
    [][\A id \in Ids :
         (specs[id].there /\ specs'[id].there) =>
            \A f \in {"method", "store", "path", "cipher"} :
                specs'[id].backup[f] = specs[id].backup[f]]_specVars

(* A restored cluster is recovered from where its source archives, as the        *)
(* comment on ExternalClusters says.                                             *)
RestoreReadsSource ==
    \A id \in Ids :
        (/\ specs[id].there /\ specs[id].restore = "store"
         /\ specs[specs[id].source].there)
            => RecoversFrom(id) = ArchivesTo(specs[id].source)
=============================================================================
