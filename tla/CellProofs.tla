------------------------------ MODULE CellProofs ------------------------------
(*****************************************************************************)
(* What runs in a cell.  The specifications that the clusters service writes *)
(* (BranchSpecs), and the creation of a branch by calls that may be repeated or*)
(* overlap (ClusterCreate), for any requests, cells and attempts.  The SQL   *)
(* gateway: the timedWaitGroup neither miscounts nor loses a completion, for any*)
(* finite set of connections and any draining timeout (GatewayDrain); and the*)
(* calls on the IP filtering ConfigMap implement FilterTable, for any number of*)
(* handlers, branches, configurations, attempts and faults (FilterConfigMap).*)
(*****************************************************************************)
EXTENDS BranchSpecs, ClusterCreate, GatewayDrain, FilterConfigMap, Integers,
        FiniteSetTheorems, TLAPS

-----------------------------------------------------------------------------
(* The Branch objects *)

Path == [kind : {"none", "name", "claim"}, of : Ids \cup {NoId}]

Backup == [method : Methods, store : {"none", "gcs", "azure", "s3"}, path : Path,
           cipher : BOOLEAN, touched : BOOLEAN]

SpecOf == [there : BOOLEAN, image : Images \cup {"keep"}, mem : Int, libs : Preload,
           vac : {"none", "micro", "large"}, user : {"keep", "u1"},
           ext : Images \cup {"keep", "u1"}, restore : {"none", "snapshot", "store", "clone"},
           source : Ids \cup {NoId}, sealed : BOOLEAN, backup : Backup,
           cluster : {"none", "own", "pool", "deleted"}, pooled : BOOLEAN, hibernated : BOOLEAN]

PathsOf(id) == {NoPath, [kind |-> "name", of |-> id], [kind |-> "claim", of |-> id]}

(* The settings of the branch id with the specification s, described with mem. *)
Sound(id, s, mem) ==
    /\ s.there => /\ s.ext = s.image
                  /\ s.libs.first = "xatautils" /\ "xatautils" \notin s.libs.rest
                  /\ s.mem + Reservation = mem
    /\ ~s.there => s.backup.method = "off" /\ s.restore = "none"
    /\ s.backup.method = "pgbackrest" => s.backup.path \in PathsOf(id)
    /\ s.cluster = "pool" => s.backup.method # "barman"
    /\ s.restore = "store" => s.source \in Ids \ {id}

(* A restored branch has the passphrase of its source. *)
Matches(s, source) ==
    /\ source # NoSpecYet
    /\ s.backup.method = "pgbackrest" /\ source.backup.method = "pgbackrest" =>
          s.sealed = source.backup.cipher

SpecsInv ==
    /\ specs \in [Ids -> SpecOf] /\ asked \in [Ids -> Int]
    /\ \A i \in Ids : /\ Sound(i, specs[i], asked[i])
                      /\ specs[i].restore = "store" => Matches(specs[i], specs[specs[i].source])

LEMMA NoSpecYetIs ==
    /\ NoSpecYet \in SpecOf /\ ~NoSpecYet.there /\ NoSpecYet.restore = "none"
    /\ NoSpecYet.backup = NoBackup /\ NoBackup \in Backup /\ NoBackup.method = "off"
    /\ NoSpecYet.cluster = "none"
<1>1. NoPath \in Path
  BY DEF NoPath, Path
<1>2. NoBackup \in Backup /\ NoBackup.method = "off"
  BY <1>1 DEF NoBackup, Backup, Methods
<1>3. NoLibs \in Preload
  BY DEF NoLibs, Preload
<1> QED
  BY <1>2, <1>3 DEF NoSpecYet, SpecOf

LEMMA SpecsInvInit == SpecInit => SpecsInv
  BY NoSpecYetIs DEF SpecInit, SpecsInv, Sound

-----------------------------------------------------------------------------
(* What each method of the builder leaves alone. *)

LEMMA BackupSpecIs ==
    ASSUME NEW method \in Methods
    PROVE  BackupSpec(method) \in Backup /\ BackupSpec(method).method = method
  BY NoSpecYetIs DEF BackupSpec, Backup

LEMMA StorageQoSIs ==
    ASSUME NEW s \in SpecOf, NEW class \in {"keep", "micro", "large"}, NEW t,
           t = WithStorageQoSClass(s, class)
    PROVE  /\ t \in SpecOf
           /\ \A f \in {"there", "image", "mem", "libs", "ext", "restore", "source", "sealed", "backup",
                        "cluster", "pooled"} : t[f] = s[f]
<1>1. CASE t = s
  BY <1>1
<1>2. CASE t = [s EXCEPT !.vac = class] /\ class # "keep"
  BY <1>2 DEF SpecOf
<1> QED
  BY <1>1, <1>2 DEF WithStorageQoSClass

LEMMA PgBackRestIs ==
    ASSUME NEW id \in Ids, NEW s \in SpecOf, NEW t, t = WithPgBackRest(id, s)
    PROVE  /\ t \in SpecOf
           /\ \A f \in {"there", "image", "mem", "libs", "ext", "restore", "source", "sealed",
                        "cluster", "pooled"} : t[f] = s[f]
           /\ t.backup.method = s.backup.method
           /\ t.backup.method = "pgbackrest" => t.backup.path \in PathsOf(id)
<1>1. CASE s.backup.method # "pgbackrest"
  BY <1>1 DEF WithPgBackRest
<1>2. CASE s.backup.method = "pgbackrest"
  <2>1. PICK store : store = CASE cell.provider = "gcp" -> "gcs" [] cell.provider = "azure" -> "azure"
                               [] OTHER -> "s3"
    OBVIOUS
  <2>2. PICK path : path = CASE cell.provider = "gcp" -> [kind |-> "name", of |-> id]
                              [] cell.provider = "aws" -> [kind |-> "claim", of |-> id]
                              [] OTHER -> NoPath
    BY Zenon
  <2>3. store \in {"gcs", "azure", "s3"} /\ path \in PathsOf(id)
    BY <2>1, <2>2 DEF PathsOf
  <2>4. path \in Path
    BY <2>3 DEF PathsOf, Path, NoPath
  <2>5. PICK b : b = [s.backup EXCEPT !.store = store, !.path = path]
    OBVIOUS
  <2>6. b \in Backup /\ b.method = s.backup.method /\ b.path = path
    BY Zenon, <2>3, <2>4, <2>5 DEF Backup, SpecOf
  <2>7. t = [s EXCEPT !.backup.store = store, !.backup.path = path]
    BY <1>2, <2>1, <2>2 DEF WithPgBackRest
  <2>8. t = [s EXCEPT !.backup = b]
    BY Zenon, <2>5, <2>7 DEF SpecOf
  <2> QED
    BY <2>3, <2>6, <2>8 DEF SpecOf
<1> QED
  BY <1>1, <1>2

LEMMA CipherIs ==
    ASSUME NEW s \in SpecOf, NEW t, t = WithPgBackRestCipher(s)
    PROVE  /\ t \in SpecOf
           /\ \A f \in {"there", "image", "mem", "libs", "ext", "restore", "source", "sealed",
                        "cluster", "pooled"} : t[f] = s[f]
           /\ t.backup.method = s.backup.method /\ t.backup.path = s.backup.path
<1>1. CASE t = s
  BY <1>1
<1>2. CASE t = [s EXCEPT !.backup.cipher = TRUE]
  <2>1. PICK b : b = [s.backup EXCEPT !.cipher = TRUE]
    BY Zenon
  <2>2. b \in Backup /\ b.method = s.backup.method /\ b.path = s.backup.path
    BY Zenon, <2>1 DEF Backup, SpecOf
  <2>3. t = [s EXCEPT !.backup = b]
    BY <1>2, <2>1 DEF SpecOf
  <2> QED
    BY <2>2, <2>3 DEF SpecOf
<1> QED
  BY <1>1, <1>2 DEF WithPgBackRestCipher

LEMMA RestoreCipherIs ==
    ASSUME SpecsInv, NEW s \in SpecOf, NEW t, t = WithPgBackRestRestoreCipher(s),
           s.restore = "store" => s.source \in Ids
    PROVE  /\ t \in SpecOf
           /\ \A f \in {"there", "image", "mem", "libs", "ext", "restore", "source", "backup",
                        "cluster", "pooled"} : t[f] = s[f]
           /\ (/\ s.restore = "store" /\ s.backup.method = "pgbackrest"
               /\ specs[s.source].backup.method = "pgbackrest")
                 => t.sealed = specs[s.source].backup.cipher
<1>1. CASE ~(/\ s.restore = "store" /\ s.backup.method = "pgbackrest"
             /\ specs[s.source].backup.method = "pgbackrest")
  <2>1. t = s
    BY <1>1 DEF WithPgBackRestRestoreCipher
  <2> QED
    BY <1>1, <2>1
<1>2. CASE /\ s.restore = "store" /\ s.backup.method = "pgbackrest"
           /\ specs[s.source].backup.method = "pgbackrest"
  <2>1. PICK sealed \in BOOLEAN : sealed = specs[s.source].backup.cipher
    BY <1>2 DEF SpecsInv, SpecOf, Backup
  <2>2. t = [s EXCEPT !.sealed = sealed]
    BY <1>2, <2>1 DEF WithPgBackRestRestoreCipher
  <2> QED
    BY <2>1, <2>2 DEF SpecOf
<1> QED
  BY <1>1, <1>2

LEMMA MandatoryIs ==
    ASSUME NEW s \in SpecOf, NEW t, t = WithMandatoryPostgresParameters(WithXataUtilsPreloadLibrary(s))
    PROVE  /\ t \in SpecOf
           /\ \A f \in {"there", "image", "mem", "restore", "source", "sealed", "backup", "cluster",
                        "pooled"} : t[f] = s[f]
           /\ t.ext = t.image /\ t.libs.first = "xatautils" /\ "xatautils" \notin t.libs.rest
<1>1. PICK libs : libs = [first |-> "xatautils", rest |-> (s.libs.rest \cup {s.libs.first}) \ {"xatautils", "none"}]
  BY Zenon
<1>2. libs \in Preload /\ libs.first = "xatautils" /\ "xatautils" \notin libs.rest
  BY <1>1 DEF Preload, SpecOf, Libraries
<1>3. PICK u : u = [s EXCEPT !.libs = libs]
  BY Zenon
<1>4. /\ u \in SpecOf /\ u.libs = libs
      /\ \A f \in {"there", "image", "mem", "restore", "source", "sealed", "backup", "cluster", "pooled"} :
            u[f] = s[f]
  BY <1>2, <1>3 DEF SpecOf
<1>5. u = WithXataUtilsPreloadLibrary(s)
  BY <1>1, <1>3 DEF WithXataUtilsPreloadLibrary
<1>6. t = [u EXCEPT !.ext = u.image]
  BY <1>5 DEF WithMandatoryPostgresParameters
<1> QED
  BY <1>2, <1>4, <1>6 DEF SpecOf

LEMMA BuiltIs ==
    ASSUME SpecsInv, NEW id \in Ids, NEW s \in SpecOf, NEW class \in {"keep", "micro", "large"}, NEW t,
           t = Built(id, s, class), s.restore = "store" => s.source \in Ids
    PROVE  /\ t \in SpecOf
           /\ \A f \in {"there", "image", "mem", "restore", "source", "cluster", "pooled"} : t[f] = s[f]
           /\ t.ext = t.image /\ t.libs.first = "xatautils" /\ "xatautils" \notin t.libs.rest
           /\ t.backup.method = s.backup.method
           /\ t.backup.method = "pgbackrest" => t.backup.path \in PathsOf(id)
           /\ (/\ t.restore = "store" /\ t.backup.method = "pgbackrest"
               /\ specs[t.source].backup.method = "pgbackrest")
                 => t.sealed = specs[t.source].backup.cipher
<1>1. PICK s1 : s1 = WithStorageQoSClass(s, class)
  OBVIOUS
<1>2. PICK s2 : s2 = WithPgBackRest(id, s1)
  OBVIOUS
<1>3. PICK s3 : s3 = WithPgBackRestCipher(s2)
  OBVIOUS
<1>4. PICK s4 : s4 = WithPgBackRestRestoreCipher(s3)
  OBVIOUS
<1>5. t = WithMandatoryPostgresParameters(WithXataUtilsPreloadLibrary(s4))
  BY <1>1, <1>2, <1>3, <1>4 DEF Built
<1>6. /\ s1 \in SpecOf /\ s1.backup = s.backup
      /\ \A f \in {"there", "image", "mem", "restore", "source", "cluster", "pooled"} : s1[f] = s[f]
  BY <1>1, StorageQoSIs
<1>7. /\ s2 \in SpecOf /\ s2.backup.method = s1.backup.method
      /\ \A f \in {"there", "image", "mem", "restore", "source", "cluster", "pooled"} : s2[f] = s1[f]
      /\ s2.backup.method = "pgbackrest" => s2.backup.path \in PathsOf(id)
  BY <1>2, <1>6, PgBackRestIs
<1>8. /\ s3 \in SpecOf /\ s3.backup.method = s2.backup.method /\ s3.backup.path = s2.backup.path
      /\ \A f \in {"there", "image", "mem", "restore", "source", "cluster", "pooled"} : s3[f] = s2[f]
  BY <1>3, <1>7, CipherIs
<1>9. s3.restore = "store" => s3.source \in Ids
  BY <1>6, <1>7, <1>8
<1>10. /\ s4 \in SpecOf /\ s4.backup = s3.backup
       /\ \A f \in {"there", "image", "mem", "restore", "source", "cluster", "pooled"} : s4[f] = s3[f]
       /\ (/\ s3.restore = "store" /\ s3.backup.method = "pgbackrest"
           /\ specs[s3.source].backup.method = "pgbackrest")
             => s4.sealed = specs[s3.source].backup.cipher
  BY <1>4, <1>8, <1>9, RestoreCipherIs
<1>11. /\ t \in SpecOf /\ t.backup = s4.backup /\ t.sealed = s4.sealed
       /\ \A f \in {"there", "image", "mem", "restore", "source", "cluster", "pooled"} : t[f] = s4[f]
       /\ t.ext = t.image /\ t.libs.first = "xatautils" /\ "xatautils" \notin t.libs.rest
  BY <1>5, <1>10, MandatoryIs
<1> QED
  BY SMTT(30), <1>6, <1>7, <1>8, <1>10, <1>11

-----------------------------------------------------------------------------
(* A Branch is stored. *)
LEMMA StoreInv ==
    ASSUME SpecsInv, NEW id \in Ids, NEW t \in SpecOf, NEW mem \in Int, Store(id, t, mem),
           t # NoSpecYet, Sound(id, t, mem), t.restore = "store" => Matches(t, specs[t.source]),
           t.backup.method = "pgbackrest" /\ specs[id] # NoSpecYet =>
              specs[id].backup.method = "pgbackrest" /\ t.backup.cipher = specs[id].backup.cipher
    PROVE  SpecsInv'
<1>1. /\ specs' \in [Ids -> SpecOf] /\ asked' \in [Ids -> Int] /\ specs'[id] = t /\ asked'[id] = mem
      /\ \A i \in Ids : i # id => specs'[i] = specs[i] /\ asked'[i] = asked[i]
  BY DEF Store, SpecsInv
<1>2. \A i \in Ids : Sound(i, specs'[i], asked'[i])
  BY Zenon, <1>1 DEF SpecsInv
<1>3. ASSUME NEW i \in Ids, specs'[i].restore = "store" PROVE Matches(specs'[i], specs'[specs'[i].source])
  <2>1. PICK j \in Ids \ {i} : j = specs'[i].source
    BY Zenon, <1>2, <1>3 DEF Sound
  <2>2. CASE i = id
    BY Zenon, <1>1, <1>3, <2>1, <2>2
  <2>3. CASE i # id
    <3>1. Matches(specs[i], specs[j]) /\ specs'[i] = specs[i]
      BY Zenon, <1>1, <1>3, <2>1, <2>3 DEF SpecsInv
    <3>2. CASE j # id
      BY Zenon, <1>1, <2>1, <3>1, <3>2
    <3>3. CASE j = id
      BY Zenon, <1>1, <2>1, <3>1, <3>3 DEF Matches
    <3> QED
      BY <3>2, <3>3
  <2> QED
    BY Zenon, <2>2, <2>3
<1>4. \A i \in Ids : Sound(i, specs[i], asked[i])'
  BY Zenon, <1>2 DEF Sound, PathsOf, NoPath, Reservation
<1>5. \A i \in Ids : (specs[i].restore = "store" => Matches(specs[i], specs[specs[i].source]))'
  BY Zenon, <1>3 DEF Matches, NoSpecYet, NoLibs, NoBackup, NoPath
<1> QED
  BY Zenon, <1>1, <1>4, <1>5 DEF SpecsInv

(* A new one. *)
LEMMA StoreNewInv ==
    ASSUME SpecsInv, NEW id \in Ids, NEW t \in SpecOf, NEW mem \in Int, New(id), Store(id, t, mem), t.there,
           Sound(id, t, mem), t.restore = "store" => Matches(t, specs[t.source])
    PROVE  SpecsInv'
<1>1. t # NoSpecYet /\ specs[id] = NoSpecYet
  BY NoSpecYetIs DEF New
<1> QED
  BY Zenon, <1>1, StoreInv

LEMMA CreateRootInv ==
    ASSUME SpecsInv, NEW id \in Ids, NEW r \in SpecRequests, CreateRoot(id, r) PROVE SpecsInv'
<1>1. r \in Request /\ r.mem > 1
  BY SpecsAssumption
<1>2. PICK s : s = FromCreateClusterRequest(r)
  OBVIOUS
<1>3. PICK b : b = BackupSpec(r.method)
  OBVIOUS
<1>4. b \in Backup /\ b.method = r.method
  BY <1>1, <1>3, BackupSpecIs DEF Request
<1>5. /\ s \in SpecOf /\ s.there /\ s.restore = "none" /\ s.mem + Reservation = r.mem /\ s.backup = b
      /\ s.cluster = "own"
  <2>1. PICK mem \in Int : mem = ResourceRequirements(r.mem)
    BY <1>1 DEF ResourceRequirements, Reservation, Request
  <2>2. mem + Reservation = r.mem /\ r.image \in Images /\ r.libs \in Preload
    BY <1>1, <2>1 DEF ResourceRequirements, Reservation, Request
  <2>3. s = [NoSpecYet EXCEPT !.there = TRUE, !.image = r.image, !.libs = r.libs, !.mem = mem,
                              !.backup = b, !.cluster = "own"]
    BY <1>2, <1>3, <2>1 DEF FromCreateClusterRequest
  <2> QED
    BY Zenon, <1>4, <2>2, <2>3, NoSpecYetIs DEF SpecOf
<1>6. PICK t : t = Built(id, s, r.qos)
  OBVIOUS
<1>7. /\ t \in SpecOf /\ t.there /\ t.restore = "none" /\ t.mem + Reservation = r.mem /\ t.cluster = "own"
      /\ t.ext = t.image /\ t.libs.first = "xatautils" /\ "xatautils" \notin t.libs.rest
      /\ t.backup.method = "pgbackrest" => t.backup.path \in PathsOf(id)
  BY SMTT(30), <1>1, <1>5, <1>6, BuiltIs DEF Request
<1>8. CASE Store(id, t, r.mem)
  <2>1. Sound(id, t, r.mem)
    BY Zenon, <1>7 DEF Sound
  <2> QED
    BY SMTT(30), <1>1, <1>7, <1>8, <2>1, StoreNewInv DEF CreateRoot, Request
<1>9. CASE Store(id, WithClusterFromPool(t), r.mem)
  <2>1. PICK u : u = WithClusterFromPool(t)
    OBVIOUS
  <2>2. PICK c : c = IF t.backup.method = "pgbackrest" THEN t.backup ELSE NoBackup
    OBVIOUS
  <2>3. /\ c \in Backup /\ c.method # "barman" /\ (c.method = "pgbackrest" => c.path \in PathsOf(id))
    BY <1>7, <2>2, NoSpecYetIs DEF SpecOf
  <2>4. u = [t EXCEPT !.cluster = "pool", !.pooled = TRUE, !.backup = c]
    BY <2>1, <2>2 DEF WithClusterFromPool
  <2>5. /\ u \in SpecOf /\ u.there /\ u.restore = "none" /\ u.mem = t.mem /\ u.backup = c
        /\ u.ext = t.ext /\ u.image = t.image /\ u.libs = t.libs
    BY Zenon, <1>7, <2>3, <2>4 DEF SpecOf
  <2>6. Sound(id, u, r.mem)
    BY Zenon, <1>7, <2>3, <2>5 DEF Sound
  <2> QED
    BY SMTT(30), <1>1, <1>9, <2>1, <2>5, <2>6, StoreNewInv DEF CreateRoot, Request
<1> QED
  BY <1>2, <1>6, <1>8, <1>9 DEF CreateRoot

(* What a child inherits. *)
LEMMA OverridesIs ==
    ASSUME NEW s \in SpecOf, NEW from \in SpecOf, NEW t, t = WithOverridesFromParent(s, from),
           s.cluster = "own"
    PROVE  /\ t \in SpecOf /\ t.there = s.there /\ t.mem = from.mem /\ t.source = s.source
           /\ t.restore = "store" <=> s.restore = "store"
           /\ t.cluster # "pool"
<1>1. PICK b : b = IF from.backup.method = "off" THEN NoBackup ELSE s.backup
  OBVIOUS
<1>2. b \in Backup
  BY <1>1, NoSpecYetIs DEF SpecOf
<1>3. PICK adopted \in BOOLEAN : adopted = (from.pooled /\ s.restore = "snapshot")
  BY Zenon
<1>4. PICK restore : restore = IF adopted THEN "clone" ELSE s.restore
  OBVIOUS
<1>5. PICK placed : placed = IF adopted THEN "none" ELSE s.cluster
  OBVIOUS
<1>6. t = [s EXCEPT !.image = from.image, !.libs = from.libs, !.user = from.user,
                    !.ext = from.ext, !.vac = from.vac, !.mem = from.mem,
                    !.backup = b, !.restore = restore, !.cluster = placed, !.pooled = adopted]
  BY Zenon, <1>1, <1>3, <1>4, <1>5 DEF WithOverridesFromParent
<1>7. /\ restore \in {"none", "snapshot", "store", "clone"} /\ placed \in {"none", "own"}
      /\ restore = "store" <=> s.restore = "store"
  BY Zenon, <1>3, <1>4, <1>5 DEF SpecOf
<1>8. t \in SpecOf
  <2>1. PICK t1 : t1 = [s EXCEPT !.image = from.image, !.libs = from.libs, !.user = from.user]
    OBVIOUS
  <2>2. t1 \in SpecOf
    BY Zenon, <2>1 DEF SpecOf
  <2>3. PICK t2 : t2 = [t1 EXCEPT !.ext = from.ext, !.vac = from.vac, !.mem = from.mem]
    OBVIOUS
  <2>4. t2 \in SpecOf
    BY ZenonT(60), <2>2, <2>3 DEF SpecOf
  <2>5. PICK t3 : t3 = [t2 EXCEPT !.backup = b, !.restore = restore, !.cluster = placed, !.pooled = adopted]
    OBVIOUS
  <2>6. t3 \in SpecOf
    <3>1. PICK t4 : t4 = [t2 EXCEPT !.backup = b, !.restore = restore]
      OBVIOUS
    <3>2. restore \in {"none", "snapshot", "store", "clone"}
      BY <1>7
    <3>3. t4 \in SpecOf
      BY ZenonT(60), <1>2, <2>4, <3>1, <3>2 DEF SpecOf
    <3>4. placed \in {"none", "own", "pool", "deleted"} /\ adopted \in BOOLEAN
      BY <1>3, <1>7
    <3>5. t3 = [t4 EXCEPT !.cluster = placed, !.pooled = adopted]
      BY <2>5, <3>1
    <3> QED
      BY Zenon, <3>3, <3>4, <3>5 DEF SpecOf
  <2>7. t3 = t
    BY <1>6, <2>1, <2>3, <2>5
  <2> QED
    BY <2>6, <2>7
<1>9. t.there = s.there /\ t.mem = from.mem /\ t.source = s.source /\ t.restore = restore /\ t.cluster = placed
  BY <1>6 DEF SpecOf
<1> QED
  BY <1>7, <1>8, <1>9

LEMMA ChildIs ==
    ASSUME SpecsInv, NEW id \in Ids, NEW p \in Ids, NEW method \in Methods, New(id), specs[p].there,
           NEW restore \in {"snapshot", "store"}, NEW t,
           t = Built(id, WithOverridesFromParent(
                  [Inherited EXCEPT !.restore = restore, !.source = p,
                                    !.backup = BackupSpec(method)], specs[p]), "keep"),
           Store(id, t, asked[p])
    PROVE  SpecsInv'
<1>1. p # id /\ specs[p] # NoSpecYet /\ specs[p] \in SpecOf /\ asked[p] \in Int
  BY NoSpecYetIs DEF New, SpecsInv
<1>2. PICK b : b = BackupSpec(method)
  OBVIOUS
<1>3. b \in Backup
  BY <1>2, BackupSpecIs
<1>4. PICK s : s = [Inherited EXCEPT !.restore = restore, !.source = p, !.backup = b]
  OBVIOUS
<1>5. Inherited \in SpecOf /\ Inherited.there /\ Inherited.cluster = "own"
  BY Zenon, NoSpecYetIs DEF Inherited, SpecOf
<1>6. s \in SpecOf /\ s.there /\ s.restore = restore /\ s.source = p /\ s.cluster = "own"
  BY Zenon, <1>3, <1>4, <1>5 DEF SpecOf
<1>7. PICK u : u = WithOverridesFromParent(s, specs[p])
  OBVIOUS
<1>8. /\ u \in SpecOf /\ u.there /\ u.mem = specs[p].mem /\ u.source = p /\ u.cluster # "pool"
  BY <1>1, <1>6, <1>7, OverridesIs
<1>9. t = Built(id, u, "keep")
  BY <1>2, <1>4, <1>7
<1>10. /\ t \in SpecOf /\ t.there /\ t.mem = specs[p].mem /\ t.source = p /\ t.cluster # "pool"
       /\ t.ext = t.image /\ t.libs.first = "xatautils" /\ "xatautils" \notin t.libs.rest
       /\ t.backup.method = "pgbackrest" => t.backup.path \in PathsOf(id)
       /\ (/\ t.restore = "store" /\ t.backup.method = "pgbackrest"
           /\ specs[p].backup.method = "pgbackrest") => t.sealed = specs[p].backup.cipher
  BY <1>8, <1>9, BuiltIs
<1>11. specs[p].mem + Reservation = asked[p]
  BY DEF SpecsInv, Sound
<1>12. Sound(id, t, asked[p])
  BY <1>1, <1>10, <1>11 DEF Sound
<1>13. t.restore = "store" => Matches(t, specs[t.source])
  BY <1>1, <1>10 DEF Matches
<1> QED
  BY <1>1, <1>10, <1>12, <1>13, StoreNewInv

(* An update does not touch what the backups and their encryption depend on. *)
LEMMA UpdatesIs ==
    ASSUME NEW s \in SpecOf, NEW u \in Updates, NEW t, t = WithUpdatesFrom(s, u),
           ~(u.backup /\ s.backup.method = "off")
    PROVE  /\ t \in SpecOf
           /\ \A f \in {"there", "restore", "source", "sealed"} : t[f] = s[f]
           /\ \A f \in {"method", "store", "path", "cipher"} : t.backup[f] = s.backup[f]
           /\ t.cluster \in {s.cluster, "none"}
           /\ t.mem = IF u.mem = 0 THEN s.mem ELSE u.mem - Reservation
<1>1. u \in Update
  BY SpecsAssumption
<1>2. PICK h : h = WithHibernation(s, u.hibernate)
  OBVIOUS
<1>3. /\ h \in SpecOf /\ h.cluster \in {s.cluster, "none"}
      /\ \A f \in {"there", "image", "mem", "libs", "user", "ext", "restore", "source", "sealed", "backup"} :
            h[f] = s[f]
  <2>1. \/ h = s
        \/ h = [s EXCEPT !.hibernated = FALSE, !.cluster = "none"]
        \/ h = [s EXCEPT !.hibernated = TRUE]
        \/ h = [s EXCEPT !.hibernated = FALSE]
    BY <1>2 DEF WithHibernation, SpecOf
  <2>2. CASE h = s
    BY <2>2
  <2>3. CASE h = [s EXCEPT !.hibernated = FALSE, !.cluster = "none"]
    BY Zenon, <2>3 DEF SpecOf
  <2>4. CASE h = [s EXCEPT !.hibernated = TRUE]
    BY Zenon, <2>4 DEF SpecOf
  <2>5. CASE h = [s EXCEPT !.hibernated = FALSE]
    BY Zenon, <2>5 DEF SpecOf
  <2> QED
    BY <2>1, <2>2, <2>3, <2>4, <2>5
<1>4. PICK b : b = IF ~u.backup THEN h.backup ELSE [h.backup EXCEPT !.touched = TRUE]
  BY Zenon
<1>5. b \in Backup /\ \A f \in {"method", "store", "path", "cipher"} : b[f] = s.backup[f]
  BY Zenon, <1>3, <1>4 DEF SpecOf, Backup
<1>6. PICK image : image = IF u.image = "keep" THEN h.image ELSE u.image
  OBVIOUS
<1>7. PICK mem : mem = IF u.mem = 0 THEN h.mem ELSE ResourceRequirements(u.mem)
  OBVIOUS
<1>8. PICK user : user = IF u.user = "keep" THEN h.user ELSE u.user
  OBVIOUS
<1>9. PICK ext : ext = IF u.ext = "keep" THEN h.ext ELSE u.ext
  OBVIOUS
<1>10. PICK libs : libs = IF u.libs = NoLibs THEN h.libs ELSE u.libs
  OBVIOUS
<1>11. PICK k : k = [h EXCEPT !.image = image, !.mem = mem, !.user = user, !.ext = ext, !.libs = libs, !.backup = b]
  OBVIOUS
<1>12. t = WithStorageQoSClass(k, u.qos)
  BY ZenonT(60), <1>2, <1>3, <1>4, <1>6, <1>7, <1>8, <1>9, <1>10, <1>11 DEF WithUpdatesFrom
<1>13. /\ image \in Images \cup {"keep"} /\ mem \in Int /\ user \in {"keep", "u1"}
       /\ ext \in Images \cup {"keep", "u1"} /\ libs \in Preload
       /\ mem = IF u.mem = 0 THEN s.mem ELSE u.mem - Reservation
  BY SMTT(30), <1>1, <1>3, <1>6, <1>7, <1>8, <1>9, <1>10 DEF SpecOf, Update, ResourceRequirements, Reservation
<1>14. /\ k \in SpecOf /\ k.mem = mem /\ k.backup = b /\ k.cluster = h.cluster
       /\ \A f \in {"there", "restore", "source", "sealed"} : k[f] = h[f]
  <2>1. h \in SpecOf /\ b \in Backup
    BY <1>3, <1>5
  <2>2. k \in SpecOf
    <3>1. PICK k1 : k1 = [h EXCEPT !.image = image, !.mem = mem, !.user = user]
      OBVIOUS
    <3>2. k1 \in SpecOf
      <4>1. image \in Images \cup {"keep"} /\ mem \in Int /\ user \in {"keep", "u1"}
        BY <1>13
      <4> QED
        BY ZenonT(60), <2>1, <3>1, <4>1 DEF SpecOf
    <3>3. PICK k2 : k2 = [k1 EXCEPT !.ext = ext, !.libs = libs, !.backup = b]
      OBVIOUS
    <3>4. k2 \in SpecOf
      BY Zenon, <1>13, <2>1, <3>2, <3>3 DEF SpecOf
    <3>5. k2 = k
      BY <1>11, <3>1, <3>3
    <3> QED
      BY <3>4, <3>5
  <2> QED
    BY <1>11, <2>1, <2>2 DEF SpecOf
<1>15. /\ t \in SpecOf
       /\ \A f \in {"there", "mem", "restore", "source", "sealed", "backup", "cluster"} : t[f] = k[f]
  BY <1>1, <1>12, <1>14, StorageQoSIs DEF Update
<1> QED
  BY <1>3, <1>5, <1>13, <1>14, <1>15

LEMMA UpdateIs ==
    ASSUME SpecsInv, NEW id \in Ids, NEW u \in Updates, UpdatePostgresCluster(id, u)
    PROVE  \E t \in SpecOf, mem \in Int :
              /\ Store(id, t, mem) /\ t.there /\ Sound(id, t, mem)
              /\ t.restore = specs[id].restore /\ t.source = specs[id].source /\ t.sealed = specs[id].sealed
              /\ \A f \in {"method", "store", "path", "cipher"} : t.backup[f] = specs[id].backup[f]
<1>1. PICK s \in SpecOf : s = specs[id]
  BY DEF SpecsInv
<1>2. PICK k : k = WithUpdatesFrom(s, u)
  OBVIOUS
<1>3. PICK t : t = WithMandatoryPostgresParameters(WithXataUtilsPreloadLibrary(k))
  OBVIOUS
<1>4. PICK mem : mem = IF u.mem = 0 THEN asked[id] ELSE u.mem
  OBVIOUS
<1>5. s.there /\ ~(u.backup /\ s.backup.method = "off") /\ Store(id, t, mem)
  BY Zenon, <1>1, <1>2, <1>3, <1>4 DEF UpdatePostgresCluster
<1>6. /\ k \in SpecOf
      /\ \A f \in {"there", "restore", "source", "sealed"} : k[f] = s[f]
      /\ \A f \in {"method", "store", "path", "cipher"} : k.backup[f] = s.backup[f]
      /\ k.cluster \in {s.cluster, "none"}
      /\ k.mem = IF u.mem = 0 THEN s.mem ELSE u.mem - Reservation
  BY SMTT(30), <1>2, <1>5, UpdatesIs
<1>7. /\ t \in SpecOf
      /\ \A f \in {"there", "mem", "restore", "source", "sealed", "backup", "cluster"} : t[f] = k[f]
      /\ t.ext = t.image /\ t.libs.first = "xatautils" /\ "xatautils" \notin t.libs.rest
  BY <1>3, <1>6, MandatoryIs
<1>8. Sound(id, s, asked[id]) /\ asked[id] \in Int /\ u.mem \in Nat
  BY <1>1, SpecsAssumption DEF SpecsInv, Update
<1>9. mem \in Int /\ t.mem + Reservation = mem
  BY SMTT(30), <1>4, <1>5, <1>6, <1>7, <1>8 DEF Sound, Reservation
<1>10. Sound(id, t, mem)
  BY Zenon, <1>5, <1>6, <1>7, <1>8, <1>9 DEF Sound
<1> QED
  BY SMTT(30), <1>1, <1>5, <1>6, <1>7, <1>9, <1>10

LEMMA UpdateInv ==
    ASSUME SpecsInv, NEW id \in Ids, NEW u \in Updates, UpdatePostgresCluster(id, u) PROVE SpecsInv'
<1>1. PICK t \in SpecOf, mem \in Int :
         /\ Store(id, t, mem) /\ t.there /\ Sound(id, t, mem)
         /\ t.restore = specs[id].restore /\ t.source = specs[id].source /\ t.sealed = specs[id].sealed
         /\ \A f \in {"method", "store", "path", "cipher"} : t.backup[f] = specs[id].backup[f]
  BY Zenon, UpdateIs
<1>2. t # NoSpecYet /\ t.backup.method = specs[id].backup.method /\ t.backup.cipher = specs[id].backup.cipher
  BY Zenon, <1>1, NoSpecYetIs
<1>3. t.restore = "store" => Matches(t, specs[t.source])
  BY Zenon, <1>1, <1>2 DEF SpecsInv, Matches
<1> QED
  BY Zenon, <1>1, <1>2, <1>3, StoreInv

LEMMA DeleteInv ==
    ASSUME SpecsInv, NEW id \in Ids, DeletePostgresCluster(id) PROVE SpecsInv'
<1>1. PICK t : t = [NoSpecYet EXCEPT !.cluster = "deleted"]
  BY Zenon
<1>2. t \in SpecOf /\ t # NoSpecYet /\ ~t.there /\ t.restore = "none" /\ t.backup.method = "off"
  BY <1>1, NoSpecYetIs DEF SpecOf
<1>3. Sound(id, t, 0)
  <2>1. t.cluster = "deleted"
    BY <1>1, NoSpecYetIs DEF SpecOf
  <2> QED
    BY Zenon, <1>2, <2>1 DEF Sound
<1>4. Store(id, t, 0)
  BY <1>1 DEF DeletePostgresCluster
<1>5. t.restore # "store" /\ t.backup.method # "pgbackrest" /\ 0 \in Int
  BY <1>2
<1> QED
  BY Zenon, <1>2, <1>3, <1>4, <1>5, StoreInv

LEMMA SpecsStutter == ASSUME SpecsInv, UNCHANGED <<specs, asked>> PROVE SpecsInv'
  BY Zenon DEF SpecsInv, Sound, Matches, NoSpecYet, NoLibs, NoBackup, NoPath, Reservation, PathsOf

LEMMA SpecsInvNext == SpecsInv /\ [SpecNext]_specVars => SpecsInv'
<1> SUFFICES ASSUME SpecsInv, [SpecNext]_specVars PROVE SpecsInv'
  OBVIOUS
<1>1. ASSUME NEW c \in Cells, Configure(c) PROVE SpecsInv'
  BY <1>1, SpecsStutter DEF Configure
<1>2. ASSUME NEW id \in Ids, NEW r \in SpecRequests, CreateRoot(id, r) PROVE SpecsInv'
  BY <1>2, CreateRootInv
<1>3. ASSUME NEW id \in Ids, NEW p \in Ids, NEW method \in Methods, CreateChild(id, p, method) PROVE SpecsInv'
  BY Zenon, <1>3, ChildIs DEF CreateChild
<1>4. ASSUME NEW id \in Ids, NEW p \in Ids, NEW method \in Methods, RestoreFromBackup(id, p, method)
      PROVE  SpecsInv'
  BY Zenon, <1>4, ChildIs DEF RestoreFromBackup
<1>5. ASSUME NEW id \in Ids, NEW u \in Updates, UpdatePostgresCluster(id, u) PROVE SpecsInv'
  BY <1>5, UpdateInv
<1>6. ASSUME NEW id \in Ids, DeletePostgresCluster(id) PROVE SpecsInv'
  BY <1>6, DeleteInv
<1>7. CASE UNCHANGED specVars
  BY <1>7, SpecsStutter DEF specVars
<1> QED
  BY <1>1, <1>2, <1>3, <1>4, <1>5, <1>6, <1>7 DEF SpecNext

(* After any sequence of requests: the settings the user cannot change are in      *)
(* force, and memory is set aside for the pooler once.                             *)
THEOREM SettingsAlwaysHold == SpecsSpec => []SettingsHold
<1>1. SpecsInv => SettingsHold
  BY Zenon DEF SpecsInv, Sound, SettingsHold, DescribedMemory
<1> QED
  BY <1>1, SpecsInvInit, SpecsInvNext, PTL DEF SpecsSpec

(* And no two branches archive to one place, a restored one has the passphrase of  *)
(* its source, and pool clusters never archive with barman.                        *)
THEOREM BackupsStayApart == SpecsSpec => []BackupsAreApart
<1>1. ASSUME SpecsInv PROVE BackupsAreApart
  <2>1. ASSUME NEW i \in Ids, specs[i].backup.method = "pgbackrest" PROVE ArchivesTo(i).path.of = i
    <3>1. specs[i].backup.path \in PathsOf(i)
      BY <1>1, <2>1 DEF SpecsInv, Sound
    <3> QED
      BY <3>1 DEF ArchivesTo, PathsOf
  <2>2. ASSUME NEW i \in Ids, NEW j \in Ids \ {i}, specs[i].backup.method = "pgbackrest",
               specs[j].backup.method = "pgbackrest"
        PROVE  ArchivesTo(i) # ArchivesTo(j)
    BY <2>1, <2>2
  <2>3. ASSUME NEW i \in Ids, specs[i].restore = "store", specs[i].backup.method = "pgbackrest",
               specs[specs[i].source].backup.method = "pgbackrest"
        PROVE  specs[i].sealed = specs[specs[i].source].backup.cipher
    BY <1>1, <2>3 DEF SpecsInv, Matches
  <2>4. \A i \in Ids : specs[i].cluster = "pool" => specs[i].backup.method # "barman"
    BY <1>1 DEF SpecsInv, Sound
  <2> QED
    BY Zenon, <2>2, <2>3, <2>4 DEF BackupsAreApart
<1> QED
  BY <1>1, SpecsInvInit, SpecsInvNext, PTL DEF SpecsSpec

(* The backups of a branch that exists stay where they are and as they are. *)
THEOREM BackupsAreStable == SpecsSpec => BackupsStayPut
<1>1. ASSUME SpecsInv, [SpecNext]_specVars, NEW i \in Ids, specs[i].there, specs'[i].there,
             NEW f \in {"method", "store", "path", "cipher"}
      PROVE  specs'[i].backup[f] = specs[i].backup[f]
  <2>1. ASSUME NEW id \in Ids, NEW t, NEW mem, New(id), Store(id, t, mem) PROVE specs'[i] = specs[i]
    BY Zenon, <1>1, <2>1, NoSpecYetIs DEF New, Store, SpecsInv
  <2>2. ASSUME NEW id \in Ids, NEW r \in SpecRequests, CreateRoot(id, r) PROVE specs'[i] = specs[i]
    BY Zenon, <2>1, <2>2 DEF CreateRoot
  <2>3. ASSUME NEW id \in Ids, NEW p \in Ids, NEW method \in Methods,
               CreateChild(id, p, method) \/ RestoreFromBackup(id, p, method)
        PROVE  specs'[i] = specs[i]
    BY <2>1, <2>3 DEF CreateChild, RestoreFromBackup
  <2>4. ASSUME NEW id \in Ids, NEW u \in Updates, UpdatePostgresCluster(id, u)
        PROVE  specs'[i].backup[f] = specs[i].backup[f]
    <3>1. PICK t \in SpecOf, mem \in Int :
             Store(id, t, mem) /\ \A g \in {"method", "store", "path", "cipher"} : t.backup[g] = specs[id].backup[g]
      BY Zenon, <1>1, <2>4, UpdateIs
    <3>2. specs'[i] = IF i = id THEN t ELSE specs[i]
      BY <1>1, <3>1 DEF Store, SpecsInv
    <3> QED
      BY <3>1, <3>2
  <2>5. ASSUME NEW id \in Ids, DeletePostgresCluster(id) PROVE specs'[i] = specs[i]
    <3>1. PICK t : t = [NoSpecYet EXCEPT !.cluster = "deleted"]
      BY Zenon
    <3>2. ~t.there
      BY <3>1, NoSpecYetIs DEF SpecOf
    <3>3. specs'[i] = IF i = id THEN t ELSE specs[i]
      BY <1>1, <2>5, <3>1 DEF DeletePostgresCluster, Store, SpecsInv
    <3> QED
      BY <1>1, <3>2, <3>3
  <2>6. (\E c \in Cells : Configure(c)) \/ UNCHANGED specVars => specs' = specs
    BY DEF Configure, specVars
  <2> QED
    BY Zenon, <1>1, <2>2, <2>3, <2>4, <2>5, <2>6 DEF SpecNext
<1>2. SpecsInv /\ [SpecNext]_specVars =>
        [\A id \in Ids : (specs[id].there /\ specs'[id].there) =>
            \A f \in {"method", "store", "path", "cipher"} :
                specs'[id].backup[f] = specs[id].backup[f]]_specVars
  BY <1>1
<1> QED
  BY <1>2, SpecsInvInit, SpecsInvNext, PTL DEF SpecsSpec, BackupsStayPut

-----------------------------------------------------------------------------
(* Creating a branch, call by call *)

Attempt == [pc : Running \cup {"none", "ok", "failed"}, key : Keys,
            cluster : PoolClusters \cup {OwnCluster}, made : BOOLEAN]

CreateTypeOK ==
    /\ att \in [Attempts -> Attempt]
    /\ object \in [there : BOOLEAN, key : Keys, cluster : PoolClusters \cup {OwnCluster}]
    /\ clone \in BOOLEAN /\ wakeup \in BOOLEAN /\ overlapped \in BOOLEAN /\ rotated \in BOOLEAN

(* What an attempt knows of the Branch. *)
Served(a) ==
    /\ att[a].pc = "existing" => object.there
    /\ att[a].pc \in {"wakeup", "ok"} => object.there /\ object.key = att[a].key
    /\ att[a].pc = "ok" => (clone => wakeup)
    /\ att[a].pc \in {"none", "claim", "secret"} => ~att[a].made
    /\ \A b \in Attempts : b < a /\ att[a].pc # "none" => att[b].pc # "none"

(* While attempts have not overlapped there is one at a time, its Secret is there *)
(* from when it was created, and later ones do not take it for theirs.            *)
Apart ==
    /\ \A a, b \in Active : a = b
    /\ \A a \in Attempts :
          att[a].pc \in {"create", "existing", "wakeup", "ok"} => secret # NoPassword
    /\ \A a, b \in Attempts : att[a].pc = "ok" /\ b \in Active => ~att[b].made

CreateInv == CreateTypeOK /\ (\A a \in Attempts : Served(a)) /\ (~overlapped => Apart)

LEMMA CreateInvInit == CreateInit => CreateInv
<1> SUFFICES ASSUME CreateInit PROVE CreateInv
  OBVIOUS
<1>1. CreateTypeOK
  BY Zenon, CreateAssumption DEF CreateInit, CreateTypeOK, NoAttempt, NoObject, Attempt
<1>2. \A a \in Attempts : att[a].pc = "none" /\ ~att[a].made
  BY DEF CreateInit, NoAttempt
<1>3. Active = {}
  BY <1>2 DEF Active, Running
<1> QED
  BY <1>1, <1>2, <1>3 DEF CreateInv, Served, Apart

(* The passwords that are made. *)
LEMMA Passwords ==
    ASSUME CreateTypeOK, NEW a \in Attempts
    PROVE  AppPassword(a) # NoPassword /\ <<"new", 0>> # NoPassword /\ <<"rotated", 0>> # NoPassword
<1>1. MaxAttempts \in Nat /\ a \in 0..MaxAttempts /\ 0 \in 0..MaxAttempts
  BY CreateAssumption DEF Attempts
<1>2. att[a].cluster \in PoolClusters \cup {OwnCluster}
  BY DEF CreateTypeOK, Attempt
<1> QED
  BY <1>1, <1>2, CreateAssumption DEF AppPassword

(* The step of an attempt: what the others rely on stays. *)
LEMMA AttemptStep ==
    ASSUME CreateInv, NEW a \in Attempts, NEW next \in Attempt,
           att' = [att EXCEPT ![a] = next], att[a].pc \in Running, next.pc # "none",
           CreateTypeOK', Served(a)', clone' = clone, overlapped' = overlapped,
           wakeup => wakeup',
           object.there => object' = object,
           ~overlapped => /\ next.made => att[a].made \/ secret = NoPassword
                          /\ next.pc \in {"create", "existing", "wakeup", "ok"} => secret' # NoPassword
                          /\ (\E b \in Attempts : att[b].pc = "ok") => (secret # NoPassword => secret' # NoPassword)
    PROVE  CreateInv'
<1>1. att'[a] = next /\ \A b \in Attempts : b # a => att'[b] = att[b]
  BY DEF CreateInv, CreateTypeOK
<1>2. ASSUME NEW b \in Attempts, b # a PROVE Served(b)'
  <2>1. Served(b) /\ att'[b] = att[b]
    BY <1>1, <1>2 DEF CreateInv
  <2>2. \A c \in Attempts : c < b /\ att'[b].pc # "none" => att'[c].pc # "none"
    BY Zenon, <1>1, <2>1 DEF Served
  <2>3. object.there => object'.there /\ object'.key = object.key
    OBVIOUS
  <2> QED
    BY Zenon, <2>1, <2>2, <2>3 DEF Served
<1>3. ASSUME ~overlapped PROVE Apart'
  <2>1. a \in Active /\ Apart
    BY <1>3 DEF Active, CreateInv
  <2>2. Active' \subseteq {a} /\ \A b \in Attempts : b # a => att[b].pc \notin Running
    BY <1>1, <2>1 DEF Active, Apart
  <2>3. ASSUME NEW b \in Attempts, att'[b].pc \in {"create", "existing", "wakeup", "ok"}
        PROVE  secret' # NoPassword
    <3>1. CASE b = a
      BY <1>1, <1>3, <2>3, <3>1
    <3>2. CASE b # a
      <4>1. att[b].pc = "ok"
        BY <1>1, <2>2, <2>3, <3>2 DEF Running
      <4> QED
        BY <1>3, <2>1, <4>1 DEF Apart
    <3> QED
      BY <3>1, <3>2
  <2>4. ASSUME NEW b \in Attempts, NEW c \in Attempts, att'[b].pc = "ok", c \in Active'
        PROVE  ~att'[c].made
    <3>1. c = a /\ att'[a] = next
      BY <1>1, <2>2, <2>4
    <3>2. b # a
      BY <1>1, <2>4, <3>1 DEF Active, Running
    <3>3. att[b].pc = "ok"
      BY <1>1, <2>4, <3>2
    <3>4. secret # NoPassword /\ ~att[a].made
      BY <2>1, <3>3 DEF Apart
    <3> QED
      BY <1>3, <3>1, <3>4
  <2> QED
    BY <2>2, <2>3, <2>4 DEF Apart
<1> QED
  BY <1>2, <1>3 DEF CreateInv

LEMMA BeginAttemptInv ==
    ASSUME CreateInv, NEW a \in Attempts, NEW key \in Keys, BeginAttempt(a, key) PROVE CreateInv'
<1>1. PICK next : next = [att[a] EXCEPT !.pc = "claim", !.key = key]
  OBVIOUS
<1>2. /\ next \in Attempt /\ next.pc = "claim" /\ next.made = att[a].made /\ ~att[a].made /\ att[a].pc = "none"
  BY ZenonT(60), <1>1 DEF BeginAttempt, CreateInv, CreateTypeOK, Attempt, Running, Served
<1>3. /\ att' = [att EXCEPT ![a] = next] /\ att'[a] = next /\ \A b \in Attempts : b # a => att'[b] = att[b]
      /\ UNCHANGED <<object, secret, wakeup>>
  BY Zenon, <1>1 DEF BeginAttempt, CreateInv, CreateTypeOK
<1>4. a = 1 \/ clone' = clone
  BY DEF BeginAttempt
<1>5. a \in Nat /\ 1 <= a
  BY CreateAssumption DEF Attempts
<1>6. \A b \in Attempts : b < a => att[b].pc # "none"
  BY CreateAssumption, <1>5 DEF BeginAttempt, Attempts
<1>7. a = 1 => \A b \in Attempts : att[b].pc = "none"
  <2> SUFFICES ASSUME a = 1, NEW b \in Attempts, att[b].pc # "none" PROVE FALSE
    BY Zenon
  <2>1. b # a /\ b \in Nat /\ 1 < b
    BY <1>2, CreateAssumption DEF Attempts
  <2> QED
    BY Zenon, <1>2, <2>1 DEF CreateInv, Served
<1>8. CreateTypeOK'
  BY <1>2, <1>3 DEF BeginAttempt, CreateInv, CreateTypeOK, Active
<1>9. ASSUME NEW b \in Attempts PROVE Served(b)'
  <2>1. CASE b = a
    BY <1>2, <1>3, <1>6, <1>5, <2>1 DEF Served
  <2>2. CASE b # a
    <3>1. Served(b) /\ att'[b] = att[b] /\ (att[b].pc = "ok" => clone' = clone)
      BY <1>3, <1>4, <1>7, <2>2 DEF CreateInv
    <3>2. \A c \in Attempts : c < b /\ att'[b].pc # "none" => att'[c].pc # "none"
      BY <1>2, <1>3, <3>1 DEF Served
    <3> QED
      BY SMTT(30), <1>3, <3>1, <3>2 DEF Served
  <2> QED
    BY <2>1, <2>2
<1>10. ASSUME ~overlapped' PROVE Apart'
  <2>1. Active = {} /\ Apart
    BY Zenon, <1>10 DEF BeginAttempt, CreateInv
  <2>2. Active' = {a}
    BY <1>2, <1>3, <2>1 DEF Active, Running
  <2>3. \A b \in Attempts : att'[b].pc \in {"create", "existing", "wakeup", "ok"} => secret' # NoPassword
    BY <1>2, <1>3, <2>1 DEF Apart
  <2> QED
    BY <1>2, <1>3, <2>2, <2>3 DEF Apart
<1> QED
  BY <1>8, <1>9, <1>10 DEF CreateInv

(* Served of an attempt that moved on. *)
LEMMA ServedNext ==
    ASSUME CreateInv, NEW a \in Attempts, NEW next \in Attempt, att' = [att EXCEPT ![a] = next],
           att[a].pc \in Running,
           next.pc = "existing" => object'.there,
           next.pc \in {"wakeup", "ok"} => object'.there /\ object'.key = next.key,
           next.pc = "ok" => (clone' => wakeup'),
           next.pc \in {"none", "claim", "secret"} => ~next.made
    PROVE  Served(a)'
<1>1. att'[a] = next /\ \A b \in Attempts : b # a => att'[b] = att[b]
  BY ZenonT(60) DEF CreateInv, CreateTypeOK
<1>2. \A b \in Attempts : b < a => att[b].pc # "none" /\ b # a
  BY CreateAssumption DEF CreateInv, Served, Running, Attempts
<1> QED
  BY <1>1, <1>2 DEF Served

LEMMA GoIs ==
    ASSUME CreateTypeOK, NEW a \in Attempts, NEW at \in Running \cup {"ok", "failed"}, Go(a, at)
    PROVE  \E next \in Attempt : /\ att' = [att EXCEPT ![a] = next] /\ next.pc = at
                                 /\ next.key = att[a].key /\ next.made = att[a].made
<1>1. PICK next : next = [att[a] EXCEPT !.pc = at]
  BY Zenon
<1>2. next \in Attempt /\ next.pc = at /\ next.key = att[a].key /\ next.made = att[a].made
  BY <1>1 DEF CreateTypeOK, Attempt
<1>3. att' = [att EXCEPT ![a] = next]
  BY <1>1 DEF Go
<1> QED
  BY Zenon, <1>2, <1>3

(* An attempt goes on and leaves the rest as it is. *)
LEMMA GoInv ==
    ASSUME CreateInv, NEW a \in Attempts, att[a].pc \in Running,
           NEW at \in Running \cup {"ok", "failed"}, Go(a, at),
           UNCHANGED <<clone, rotated, object, secret, overlapped>>, wakeup' \in BOOLEAN, wakeup => wakeup',
           at = "existing" => object.there,
           at \in {"wakeup", "ok"} => object.there /\ object.key = att[a].key,
           at = "ok" => (clone => wakeup'),
           at \notin {"none", "claim"},
           at = "secret" => ~att[a].made,
           ~overlapped /\ at \in {"create", "existing", "wakeup", "ok"} => secret # NoPassword
    PROVE  CreateInv'
<1>1. CreateTypeOK
  BY Zenon DEF CreateInv
<1>2. PICK next \in Attempt : /\ att' = [att EXCEPT ![a] = next] /\ next.pc = at
                              /\ next.key = att[a].key /\ next.made = att[a].made
  BY Zenon, <1>1, GoIs
<1>3. Served(a)'
  BY Zenon, <1>2, ServedNext
<1>4. CreateTypeOK'
  BY <1>1, <1>2 DEF CreateTypeOK
<1>5. next.pc # "none"
  BY <1>2 DEF Running
<1> QED
  BY Zenon, <1>2, <1>3, <1>4, <1>5, AttemptStep

LEMMA FindPoolClusterInv ==
    ASSUME CreateInv, NEW a \in Attempts, FindPoolCluster(a) PROVE CreateInv'
<1>1. /\ att[a].pc \in Running /\ ~att[a].made
      /\ UNCHANGED <<clone, rotated, object, secret, wakeup, overlapped>> /\ wakeup \in BOOLEAN
  BY DEF FindPoolCluster, Running, CreateInv, Served, CreateTypeOK
<1>2. CASE Go(a, "secret")
  BY <1>1, <1>2, GoInv DEF Running
<1>3. CASE Go(a, "failed")
  BY <1>1, <1>3, GoInv DEF Running
<1>4. CASE \E c \in PoolClusters \ taken : att' = [att EXCEPT ![a].pc = "secret", ![a].cluster = c]
  <2>1. PICK c \in PoolClusters \ taken : att' = [att EXCEPT ![a].pc = "secret", ![a].cluster = c]
    BY Zenon, <1>4
  <2>2. PICK next : next = [att[a] EXCEPT !.pc = "secret", !.cluster = c]
    OBVIOUS
  <2>3. next \in Attempt /\ next.pc = "secret" /\ next.made = att[a].made
    BY Zenon, <2>2 DEF CreateInv, CreateTypeOK, Attempt, Running
  <2>4. att' = [att EXCEPT ![a] = next]
    BY Zenon, <2>1, <2>2 DEF CreateInv, CreateTypeOK
  <2>5. Served(a)'
    BY Zenon, <1>1, <2>3, <2>4, ServedNext
  <2>6. CreateTypeOK'
    BY <1>1, <2>3, <2>4 DEF CreateInv, CreateTypeOK
  <2> QED
    BY Zenon, <1>1, <2>3, <2>4, <2>5, <2>6, AttemptStep
<1> QED
  BY <1>2, <1>3, <1>4 DEF FindPoolCluster

LEMMA CreateAppSecretInv ==
    ASSUME CreateInv, NEW a \in Attempts, CreateAppSecret(a) PROVE CreateInv'
<1>1. /\ att[a].pc \in Running /\ ~att[a].made /\ CreateTypeOK
      /\ UNCHANGED <<clone, rotated, object, wakeup, overlapped>> /\ wakeup \in BOOLEAN
  BY DEF CreateAppSecret, Running, CreateInv, Served, CreateTypeOK
<1>2. AppPassword(a) # NoPassword
  BY <1>1, Passwords
<1>3. CASE secret' = secret /\ (Go(a, "failed") \/ (Go(a, "create") /\ secret # NoPassword))
  BY Zenon, <1>1, <1>3, GoInv DEF Running
<1>4. CASE /\ secret = NoPassword /\ secret' = AppPassword(a)
           /\ att' = [att EXCEPT ![a].pc = "create", ![a].made = TRUE] \/ Go(a, "failed")
  <2>1. \E next \in Attempt : att' = [att EXCEPT ![a] = next] /\ next.pc \in {"create", "failed"}
    <3>1. CASE Go(a, "failed")
      BY <1>1, <3>1, GoIs DEF Running
    <3>2. CASE att' = [att EXCEPT ![a].pc = "create", ![a].made = TRUE]
      <4>1. PICK next : next = [att[a] EXCEPT !.pc = "create", !.made = TRUE]
        OBVIOUS
      <4>2. att[a] \in Attempt /\ "create" \in Running
        BY <1>1 DEF CreateTypeOK, Running
      <4>3. next \in Attempt /\ next.pc = "create"
        BY Zenon, <4>1, <4>2 DEF Attempt
      <4>4. att' = [att EXCEPT ![a] = next]
        BY Zenon, <1>1, <3>2, <4>1 DEF CreateTypeOK
      <4> QED
        BY Zenon, <4>3, <4>4
    <3> QED
      BY <1>4, <3>1, <3>2
  <2>2. PICK next \in Attempt : att' = [att EXCEPT ![a] = next] /\ next.pc \in {"create", "failed"}
    BY Zenon, <2>1
  <2>3. Served(a)'
    BY Zenon, <1>1, <2>2, ServedNext
  <2>4. CreateTypeOK'
    BY <1>1, <2>2 DEF CreateTypeOK
  <2> QED
    BY Zenon, <1>1, <1>2, <1>4, <2>2, <2>3, <2>4, AttemptStep
<1> QED
  BY <1>3, <1>4 DEF CreateAppSecret

LEMMA CreateObjectInv ==
    ASSUME CreateInv, NEW a \in Attempts, CreateObject(a) PROVE CreateInv'
<1>1. /\ att[a].pc = "create" /\ att[a].pc \in Running /\ CreateTypeOK /\ att[a] \in Attempt
      /\ UNCHANGED <<clone, rotated, secret, wakeup, overlapped>> /\ wakeup \in BOOLEAN
      /\ ~overlapped => secret # NoPassword
  BY Zenon DEF CreateObject, Running, CreateInv, CreateTypeOK, Apart
<1>2. CASE object' = object /\ (Go(a, "cleanup") \/ (Go(a, "existing") /\ object.there))
  BY Zenon, <1>1, <1>2, GoInv DEF Running
<1>3. CASE /\ ~object.there
           /\ object' = [there |-> TRUE, key |-> att[a].key, cluster |-> att[a].cluster]
           /\ Go(a, "wakeup") \/ Go(a, "cleanup")
  <2>1. PICK next \in Attempt : /\ att' = [att EXCEPT ![a] = next] /\ next.pc \in {"wakeup", "cleanup"}
                                /\ next.key = att[a].key /\ next.made = att[a].made
    <3>1. CASE Go(a, "wakeup")
      BY <1>1, <3>1, GoIs DEF Running
    <3>2. CASE Go(a, "cleanup")
      BY <1>1, <3>2, GoIs DEF Running
    <3> QED
      BY <1>3, <3>1, <3>2
  <2>2. object'.there /\ object'.key = next.key
    BY <1>3, <2>1
  <2>3. Served(a)'
    BY Zenon, <1>1, <2>1, <2>2, ServedNext
  <2>4. CreateTypeOK'
    BY Zenon, <1>1, <1>3, <2>1 DEF CreateTypeOK, Attempt
  <2> QED
    BY Zenon, <1>1, <1>3, <2>1, <2>3, <2>4, AttemptStep
<1> QED
  BY Zenon, <1>2, <1>3 DEF CreateObject

LEMMA AcceptExistingInv ==
    ASSUME CreateInv, NEW a \in Attempts, AcceptExisting(a) PROVE CreateInv'
<1>1. /\ att[a].pc = "existing" /\ att[a].pc \in Running /\ object.there
      /\ UNCHANGED <<clone, rotated, object, secret, wakeup, overlapped>> /\ wakeup \in BOOLEAN
      /\ ~overlapped => secret # NoPassword
  BY DEF AcceptExisting, Running, CreateInv, CreateTypeOK, Apart, Served
<1>2. CASE Go(a, "cleanup")
  BY Zenon, <1>1, <1>2, GoInv DEF Running
<1>3. CASE Go(a, "wakeup") /\ object.key = att[a].key
  BY ZenonT(60), <1>1, <1>3, GoInv DEF Running
<1> QED
  BY ZenonT(60), <1>2, <1>3 DEF AcceptExisting

LEMMA CleanUpInv ==
    ASSUME CreateInv, NEW a \in Attempts, CleanUp(a) PROVE CreateInv'
<1>1. /\ att[a].pc = "cleanup" /\ att[a].pc \in Running /\ CreateTypeOK /\ Go(a, "failed")
      /\ UNCHANGED <<clone, rotated, object, wakeup, overlapped>> /\ wakeup \in BOOLEAN
      /\ secret' = secret \/ att[a].made
  BY DEF CleanUp, Running, CreateInv, CreateTypeOK
<1>2. PICK next \in Attempt : /\ att' = [att EXCEPT ![a] = next] /\ next.pc = "failed"
                              /\ next.key = att[a].key /\ next.made = att[a].made
  BY <1>1, GoIs
<1>3. ~overlapped /\ (\E b \in Attempts : att[b].pc = "ok") => secret' = secret
  BY ZenonT(60), <1>1 DEF CreateInv, Apart, Active
<1>4. Served(a)'
  BY Zenon, <1>1, <1>2, ServedNext
<1>5. CreateTypeOK'
  BY <1>1, <1>2 DEF CreateTypeOK
<1> QED
  BY Zenon, <1>1, <1>2, <1>3, <1>4, <1>5, AttemptStep

LEMMA EnsureWakeupInv ==
    ASSUME CreateInv, NEW a \in Attempts, EnsureWakeup(a) PROVE CreateInv'
<1>1. /\ att[a].pc = "wakeup" /\ att[a].pc \in Running /\ object.there /\ object.key = att[a].key
      /\ UNCHANGED <<clone, rotated, object, secret, overlapped>>
      /\ ~overlapped => secret # NoPassword
      /\ wakeup' \in BOOLEAN /\ (wakeup => wakeup')
  BY DEF EnsureWakeup, Running, CreateInv, CreateTypeOK, Apart, Served
<1>2. CASE Go(a, "failed")
  BY Zenon, <1>1, <1>2, GoInv DEF Running
<1>3. CASE Go(a, "ok") /\ wakeup' = (wakeup \/ clone)
  BY Zenon, <1>1, <1>3, GoInv DEF Running
<1> QED
  BY Zenon, <1>2, <1>3 DEF EnsureWakeup

LEMMA SecretKept ==
    ASSUME CreateInv, secret' # NoPassword, rotated' \in BOOLEAN,
           UNCHANGED <<clone, object, wakeup, att, overlapped>>
    PROVE  CreateInv'
<1>1. CreateTypeOK'
  BY DEF CreateInv, CreateTypeOK
<1>2. \A a \in Attempts : Served(a)'
  BY Zenon DEF CreateInv, Served
<1>3. ~overlapped => Apart'
  BY Zenon DEF CreateInv, Apart, Active
<1> QED
  BY <1>1, <1>2, <1>3 DEF CreateInv

LEMMA CreateInvNext == CreateInv /\ [CreateNext]_createVars => CreateInv'
<1> SUFFICES ASSUME CreateInv, [CreateNext]_createVars PROVE CreateInv'
  OBVIOUS
<1>1. ASSUME NEW a \in Attempts, NEW key \in Keys, BeginAttempt(a, key) PROVE CreateInv'
  BY <1>1, BeginAttemptInv
<1>2. ASSUME NEW a \in Attempts, CreateStep(a) PROVE CreateInv'
  BY Zenon, <1>2, FindPoolClusterInv, CreateAppSecretInv, CreateObjectInv, AcceptExistingInv, CleanUpInv,
     EnsureWakeupInv DEF CreateStep
<1>3. CASE ReconcileAppSecret \/ RotateCredentials
  <2>1. <<"new", 0>> # NoPassword /\ <<"rotated", 0>> # NoPassword
    BY CreateAssumption
  <2>2. rotated \in BOOLEAN
    BY DEF CreateInv, CreateTypeOK
  <2> QED
    BY Zenon, <1>3, <2>1, <2>2, SecretKept DEF ReconcileAppSecret, RotateCredentials
<1>4. CASE UNCHANGED createVars
  <2>1. CreateTypeOK' /\ \A a \in Attempts : Served(a)'
    BY ZenonT(60), <1>4 DEF CreateInv, CreateTypeOK, Served, createVars
  <2>2. ~overlapped => Apart'
    BY ZenonT(60), <1>4 DEF CreateInv, Apart, Active, createVars
  <2> QED
    BY <1>4, <2>1, <2>2 DEF CreateInv, createVars
<1> QED
  BY <1>1, <1>2, <1>3, <1>4 DEF CreateNext

(* Whatever attempts run, at once or one after the other, and whichever answers   *)
(* are lost: the branch that CreatePostgresCluster acknowledges is the one that    *)
(* was asked for, with its credentials and its wakeup.                            *)
THEOREM AcknowledgedIsOurs == CreateSpec => []AckedIsOurs
<1>1. CreateInv => AckedIsOurs
  BY ZenonT(60) DEF CreateInv, Served, Apart, AckedIsOurs, Acked
<1> QED
  BY <1>1, CreateInvInit, CreateInvNext, PTL DEF CreateSpec

(* And its password changes by a rotation only. *)
THEOREM PasswordsAreKept == CreateSpec => PasswordIsKept
<1>1. ASSUME CreateInv, [CreateNext]_createVars, NEW b \in Attempts, Acked(b), ~overlapped
      PROVE  secret' = secret \/ rotated' # rotated
  <2>1. secret # NoPassword /\ \A a \in Active : ~att[a].made
    BY ZenonT(60), <1>1 DEF CreateInv, Apart, Acked, Active
  <2>2. ASSUME NEW a \in Attempts, CleanUp(a) PROVE secret' = secret
    BY ZenonT(60), <2>1, <2>2 DEF CleanUp, Active, Running
  <2>3. ASSUME NEW a \in Attempts, CreateStep(a) PROVE secret' = secret
    BY <2>1, <2>2, <2>3 DEF CreateStep, FindPoolCluster, CreateAppSecret, CreateObject, AcceptExisting,
       EnsureWakeup
  <2>4. ASSUME NEW a \in Attempts, NEW key \in Keys, BeginAttempt(a, key) PROVE secret' = secret
    BY <2>4 DEF BeginAttempt
  <2>5. ReconcileAppSecret \/ RotateCredentials => rotated' # rotated
    BY <2>1 DEF ReconcileAppSecret, RotateCredentials
  <2>6. UNCHANGED createVars => secret' = secret
    BY DEF createVars
  <2> QED
    BY <1>1, <2>3, <2>4, <2>5, <2>6 DEF CreateNext
<1>2. CreateInv /\ [CreateNext]_createVars =>
         [(\E a \in Attempts : Acked(a)) /\ ~overlapped => secret' = secret \/ rotated' # rotated]_createVars
  BY <1>1
<1> QED
  BY <1>2, CreateInvInit, CreateInvNext, PTL DEF CreateSpec, PasswordIsKept

-----------------------------------------------------------------------------
(* Draining *)

(* Wait blocks only on a group it has closed. *)
WaitsClosed == hook \in {"load", "select"} => closed

Inv == TypeOK /\ CountIsRegistered /\ WaitsClosed /\ NoLostCompletion

LEMMA RegisteredFinite == IsFiniteSet(Registered)
  BY ConnsAssumption, FS_Subset DEF Registered

LEMMA InitInv == Init => Inv
<1> SUFFICES ASSUME Init PROVE Inv
  OBVIOUS
<1>1. Registered = {}
  BY DEF Init, Registered
<1>2. CountIsRegistered
  BY <1>1, FS_EmptySet DEF Init, CountIsRegistered
<1>3. TypeOK
  BY ZenonT(60) DEF Init, TypeOK, ConnPC, HookPC
<1> QED
  BY <1>2, <1>3 DEF Inv, Init, WaitsClosed, NoLostCompletion

(* Steps that leave the counter and the registered connections alone. *)
LEMMA CountKept ==
    ASSUME CountIsRegistered, count' = count, Registered' = Registered
    PROVE  CountIsRegistered'
  BY DEF CountIsRegistered

LEMMA StepInv == Inv /\ [Next]_vars => Inv'
<1> SUFFICES ASSUME Inv, [Next]_vars PROVE Inv'
  OBVIOUS
<1> USE DEF Inv
<1>1. ASSUME NEW c \in Conns, Accept(c) PROVE Inv'
  <2>1. Registered' = Registered
    BY <1>1 DEF Accept, Registered, TypeOK
  <2> QED
    BY <1>1, <2>1, CountKept
    DEF Accept, TypeOK, ConnPC, WaitsClosed, NoLostCompletion
<1>2. ASSUME NEW c \in Conns, StartSession(c) PROVE Inv'
  <2>1. CASE closed
    <3>1. Registered' = Registered
      BY <1>2, <2>1 DEF StartSession, Registered, TypeOK
    <3> QED
      BY <1>2, <2>1, <3>1, CountKept
      DEF StartSession, TypeOK, ConnPC, WaitsClosed, NoLostCompletion
  <2>2. CASE ~closed
    <3>1. c \notin Registered /\ Registered' = Registered \cup {c}
      BY <1>2, <2>2 DEF StartSession, Registered, TypeOK
    <3>2. Cardinality(Registered') = Cardinality(Registered) + 1
      BY <3>1, RegisteredFinite, FS_AddElement
    <3>3. CountIsRegistered'
      BY <1>2, <2>2, <3>2 DEF StartSession, CountIsRegistered
    <3> QED
      BY <1>2, <2>2, <3>3
      DEF StartSession, TypeOK, ConnPC, WaitsClosed, NoLostCompletion
  <2> QED
    BY <2>1, <2>2
<1>3. ASSUME NEW c \in Conns, EndSession(c) PROVE Inv'
  <2>1. Registered' = Registered
    BY <1>3 DEF EndSession, Registered, TypeOK
  <2> QED
    BY <1>3, <2>1, CountKept
    DEF EndSession, TypeOK, ConnPC, WaitsClosed, NoLostCompletion
<1>4. ASSUME NEW c \in Conns, Done(c) PROVE Inv'
  <2>1. c \in Registered /\ Registered' = Registered \ {c}
    BY <1>4 DEF Done, Registered, TypeOK
  <2>2. /\ Cardinality(Registered') = Cardinality(Registered) - 1
        /\ Cardinality(Registered') \in Nat
    BY <2>1, RegisteredFinite, FS_RemoveElement, FS_CardinalityType
  <2>3. CountIsRegistered' /\ count' \in Nat
    BY <1>4, <2>2 DEF Done, CountIsRegistered
  <2>4. count' = 0 => \E d \in Conns : conn'[d] = "zero"
    BY <1>4 DEF Done, TypeOK
  <2> QED
    BY <1>4, <2>3, <2>4 DEF Done, TypeOK, ConnPC, WaitsClosed, NoLostCompletion
<1>5. ASSUME NEW c \in Conns, DoneSignal(c) PROVE Inv'
  <2>1. Registered' = Registered
    BY <1>5 DEF DoneSignal, Registered, TypeOK
  <2> QED
    BY <1>5, <2>1, CountKept
    DEF DoneSignal, TypeOK, ConnPC, WaitsClosed, NoLostCompletion
<1>6. ASSUME UNCHANGED <<conn, count>>, HookStep PROVE Inv'
  <2>1. Registered' = Registered
    BY <1>6 DEF Registered
  <2> QED
    BY ZenonT(60), <1>6, <2>1, CountKept
    DEF HookStep, HookStart, HookDecide, WaitClose, WaitLoad, WaitSelect, TypeOK,
        HookPC, WaitsClosed, NoLostCompletion
<1>7. CASE CancelRun \/ ServeReturns \/ RunReturns \/ UNCHANGED vars
  <2>1. Registered' = Registered
    BY <1>7 DEF CancelRun, ServeReturns, RunReturns, vars, Registered
  <2> QED
    BY ZenonT(60), <1>7, <2>1, CountKept
    DEF CancelRun, ServeReturns, RunReturns, vars, TypeOK, WaitsClosed,
        NoLostCompletion
<1>8. HookStep => UNCHANGED <<conn, count>>
  BY ZenonT(60) DEF HookStep, HookStart, HookDecide, WaitClose, WaitLoad, WaitSelect
<1> QED
  BY <1>1, <1>2, <1>3, <1>4, <1>5, <1>6, <1>7, <1>8 DEF Next, ConnStep, Terminated

LEMMA Invariance == Spec => []Inv
  BY InitInv, StepInv, PTL DEF Spec

(* The counter of the timedWaitGroup is the number of registered connections, *)
(* so it is never negative and is 0 exactly when none is left.                 *)
THEOREM CountCorrect == Spec => []CountIsRegistered
  BY Invariance, PTL DEF Inv

(* Wait never blocks for good on an empty group: completion has been          *)
(* signalled, or the Done that emptied the group is on its way to signal it.   *)
THEOREM CompletionNotLost == Spec => []NoLostCompletion
  BY Invariance, PTL DEF Inv

(* Once Wait has closed the group no connection is added to it. *)
THEOREM ClosedGroupOnlyShrinks == Spec => ClosedGroupShrinks
<1>1. ASSUME Inv, [Next]_vars PROVE [closed => closed' /\ count' <= count]_vars
  <2>1. ASSUME NEW c \in Conns, ConnStep(c)
        PROVE  closed => closed' /\ count' <= count
    <3>1. count \in Nat
      BY <1>1 DEF Inv, TypeOK
    <3>2. CASE Accept(c) \/ EndSession(c) \/ DoneSignal(c)
      <4>1. count' = count /\ closed' = closed
        BY <3>2 DEF Accept, EndSession, DoneSignal
      <4> QED
        BY <3>1, <4>1
    <3>3. CASE StartSession(c)
      BY <3>1, <3>3 DEF StartSession
    <3>4. CASE Done(c)
      BY <3>1, <3>4 DEF Done
    <3> QED
      BY <2>1, <3>2, <3>3, <3>4 DEF ConnStep
  <2>2. CASE HookStep
    BY <1>1, <2>2
    DEF Inv, TypeOK, HookStep, HookStart, HookDecide, WaitClose, WaitLoad,
        WaitSelect
  <2>3. CASE CancelRun \/ ServeReturns \/ RunReturns
    BY <1>1, <2>3 DEF Inv, TypeOK, CancelRun, ServeReturns, RunReturns
  <2> QED
    BY <1>1, <2>1, <2>2, <2>3 DEF Next, Terminated
<1> QED
  BY <1>1, Invariance, PTL DEF Spec, ClosedGroupShrinks

-----------------------------------------------------------------------------
(* The ConfigMap of IP filtering *)

(* The part of FilterTypeOK that the refinement needs. *)
Typed ==
    /\ exists \in BOOLEAN
    /\ data \in Tables
    /\ pc \in [Writers -> {"idle", "get", "write", "ok", "error"}]
    /\ request \in [Writers -> Requests]
    /\ snap \in [Writers -> [exists : BOOLEAN, data : Tables, current : BOOLEAN]]

(* What a handler has read is what the ConfigMap holds for as long as no one   *)
(* has written it, and a ConfigMap that is not there holds nothing.             *)
SnapIsCurrent ==
    /\ ~exists => data = Empty
    /\ \A w \in Writers : pc[w] = "write" =>
         /\ ~snap[w].exists => snap[w].data = Empty
         /\ snap[w].exists /\ snap[w].current => exists /\ snap[w].data = data

IInv == Typed /\ SnapIsCurrent

LEMMA EmptyTyped ==
    /\ Empty \in Tables
    /\ NoRequest \in Requests
    /\ NoSnap \in [exists : BOOLEAN, data : Tables, current : BOOLEAN]
BY ZenonT(60) DEF Empty, Tables, Entries, NoRequest, Requests, NoSnap

LEMMA ChangedTyped ==
    ASSUME NEW r \in Requests, NEW t \in Tables
    PROVE  Changed(r, t) \in Tables
BY DEF Changed, Requests, Tables, Entries

(* Initially nothing is read, and there is no ConfigMap. *)
LEMMA InitIInv == FilterInit => IInv
<1> SUFFICES ASSUME FilterInit PROVE IInv
  OBVIOUS
<1>1. Typed
  BY EmptyTyped, Zenon DEF FilterInit, Typed
<1>2. SnapIsCurrent
  BY DEF FilterInit, SnapIsCurrent
<1> QED BY <1>1, <1>2 DEF IInv

(* Outdated only forgets that a read is current. *)
LEMMA OutdatedTyped ==
    ASSUME Typed
    PROVE  /\ Outdated \in [Writers -> [exists : BOOLEAN, data : Tables, current : BOOLEAN]]
           /\ \A v \in Writers :
                /\ Outdated[v].exists = snap[v].exists
                /\ Outdated[v].data = snap[v].data
                /\ pc[v] = "write" => ~Outdated[v].current
BY ZenonT(60) DEF Typed, Outdated

(* Return leaves the handler outside of a call, and the others where they are. *)
LEMMA ReturnTyped ==
    ASSUME Typed, NEW w \in Writers, NEW o \in {"ok", "error"}, Return(w, o)
    PROVE  /\ pc' \in [Writers -> {"idle", "get", "write", "ok", "error"}]
           /\ request' \in [Writers -> Requests]
           /\ pc'[w] = o
           /\ \A v \in Writers \ {w} : pc'[v] = pc[v]
BY EmptyTyped DEF Typed, Return

(* The inductive invariant is preserved by every step. *)
LEMMA NextIInv == IInv /\ [FilterNext]_filterVars => IInv'
<1> SUFFICES ASSUME IInv, [FilterNext]_filterVars PROVE IInv'
  OBVIOUS
<1> USE EmptyTyped DEF IInv
<1>1. CASE UNCHANGED filterVars
  BY <1>1 DEF filterVars, mapVars, callVars, Typed, SnapIsCurrent
<1>2. CASE HandleConfigMap \/ Relist
  BY <1>2 DEF HandleConfigMap, Relist, mapVars, callVars, Typed, SnapIsCurrent
<1>3. CASE Delete
  <2>1. Typed'
    BY ZenonT(60), <1>3, OutdatedTyped DEF Delete, Typed
  <2>2. SnapIsCurrent'
    BY ZenonT(60), <1>3, OutdatedTyped DEF Delete, SnapIsCurrent
  <2> QED BY <2>1, <2>2
<1>4. ASSUME NEW w \in Writers, Call(w) PROVE IInv'
  BY ZenonT(60), <1>4, MenuAssumption DEF Call, mapVars, Typed, SnapIsCurrent
<1>5. ASSUME NEW w \in Writers, Get(w) PROVE IInv'
  <2>1. CASE Return(w, "ok") /\ UNCHANGED snap
    BY ZenonT(60), <1>5, <2>1, ReturnTyped DEF Get, mapVars, Typed, SnapIsCurrent
  <2>2. CASE /\ snap' = [snap EXCEPT ![w] = [exists |-> exists, data |-> data, current |-> TRUE]]
             /\ pc' = [pc EXCEPT ![w] = "write"]
             /\ UNCHANGED request
    BY ZenonT(60), <1>5, <2>2 DEF Get, mapVars, Typed, SnapIsCurrent
  <2> QED BY ZenonT(60), <1>5, <2>1, <2>2 DEF Get
<1>6. ASSUME NEW w \in Writers, Write(w) PROVE IInv'
  <2>1. PICK o \in {"ok", "error"} : Return(w, o)
    BY ZenonT(60), <1>6 DEF Write
  <2>2. Typed'
    BY ZenonT(60), <1>6, <2>1, ReturnTyped, OutdatedTyped, ChangedTyped DEF Write, Typed
  <2>3. SnapIsCurrent'
    BY ZenonT(60), <1>6, <2>1, ReturnTyped, OutdatedTyped DEF Write, Typed, SnapIsCurrent
  <2> QED BY <2>2, <2>3
<1>7. ASSUME NEW w \in Writers, Conflict(w) \/ Fail(w) PROVE IInv'
  <2>1. /\ UNCHANGED mapVars
        /\ snap' = [snap EXCEPT ![w] = NoSnap]
    BY <1>7 DEF Conflict, Fail
  <2>2. CASE pc' = [pc EXCEPT ![w] = "get"] /\ UNCHANGED request
    BY ZenonT(60), <2>1, <2>2 DEF mapVars, Typed, SnapIsCurrent
  <2>3. CASE Return(w, "error")
    BY ZenonT(60), <2>1, <2>3, ReturnTyped DEF mapVars, Typed, SnapIsCurrent
  <2> QED BY <1>7, <2>2, <2>3 DEF Conflict, Fail
<1> QED BY <1>1, <1>2, <1>3, <1>4, <1>5, <1>6, <1>7 DEF FilterNext

(* The mapped initial state is FilterTable's. *)
LEMMA InitTable == FilterInit => Table!Init
BY ZenonT(60) DEF FilterInit, Table!Init, Table!Empty, Empty, Table!NoRequest, NoRequest, StatusOf

(* Every step is a step of FilterTable, or changes nothing there: a write      *)
(* applies the request to the current table although it was computed from the  *)
(* table that was read.                                                         *)
LEMMA NextTable == IInv /\ [FilterNext]_filterVars => [Table!Next]_(Table!vars)
<1> SUFFICES ASSUME IInv, [FilterNext]_filterVars PROVE [Table!Next]_(Table!vars)
  OBVIOUS
<1> USE DEF IInv
<1>1. CASE UNCHANGED filterVars
  BY <1>1 DEF filterVars, mapVars, callVars, Table!vars
<1>2. CASE HandleConfigMap \/ Relist
  BY <1>2 DEF HandleConfigMap, Relist, mapVars, callVars, Table!vars
<1>3. CASE Delete
  BY <1>3 DEF Delete, Table!Next, Table!Clear, Table!Empty, Empty
<1>4. ASSUME NEW w \in Writers, Call(w) PROVE Table!Call(w)
  BY ZenonT(60), <1>4, MenuAssumption DEF Call, mapVars, Typed, StatusOf, Table!Call, Table!Requests, Requests, Entries
<1>5. ASSUME NEW w \in Writers, Return(w, "error"), UNCHANGED data, pc[w] \in {"get", "write"}
      PROVE  Table!Refuse(w)
  BY ZenonT(60), <1>5 DEF Return, Typed, StatusOf, Table!Refuse, Table!NoRequest, NoRequest
<1>6. ASSUME NEW w \in Writers, NEW o \in {"ok", "error"}, Return(w, o),
             data' = Changed(request[w], data), pc[w] \in {"get", "write"}
      PROVE  Table!Apply(w)
  BY ZenonT(60), <1>6 DEF Return, Changed, Typed, StatusOf, Table!Apply, Table!Applied, Table!NoRequest, NoRequest
<1>7. ASSUME NEW w \in Writers, pc[w] \in {"get", "write"}, UNCHANGED <<data, request>>,
             NEW p \in {"get", "write"}, pc' = [pc EXCEPT ![w] = p]
      PROVE  UNCHANGED Table!vars
  BY <1>7 DEF Typed, StatusOf, Table!vars
<1>8. ASSUME NEW w \in Writers, Get(w) PROVE Table!Apply(w) \/ UNCHANGED Table!vars
  <2>1. CASE NothingToDo(request[w]) /\ Return(w, "ok")
    <3>1. Changed(request[w], data) = data
      BY ZenonT(60), <2>1 DEF NothingToDo, Changed, Typed, Tables
    <3> QED BY ZenonT(60), <1>6, <1>8, <2>1, <3>1 DEF Get, mapVars
  <2>2. CASE pc' = [pc EXCEPT ![w] = "write"] /\ UNCHANGED request
    BY ZenonT(60), <1>7, <1>8, <2>2 DEF Get, mapVars
  <2> QED BY <1>8, <2>1, <2>2 DEF Get
<1>9. ASSUME NEW w \in Writers, Write(w) PROVE Table!Apply(w)
  <2>1. PICK o \in {"ok", "error"} : Return(w, o)
    BY ZenonT(60), <1>9 DEF Write
  <2>2. snap[w].data = data
    BY <1>9 DEF Write, Accepted, Typed, SnapIsCurrent
  <2> QED BY ZenonT(60), <1>6, <1>9, <2>1, <2>2 DEF Write
<1>10. ASSUME NEW w \in Writers, Conflict(w) \/ Fail(w) PROVE Table!Refuse(w) \/ UNCHANGED Table!vars
  <2>1. UNCHANGED data /\ pc[w] \in {"get", "write"}
    BY <1>10 DEF Conflict, Fail, mapVars
  <2>2. CASE pc' = [pc EXCEPT ![w] = "get"] /\ UNCHANGED request
    BY ZenonT(60), <1>7, <2>1, <2>2
  <2>3. CASE Return(w, "error")
    BY <1>5, <2>1, <2>3
  <2> QED BY <1>10, <2>2, <2>3 DEF Conflict, Fail
<1> QED
  BY <1>1, <1>2, <1>3, <1>4, <1>8, <1>9, <1>10 DEF FilterNext, Table!Next

(* The read-modify-write calls on the shared ConfigMap (SetBranchIPFiltering,   *)
(* SetBranchesIPFiltering, DeleteBranchIPFiltering) implement a table on which   *)
(* each call takes effect at once and at most once: no update is lost.           *)
THEOREM ImplementsTable == FilterSpec => TableSpec
<1>1. FilterSpec => []IInv
  BY InitIInv, NextIInv, PTL DEF FilterSpec
<1> QED
  BY <1>1, InitTable, NextTable, PTL DEF FilterSpec, TableSpec, Table!Spec
===============================================================================
