-------------------------------- MODULE Vercel --------------------------------
(***************************************************************************)
(* The Vercel marketplace in the store of the auth service: installations,     *)
(* the resources provisioned for them and the branches of those resources      *)
(* (store_sql.go and vercel_resources_sql.go).                                 *)
(*                                                                           *)
(* A statement is a step, except where its locks matter: adding a branch locks *)
(* the resource's row before it inserts, and a transaction inserts a resource  *)
(* and its branches before it commits, its rows being invisible until then but  *)
(* in the way of rows with the same keys.                                      *)
(***************************************************************************)
EXTENDS Naturals, FiniteSets

CONSTANTS
    Installs,        \* calls of UpsertVercelInstallation: what each is called with
    Provisions,      \* calls of CreateVercelResourceAndBranches, under the lock
    Adds,            \* calls of AddVercelResourceBranch
    Resources

VARIABLES
    inst,            \* vercel_installations: those there are, by id
    install,         \* what each installing call was told
    res,             \* vercel_resources
    links,           \* vercel_resource_branches
    provision,       \* provisioning calls
    add              \* calls that add a branch

vercelVars == <<inst, install, res, links, provision, add>>

(* The branches of a provisioning call are those of its resource. *)
ASSUME VercelAssumption ==
    /\ \A p \in Provisions : p.resource \in Resources /\ \A l \in p.links : l.resource = p.resource
    /\ \A a \in Adds : a.resource \in Resources

InstIds == {i.id : i \in Installs}

Absent == [status |-> "absent", account |-> "", org |-> ""]

InstallInit ==
    /\ inst = [i \in InstIds |-> Absent]
    /\ install = [c \in Installs |-> "idle"]

ProvisionInit ==
    /\ res = [r \in Resources |-> [status |-> "absent", project |-> ""]]
    /\ links = {}
    /\ provision = [p \in Provisions |-> [pc |-> "idle", todo |-> {}]]
    /\ add = [a \in Adds |-> "idle"]

-----------------------------------------------------------------------------
Linked(account) == \E i \in InstIds : inst[i].status = "active" /\ inst[i].account = account

(* UpsertVercelInstallation: the first call inserts the row, later ones refresh   *)
(* what may change of an active one, and are told the organization that is        *)
(* stored; an installation that is being deleted stays so.                        *)
UpsertInstallation(c) ==
    /\ install[c] = "idle"
    /\ LET row == inst[c.id] IN
       IF row.status = "absent"
       THEN IF Linked(c.account)
            THEN inst' = inst /\ install' = [install EXCEPT ![c] = "failed"]
            ELSE /\ inst' = [inst EXCEPT ![c.id] =
                       [status |-> "active", account |-> c.account, org |-> c.org]]
                 /\ install' = [install EXCEPT ![c] = c.org]
       ELSE /\ inst' = inst
            /\ install' = [install EXCEPT ![c] =
                  IF row.status = "active" THEN row.org ELSE "failed"]
    /\ UNCHANGED <<res, links, provision, add>>

(* TriggerVercelInstallationDeletion *)
DeleteInstallation(i) ==
    /\ inst[i].status = "active"
    /\ inst' = [inst EXCEPT ![i].status = "deleting"]
    /\ UNCHANGED <<install, res, links, provision, add>>

-----------------------------------------------------------------------------
InTransaction(p) == provision[p].pc \in {"branches", "commit"}

Locked(r) == \E p \in Provisions : p.resource = r /\ provision[p].pc \notin {"idle", "done"}

(* TryAcquireVercelResourceLock: one provisions a resource, others are told it is *)
(* busy.                                                                          *)
TryAcquireLock(p) ==
    /\ provision[p].pc = "idle"
    /\ provision' = [provision EXCEPT ![p].pc = IF Locked(p.resource) THEN "done" ELSE "locked"]
    /\ UNCHANGED <<inst, install, res, links, add>>

(* Rows inserted by a transaction that has not committed make others wait. *)
Waits(resource, project) ==
    \E p \in Provisions : InTransaction(p) /\ (p.resource = resource \/ p.project = project)

(* insertVercelResource *)
InsertResource(p) ==
    /\ provision[p].pc = "locked"
    /\ ~Waits(p.resource, p.project)
    /\ provision' = [provision EXCEPT ![p] =
          IF res[p.resource].status # "absent" \/ \E r \in Resources : res[r].project = p.project
          THEN [@ EXCEPT !.pc = "done"]
          ELSE [pc |-> IF p.links = {} THEN "commit" ELSE "branches", todo |-> p.links]]
    /\ UNCHANGED <<inst, install, res, links, add>>

Clash(l, m) == m.branch = l.branch \/ (m.resource = l.resource /\ m.scope = l.scope)

BranchTaken(l) == \E m \in links : Clash(l, m)

(* The branches a transaction has inserted. *)
Inserted(p) == IF InTransaction(p) THEN p.links \ provision[p].todo ELSE {}

(* Another transaction's uncommitted row with the same branch. *)
BranchWaits(l, p) == \E q \in Provisions \ {p} : \E m \in Inserted(q) : m.branch = l.branch

(* insertVercelResourceBranch in the transaction: one that cannot be inserted     *)
(* rolls everything back.                                                         *)
InsertBranch(p) ==
    /\ provision[p].pc = "branches"
    /\ \E l \in provision[p].todo :
          /\ ~BranchWaits(l, p)
          /\ provision' = [provision EXCEPT ![p] =
                IF BranchTaken(l) \/ \E m \in Inserted(p) : Clash(l, m) THEN [@ EXCEPT !.pc = "done"]
                ELSE [pc |-> IF @.todo = {l} THEN "commit" ELSE "branches", todo |-> @.todo \ {l}]]
    /\ UNCHANGED <<inst, install, res, links, add>>

Link(l) == [resource |-> l.resource, scope |-> l.scope, branch |-> l.branch,
            status |-> "active", late |-> res[l.resource].status = "deleting"]

CommitProvision(p) ==
    /\ provision[p].pc = "commit"
    /\ res' = [res EXCEPT ![p.resource] = [status |-> "active", project |-> p.project]]
    /\ links' = links \cup {Link(l) : l \in p.links}
    /\ provision' = [provision EXCEPT ![p].pc = "done"]
    /\ UNCHANGED <<inst, install, add>>

-----------------------------------------------------------------------------
(* AddVercelResourceBranch takes the row of an active resource FOR SHARE ... *)
LockResource(a) ==
    /\ add[a] = "idle"
    /\ add' = [add EXCEPT ![a] = IF res[a.resource].status = "active" THEN "locked" ELSE "done"]
    /\ UNCHANGED <<inst, install, res, links, provision>>

(* ... and inserts, unless the scope or the branch is taken. *)
AddBranch(a) ==
    /\ add[a] = "locked"
    /\ \A p \in Provisions : \A m \in Inserted(p) : m.branch # a.branch
    /\ links' = IF BranchTaken(a) THEN links ELSE links \cup {Link(a)}
    /\ add' = [add EXCEPT ![a] = "done"]
    /\ UNCHANGED <<inst, install, res, provision>>

(* Mutant of DeleteResource: the locks on the row are not waited for. *)
DeleteResourceAnyway(r) ==
    /\ res[r].status = "active"
    /\ res' = [res EXCEPT ![r].status = "deleting"]
    /\ UNCHANGED <<inst, install, links, provision, add>>

(* TriggerVercelResourceDeletion waits for those who hold the row. *)
DeleteResource(r) ==
    /\ res[r].status = "active"
    /\ ~\E a \in Adds : a.resource = r /\ add[a] = "locked"
    /\ res' = [res EXCEPT ![r].status = "deleting"]
    /\ UNCHANGED <<inst, install, links, provision, add>>

(* TriggerVercelResourceBranchDeletion *)
DeleteLink(l) ==
    /\ l.status = "active"
    /\ links' = (links \ {l}) \cup {[l EXCEPT !.status = "deleting"]}
    /\ UNCHANGED <<inst, install, res, provision, add>>

InstallNext ==
    \/ \E c \in Installs : UpsertInstallation(c)
    \/ \E i \in InstIds : DeleteInstallation(i)

ProvisionNext ==
    \/ \E p \in Provisions : \/ TryAcquireLock(p) \/ InsertResource(p) \/ InsertBranch(p)
                             \/ CommitProvision(p)
    \/ \E a \in Adds : LockResource(a) \/ AddBranch(a)
    \/ \E r \in Resources : DeleteResource(r)
    \/ \E l \in links : DeleteLink(l)

VercelSpec == InstallInit /\ ProvisionInit /\ [][InstallNext \/ ProvisionNext]_vercelVars

-----------------------------------------------------------------------------
(* Everyone who installed an installation was told the organization it is linked   *)
(* to, which never changes, and an account has one active installation.  No branch *)
(* is linked to a resource once its deletion has begun, however the two calls      *)
(* interleave; a resource that exists has all the branches it was provisioned       *)
(* with; and no branch is linked twice, nor a project.                             *)
LinksHold ==
    /\ \A c \in Installs : install[c] \in {"idle", "failed", inst[c.id].org}
    /\ \A i, j \in InstIds : (inst[i].status = "active" /\ inst[j].status = "active"
                              /\ inst[i].account = inst[j].account) => i = j
    /\ \A l \in links : ~l.late /\ res[l.resource].status # "absent"
    /\ \A l, m \in links : Clash(l, m) => l = m
    /\ \A r, s \in Resources : (res[r].status # "absent" /\ res[s].status # "absent"
                                 /\ res[r].project = res[s].project) => r = s
    /\ \A r \in Resources : res[r].status # "absent" =>
          \E p \in Provisions : /\ p.resource = r
                                /\ \A l \in p.links : \E m \in links : m.resource = r /\ m.scope = l.scope
=============================================================================
