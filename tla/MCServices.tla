----------------------------- MODULE MCServices -----------------------------
(* Instances for TLC of what serves a client: the dialing of a cluster by the    *)
(* gateway (ClusterDialer), the auth service (Roles, Access, Organizations,      *)
(* Vercel) and the settings of a branch (BranchSettings).                        *)
EXTENDS ClusterDialer, Roles, Access, Organizations, Vercel, MCBranchSettings

Symmetry == Permutations(Callers)

RoleRequest(op, user, role, by) ==
    [op |-> op, user |-> user, role |-> role, by |-> by, viewer |-> TRUE]

(* Two Admins are demoted, by each other and by an organization key, while a    *)
(* third member is promoted or demoted, one leaves, or a role is recorded.      *)
MCRoleRequests ==
    [r1 |-> { RoleRequest("set", "a", "editor", "key"), RoleRequest("invite", "x", "editor", "key") },
     r2 |-> { RoleRequest("set", "b", "viewer", "a"), RoleRequest("set", "u", "editor", "b"),
              RoleRequest("invite", "x", "admin", "key") },
     r3 |-> { RoleRequest("set", "u", "admin", "b"), RoleRequest("leave", "b", "admin", "key"),
              RoleRequest("admins", "u", "admin", "key"), RoleRequest("forget", "x", "admin", "key") }]

(* What concerns only the groups other than Admin decides nothing for anyone    *)
(* else: an operation does it before others move.                               *)
Minor == {"Editor", "Viewer"}

Urgent(c) ==
    LET k == roleCall[c] IN
    \/ k.pc \in {"read", "reread", "clear", "clearAll"} /\ k.todo \cap Minor # {}
    \/ k.pc \in {"read", "reread"} /\ k.todo = {}
    \/ k.pc = "add" /\ k.target \in Minor
    \/ k.pc \in {"undo", "target"}

MinorFirst ==
    LET urgent == {c \in RoleCalls : Urgent(c)} IN
    urgent # {} =>
       LET c == CHOOSE c \in urgent : TRUE
           done == roleCall[c].todo \ roleCall'[c].todo IN
       /\ roleCall'[c] # roleCall[c]
       /\ done \cap {"members", "Admin"} # {} =>
             (roleCall[c].todo \cap Minor = {} \/ roleFaults' # roleFaults)
-----------------------------------------------------------------------------
KeyRequest(by, name, scopes, projects, branches, expiry) ==
    [target |-> IF by = "k2" THEN "org" ELSE "user", name |-> name, by |-> by, expiry |-> expiry,
     grants |-> [scopes |-> scopes, projects |-> projects, branches |-> branches]]

(* A user creates a key, with which another is created, and a third with that. *)
MCKeyRequests ==
    [k1 |-> { KeyRequest("user", "n1", {"branch:write", "project:read"}, {"p1"}, {"b1", "b2"}, 2),
              KeyRequest("user", "n1", {}, {"p1", "p2"}, {}, 3) },
     k2 |-> { KeyRequest("k1", "n2", {"branch:read"}, {}, {"b1"}, 2),
              KeyRequest("k1", "n1", {"*", ""}, {"p1", ""}, {}, 1),
              KeyRequest("k1", "n2", {}, {"p1"}, {}, 1),
              KeyRequest("k1", "n2", {"*", "branch:read"}, {}, {}, 3) },
     k3 |-> { KeyRequest("k2", "n3", {}, {}, {}, 1), KeyRequest("k2", "n3", {"branch:write"}, {}, {}, 2),
              KeyRequest("k2", "n3", {"project:read"}, {"*"}, {}, 1),
              KeyRequest("k1", "n2", {"branch:read"}, {"p1"}, {"b3"}, 1) }]

MCProjectOf == [b1 |-> "p1", b2 |-> "p1", b3 |-> "p2"]

-----------------------------------------------------------------------------
OrgUpdate(disabled, billing, tier) ==
    [op |-> "update", disabled |-> disabled, billing |-> billing, tier |-> tier]

OtherOrgCall(op) == [NoChange EXCEPT !.op = op]

MCOrgRequests ==
    [o1 |-> { OrgUpdate("yes", "keep", "keep"), OrgUpdate("keep", "invoice_overdue", "t2") },
     o2 |-> { OrgUpdate("yes", "keep", "keep"), OrgUpdate("no", "ok", "keep"),
              OtherOrgCall("clean"), OtherOrgCall("delete"),
              OrgUpdate("keep", "deletion_requested", "keep") },
     o3 |-> { OrgUpdate("no", "ok", "keep"), OrgUpdate("keep", "keep", "t2"),
              OtherOrgCall("domains"), OtherOrgCall("delete") }]

-----------------------------------------------------------------------------
MCInstalls ==
    { [id |-> "i1", account |-> "a1", org |-> "x1"], [id |-> "i1", account |-> "a1", org |-> "x2"],
      [id |-> "i2", account |-> "a1", org |-> "x3"] }

VercelLink(r, s, b) == [resource |-> r, scope |-> s, branch |-> b]

MCProvisions ==
    { [id |-> 1, resource |-> "r1", project |-> "p1",
       links |-> {VercelLink("r1", "production", "b1"), VercelLink("r1", "preview", "b2")}],
      [id |-> 2, resource |-> "r1", project |-> "p2", links |-> {VercelLink("r1", "production", "b3")}],
      [id |-> 3, resource |-> "r2", project |-> "p3", links |-> {VercelLink("r2", "production", "b2")}] }

MCAdds == { VercelLink("r1", "preview", "b3"), VercelLink("r1", "pr", "b4"), VercelLink("r2", "pr", "b4") }

-----------------------------------------------------------------------------
(* One of the states the dialer starts from. *)
OneDialerInit ==
    /\ Init
    /\ branch.name /\ ~branch.pool /\ branch.scaleToZero /\ up /\ ~faulty
    /\ \A c \in Callers : dial[c].endpoint = "rw"

(* The parts share no state: one of them moves while the others have not started. *)
Parts == {"dials", "roles", "keys", "claims", "orgs", "token", "installs", "resources",
          "settings"}

NotStarted(part) ==
    CASE part = "dials" -> OneDialerInit
      [] part = "roles" -> RoleInit
      [] part = "keys" -> KeyInit
      [] part = "claims" -> ClaimInit
      [] part = "orgs" -> OrgInit /\ record.billing = "none"
      [] part = "token" -> TokenInit
      [] part = "installs" -> InstallInit
      [] part = "resources" -> ProvisionInit
      [] part = "settings" -> SettingsInit

Moving == LET started == {p \in Parts : ~NotStarted(p)} IN
          IF started = {} THEN Parts ELSE IF \E p \in started : started = {p} THEN started ELSE {}

ServicesInit ==
    /\ Init /\ RoleInit /\ KeyInit /\ ClaimInit /\ OrgInit /\ TokenInit /\ InstallInit
    /\ ProvisionInit /\ SettingsInit

ServicesNext ==
    \E part \in Moving :
       /\ \/ part = "dials" /\ Next
          \/ part = "roles" /\ RoleNext /\ MinorFirst
          \/ part = "keys" /\ KeyNext
          \/ part = "claims" /\ ClaimNext
          \/ part = "orgs" /\ OrgNext
          \/ part = "token" /\ TokenNext
          \/ part = "installs" /\ InstallNext
          \/ part = "resources" /\ ProvisionNext
          \/ part = "settings" /\ SettingsNext
       /\ part # "dials" => UNCHANGED vars
       /\ part # "roles" => UNCHANGED roleVars
       /\ part \notin {"keys", "claims"} => UNCHANGED accessVars
       /\ part \notin {"orgs", "token"} => UNCHANGED orgVars
       /\ part \notin {"installs", "resources"} => UNCHANGED vercelVars
       /\ part # "settings" => UNCHANGED settingsVars
=============================================================================
