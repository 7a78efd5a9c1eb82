-------------------------------- MODULE Roles --------------------------------
(***************************************************************************)
(* The roles of an organization's members (services/auth/roles), kept as      *)
(* membership of reserved Keycloak groups, and the roles recorded for         *)
(* invited addresses, kept as an attribute of the Viewer group.               *)
(*                                                                           *)
(* Keycloak has no transactions: an operation is a series of REST calls, each *)
(* of them a step here, and those of concurrent operations interleave.  The   *)
(* lists that rolesService.read fetches concurrently arrive in any order.     *)
(* One organization is modelled.                                              *)
(***************************************************************************)
EXTENDS Naturals, Sequences, FiniteSets

CONSTANTS
    Users,          \* users the organization has as members, "a" and "b" Admins
    NestedAdmins,   \* users in a subgroup that is named like the Admin group
    RoleCalls,      \* operations, each performed at most once
    RoleRequests,   \* what each of them may be asked
    MaxRoleFaults   \* bound on failed REST calls

VARIABLES
    kc,             \* Keycloak: members, top-level groups, recorded invitations
    roleCall,       \* the operations
    exempt,         \* something happened after which an Admin may be missing
    roleFaults      \* number of failed calls

roleVars == <<kc, roleCall, exempt, roleFaults>>

All == <<"admin", "editor", "viewer">>

(* The reserved groups, one for each role; other groups hold no role. *)
Groups == {"Admin", "Editor", "Viewer"}

RoleOfGroup == [Admin |-> "admin", Editor |-> "editor", Viewer |-> "viewer"]

GroupName == [admin |-> "Admin", editor |-> "Editor", viewer |-> "Viewer"]

Grantable(role, viewer) == role # "viewer" \/ viewer

Unassigned(viewer) == IF viewer THEN "viewer" ELSE "editor"

Rank(role) == CHOOSE i \in 1..Len(All) : All[i] = role

Holding(role, groups) == {g \in groups : RoleOfGroup[g] = role}

NoRequest == [op |-> "none", user |-> "none", role |-> "admin", by |-> "key", viewer |-> TRUE]

IdleCall ==
    [pc |-> "idle", req |-> NoRequest, groups |-> {}, listed |-> {}, todo |-> {}, members |-> {},
     in |-> [g \in Groups |-> {}], wasAdmin |-> FALSE, target |-> "Admin", admin |-> "Admin",
     attr |-> <<>>]

(* An organization with two Admins, one of whom is in another group as well, and *)
(* no group for Viewers yet.                                                     *)
RoleInit ==
    /\ kc = [members |-> Users, groups |-> Groups \ {"Viewer"}, invited |-> <<>>,
             in |-> [Admin |-> {"a", "b"}, Editor |-> Users \ {"a"}, Viewer |-> {}]]
    /\ roleCall = [c \in RoleCalls |-> IdleCall]
    /\ exempt = FALSE
    /\ roleFaults = 0

(* An operation that returned keeps nothing. *)
Returned == [IdleCall EXCEPT !.pc = "done"]

InProgress(c) == roleCall[c].pc \notin {"idle", "done"}

(* rolesByUser, over the lists an operation has fetched: members of a group who *)
(* are not members of the organization are dropped, and the most privileged     *)
(* group counts.                                                                *)
RolesByUser(members, in, groups, viewer) ==
    [u \in members |->
       LET held == {Rank(RoleOfGroup[g]) : g \in {g \in groups : u \in in[g]}} IN
       IF held = {} THEN Unassigned(viewer)
       ELSE All[CHOOSE r \in held : \A s \in held : r <= s]]

Current(c) ==
    LET k == roleCall[c] IN RolesByUser(k.members, k.in, k.listed, k.req.viewer)

WithRole(role, byUser) == {u \in DOMAIN byUser : byUser[u] = role}

LastAdmin(user, byUser) == WithRole("admin", byUser) = {user}

(* groupFor: the groups it may return, given those its caller listed.  A group  *)
(* that another operation created meanwhile is found by listing again.          *)
GroupFor(role, listed) ==
    IF Holding(role, listed) # {} THEN Holding(role, listed)
    ELSE IF GroupName[role] \notin kc.groups THEN {GroupName[role]}
    ELSE Holding(role, kc.groups)

-----------------------------------------------------------------------------
Begin(c) ==
    /\ roleCall[c].pc = "idle"
    /\ \E r \in RoleRequests[c] :
          /\ roleCall' = [roleCall EXCEPT ![c].pc = "list", ![c].req = r]
          \* the check that a member can be removed holds only until others act
          /\ exempt' = (exempt \/ \E d \in RoleCalls :
                           InProgress(d) /\ "leave" \in {r.op, roleCall[d].req.op})
    /\ UNCHANGED <<kc, roleFaults>>

(* ListGroups: the first call of every operation, and of keepAnAdmin. *)
ListGroups(c) ==
    /\ roleCall[c].pc \in {"list", "relist", "listRoles"}
    /\ LET k == roleCall[c] IN
       roleCall' = [roleCall EXCEPT ![c] =
          [k EXCEPT !.listed = kc.groups,
             !.groups = IF k.pc = "relist" THEN @ ELSE kc.groups,
             !.todo = IF k.pc = "listRoles" THEN kc.groups ELSE kc.groups \cup {"members"},
             !.pc = CASE k.pc = "listRoles" -> "clearAll"
                      [] k.pc = "relist" -> "reread"
                      [] k.req.op \in {"set", "leave"} -> "read"
                      [] OTHER -> "ensure"]]
    /\ UNCHANGED <<kc, exempt, roleFaults>>

(* ListMembers and ListGroupMembers. *)
ReadOne(c) ==
    /\ roleCall[c].pc \in {"read", "reread"}
    /\ \E x \in roleCall[c].todo :
          roleCall' = [roleCall EXCEPT ![c].todo = @ \ {x},
             ![c].members = IF x = "members" THEN kc.members ELSE @,
             ![c].in = [g \in Groups |-> IF g = x THEN kc.in[g] ELSE @[g]]]
    /\ UNCHANGED <<kc, exempt, roleFaults>>

(* The early returns of SetMember and CheckOrganizationMemberRemovable. *)
Refused(req, current) ==
    IF req.op = "leave" THEN LastAdmin(req.user, current)
    ELSE \/ req.by # "key" /\ req.by \notin WithRole("admin", current)
         \/ req.user \notin DOMAIN current
         \/ ~Grantable(req.role, req.viewer)
         \/ req.role # "admin" /\ LastAdmin(req.user, current)

Decide(c) ==
    /\ roleCall[c].pc = "read" /\ roleCall[c].todo = {}
    /\ LET k == roleCall[c] IN
       roleCall' = [roleCall EXCEPT ![c] =
          IF Refused(k.req, Current(c)) THEN Returned
          ELSE [k EXCEPT !.pc = IF k.req.op = "leave" THEN "remove" ELSE "target",
                         !.wasAdmin = k.req.user \in WithRole("admin", Current(c))]]
    /\ UNCHANGED <<kc, exempt, roleFaults>>

(* groupFor, in SetMember and in keepAnAdmin. *)
FindGroup(c) ==
    /\ roleCall[c].pc \in {"target", "adminGroup"}
    /\ LET k == roleCall[c]
           role == IF k.pc = "target" THEN k.req.role ELSE "admin" IN
       \E g \in GroupFor(role, k.groups) :
          /\ kc' = [kc EXCEPT !.groups = @ \cup {g}]
          /\ roleCall' = [roleCall EXCEPT
                ![c].pc = IF k.pc = "target" THEN "add" ELSE "restore",
                ![c].target = IF k.pc = "target" THEN g ELSE @,
                ![c].admin = IF k.pc = "target" THEN @ ELSE g]
    /\ UNCHANGED <<exempt, roleFaults>>

(* Mutant of AfterClear: nobody looks again after a demotion. *)
AfterClearReturns(k) == Returned

(* A member demoted from Admin: keepAnAdmin. *)
AfterClear(k) ==
    IF k.req.role = "admin" \/ ~k.wasAdmin THEN Returned
    ELSE [k EXCEPT !.pc = "relist", !.todo = {}, !.members = {}, !.in = IdleCall.in]

(* SetMember joins the new group first. *)
AddMember(c) ==
    /\ roleCall[c].pc = "add"
    /\ LET k == roleCall[c]
           others == k.groups \ Holding(k.req.role, k.groups) IN
       /\ kc' = [kc EXCEPT !.in[k.target] = @ \cup {k.req.user}]
       /\ roleCall' = [roleCall EXCEPT ![c] =
             IF others = {} THEN AfterClear(k) ELSE [k EXCEPT !.pc = "clear", !.todo = others]]
    /\ UNCHANGED <<exempt, roleFaults>>

(* Then it leaves the others.  It takes Admin away without looking again when   *)
(* the user was given it after the operation read the groups.                   *)
ClearRole(c) ==
    /\ roleCall[c].pc = "clear"
    /\ LET k == roleCall[c] IN
       \E g \in k.todo :
          /\ kc' = [kc EXCEPT !.in[g] = @ \ {k.req.user}]
          /\ roleCall' = [roleCall EXCEPT ![c] =
                IF k.todo = {g} THEN AfterClear(k) ELSE [k EXCEPT !.todo = @ \ {g}]]
          /\ exempt' = (exempt \/ (/\ RoleOfGroup[g] = "admin" /\ k.req.user \in kc.in[g]
                                   /\ ~k.wasAdmin))
    /\ UNCHANGED roleFaults

(* keepAnAdmin. *)
Recheck(c) ==
    /\ roleCall[c].pc = "reread" /\ roleCall[c].todo = {}
    /\ roleCall' = [roleCall EXCEPT ![c] =
          IF WithRole("admin", Current(c)) # {} THEN Returned ELSE [@ EXCEPT !.pc = "adminGroup"]]
    /\ UNCHANGED <<kc, exempt, roleFaults>>

RestoreAdmin(c) ==
    /\ roleCall[c].pc = "restore"
    /\ LET k == roleCall[c] IN kc' = [kc EXCEPT !.in[k.admin] = @ \cup {k.req.user}]
    /\ roleCall' = [roleCall EXCEPT ![c].pc = "undo"]
    /\ UNCHANGED <<exempt, roleFaults>>

UndoRole(c) ==
    /\ roleCall[c].pc = "undo"
    /\ LET k == roleCall[c] IN kc' = [kc EXCEPT !.in[k.target] = @ \ {k.req.user}]
    /\ roleCall' = [roleCall EXCEPT ![c] = Returned]
    /\ UNCHANGED <<exempt, roleFaults>>

-----------------------------------------------------------------------------
(* RemoveMember: the user leaves the organization, not its groups. *)
RemoveOrgMember(c) ==
    /\ roleCall[c].pc = "remove"
    /\ kc' = [kc EXCEPT !.members = @ \ {roleCall[c].req.user}]
    /\ roleCall' = [roleCall EXCEPT ![c].pc = "listRoles"]
    /\ UNCHANGED <<exempt, roleFaults>>

(* RemoveMemberFromAllRoles goes on after a call that fails. *)
ClearAll(c) ==
    /\ roleCall[c].pc = "clearAll"
    /\ LET k == roleCall[c] IN
       \E g \in k.todo, fails \in BOOLEAN :
          /\ IF fails THEN roleFaults < MaxRoleFaults /\ roleFaults' = roleFaults + 1 /\ kc' = kc
             ELSE kc' = [kc EXCEPT !.in[g] = @ \ {k.req.user}] /\ roleFaults' = roleFaults
          /\ roleCall' = [roleCall EXCEPT ![c] =
                IF k.todo = {g} THEN Returned ELSE [k EXCEPT !.todo = @ \ {g}]]
    /\ UNCHANGED exempt

(* ensureGroups: groupFor for each role in turn. *)
EnsureGroup(c) ==
    /\ roleCall[c].pc = "ensure"
    /\ LET k == roleCall[c]
           missing == {i \in 1..Len(All) : Holding(All[i], k.listed) = {}} IN
       IF missing = {}
       THEN /\ roleCall' = [roleCall EXCEPT
                  ![c].pc = IF k.req.op = "admins" THEN "grant" ELSE "getAttribute"]
            /\ kc' = kc
       ELSE LET role == All[CHOOSE i \in missing : \A j \in missing : i <= j] IN
            \E g \in GroupFor(role, k.listed) :
               /\ kc' = [kc EXCEPT !.groups = @ \cup {g}]
               /\ roleCall' = [roleCall EXCEPT ![c].listed = @ \cup {g}]
    /\ UNCHANGED <<exempt, roleFaults>>

(* AddAdmins. *)
GrantAdmin(c) ==
    /\ roleCall[c].pc = "grant"
    /\ \E g \in Holding("admin", roleCall[c].listed) :
          kc' = [kc EXCEPT !.in[g] = @ \cup {roleCall[c].req.user}]
    /\ roleCall' = [roleCall EXCEPT ![c] = Returned]
    /\ UNCHANGED <<exempt, roleFaults>>

(* What SetInvitation and ClearInvitation make of the recorded invitations. *)
InvitationsAfter(req, entries) ==
    LET kept == SelectSeq(entries, LAMBDA e : e[1] # req.user) IN
    IF req.op = "invite" THEN Append(kept, <<req.user, req.role>>) ELSE kept

(* UpdateGroupAttribute reads the attribute, and writes it unless nothing changes. *)
GetAttribute(c) ==
    /\ roleCall[c].pc = "getAttribute"
    /\ roleCall' = [roleCall EXCEPT ![c] =
          IF InvitationsAfter(@.req, kc.invited) = kc.invited THEN Returned
          ELSE [@ EXCEPT !.attr = kc.invited, !.pc = "putAttribute"]]
    /\ UNCHANGED <<kc, exempt, roleFaults>>

PutAttribute(c) ==
    /\ roleCall[c].pc = "putAttribute"
    /\ kc' = [kc EXCEPT !.invited = InvitationsAfter(roleCall[c].req, roleCall[c].attr)]
    /\ roleCall' = [roleCall EXCEPT ![c] = Returned]
    /\ UNCHANGED <<exempt, roleFaults>>

(* A REST call fails and the operation returns its error; a demotion that got as *)
(* far as leaving the Admin group is not undone.                                 *)
RoleCallFails(c) ==
    /\ InProgress(c) /\ roleCall[c].pc # "clearAll"
    /\ roleCall[c].pc \in {"read", "reread"} => roleCall[c].todo # {}
    /\ roleFaults < MaxRoleFaults
    /\ roleFaults' = roleFaults + 1
    /\ roleCall' = [roleCall EXCEPT ![c] = Returned]
    /\ exempt' = (exempt \/ (/\ roleCall[c].wasAdmin
                             /\ roleCall[c].pc \in {"clear", "relist", "reread", "adminGroup",
                                                    "restore"}))
    /\ UNCHANGED kc

RoleNext ==
    \E c \in RoleCalls :
       \/ Begin(c) \/ ListGroups(c) \/ ReadOne(c) \/ Decide(c) \/ FindGroup(c)
       \/ AddMember(c) \/ ClearRole(c) \/ Recheck(c) \/ RestoreAdmin(c) \/ UndoRole(c)
       \/ RemoveOrgMember(c) \/ ClearAll(c) \/ EnsureGroup(c) \/ GrantAdmin(c)
       \/ GetAttribute(c) \/ PutAttribute(c) \/ RoleCallFails(c)

-----------------------------------------------------------------------------
(* IsAdmin: Keycloak lists the subgroups a member is in too; only top-level      *)
(* groups hold a role.                                                           *)
MemberGroups(u) ==
    {[role |-> RoleOfGroup[g], depth |-> 1] : g \in {g \in kc.groups : u \in kc.in[g]}}
    \cup (IF u \in NestedAdmins THEN {[role |-> "admin", depth |-> 2]} ELSE {})

IsAdmin(u) ==
    u \in kc.members /\ \E g \in MemberGroups(u) : g.role = "admin" /\ g.depth <= 1

(* Audit's Admins. *)
AuditedAdmins == {u \in kc.members : \E g \in Holding("admin", kc.groups) : u \in kc.in[g]}

(* Whenever no operation is in progress the organization has an Admin, however   *)
(* demotions interleaved: keepAnAdmin looks again after its own demotion, so the *)
(* last of several to look restores one.  Three ways out are the code's own and  *)
(* are exempted: a removal whose check another operation overtook, a demotion    *)
(* cut short by a failed call, and a change of role that had read its user       *)
(* before another operation made them Admin, which takes Admin away unchecked.   *)
(* All along IsAdmin, the audit and the list of roles agree on who is an Admin,  *)
(* and an address has at most one recorded invitation.                           *)
KeepsAnAdmin ==
    /\ (~exempt /\ \A c \in RoleCalls : ~InProgress(c)) => AuditedAdmins # {}
    /\ \A viewer \in BOOLEAN :
          WithRole("admin", RolesByUser(kc.members, kc.in, kc.groups, viewer)) = AuditedAdmins
    /\ {u \in Users : IsAdmin(u)} = AuditedAdmins
    /\ \A i, j \in 1..Len(kc.invited) : kc.invited[i][1] = kc.invited[j][1] => i = j
=============================================================================
