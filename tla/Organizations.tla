---------------------------- MODULE Organizations ----------------------------
(***************************************************************************)
(* How an organization's record is changed (services/auth/orgs and the        *)
(* Keycloak client in services/auth/keycloak).                                *)
(*                                                                           *)
(* Keycloak replaces an organization as a whole: every change is a read of     *)
(* the record, a change of the copy and a write of the copy.  The status that  *)
(* results is then sent to the projects service, whose row OrgStatus models.   *)
(* Every request to Keycloak is sent with a cached token of the administrator. *)
(***************************************************************************)
EXTENDS Naturals

CONSTANTS
    OrgCalls,        \* operations on the organization, each performed at most once
    OrgRequests,     \* what each of them may be asked
    MaxOrgFaults,    \* bound on failed calls
    Requesters,      \* concurrent requests to Keycloak
    MaxRevocations   \* bound on the times Keycloak forgets its tokens

VARIABLES
    record,          \* the organization in Keycloak
    projectsRow,     \* the status last stored by the projects service
    orgCall,         \* the operations
    settled,         \* the last change of status was acknowledged, undisturbed
    tidy,            \* no operation that another one overlapped has written the record
    orgFaults,       \* number of failed calls
    token,           \* the cached token, the last one issued, those forgotten
    sending          \* requests to Keycloak

orgVars == <<record, projectsRow, orgCall, settled, tidy, orgFaults, token, sending>>

NoChange == [op |-> "none", disabled |-> "keep", billing |-> "keep", tier |-> "keep"]

IdleOrgCall == [pc |-> "idle", req |-> NoChange, alone |-> TRUE, state |-> "enabled",
                change |-> NoChange, sends |-> FALSE, enables |-> FALSE, copy |-> {}]

(* extractStatus: attributes that are missing have defaults, and a billing status *)
(* it does not know disables the organization.                                    *)
BillingStatuses == {"ok", "invoice_overdue", "no_payment_method", "deletion_requested"}

ExtractStatus(org) ==
    [org EXCEPT !.disabled = IF @ = "yes" THEN "yes" ELSE "no",
                !.billing = IF @ = "none" THEN "ok" ELSE IF @ \in BillingStatuses THEN @ ELSE "unknown",
                !.tier = IF @ = "t2" THEN "t2" ELSE "t1"]

(* An update asks for a status the API knows; nothing else asks for one. *)
ASSUME OrgRequestsAssumption ==
    OrgRequests \in [OrgCalls -> SUBSET
       ([op : {"update"}, disabled : {"yes", "no", "keep"}, billing : BillingStatuses \cup {"keep"},
         tier : {"t1", "t2", "keep"}]
        \cup {[NoChange EXCEPT !.op = op] : op \in {"delete", "domains", "clean"}})]

(* EffectiveState *)
EffectiveState(org) ==
    IF org.disabled = "no" /\ org.billing = "ok" THEN "enabled" ELSE "disabled"

OrgInit ==
    /\ \E billing \in {"none", "legacy"} :
          record = [disabled |-> "none", billing |-> billing, tier |-> "none", cleaned |-> FALSE,
                    deleted |-> FALSE, domains |-> {}]
    /\ projectsRow = "enabled"
    /\ orgCall = [c \in OrgCalls |-> IdleOrgCall]
    /\ settled = (record.billing = "none")
    /\ tidy = TRUE
    /\ orgFaults = 0

TokenInit ==
    /\ token = [cached |-> 0, issued |-> 0, forgotten |-> 0, revocations |-> 0]
    /\ sending = [r \in Requesters |-> [pc |-> "idle", with |-> 0, retried |-> FALSE,
                                        began |-> 0]]

Running(c) == orgCall[c].pc \notin {"idle", "done"}

Target(asked, current) == IF asked = "keep" THEN current ELSE asked

(* The record with the changes of an update. *)
Updated(org, req) ==
    [org EXCEPT !.disabled = Target(req.disabled, @), !.billing = Target(req.billing, @),
                !.tier = Target(req.tier, @)]

ChangesStatus(req) == req.disabled # "keep" \/ req.billing # "keep"

(* An operation returns: one that changes the status settles it if it succeeded  *)
(* and no other overlapped it.                                                   *)
ReturnOrgCall(c, ok) ==
    /\ orgCall' = [orgCall EXCEPT ![c] = [IdleOrgCall EXCEPT !.pc = "done"]]
    /\ settled' = IF ChangesStatus(orgCall[c].req) THEN ok /\ orgCall[c].alone ELSE settled

OrgCallGoesOn(c, next) == orgCall' = [orgCall EXCEPT ![c] = next]

-----------------------------------------------------------------------------
(* ListDisabledOrganizations, from which the clean-up of resources starts. *)
ListedForCleanup(org) ==
    EffectiveState(ExtractStatus(org)) = "disabled" /\ ~org.cleaned /\ ~org.deleted

BeginOrgCall(c) ==
    /\ orgCall[c].pc = "idle"
    /\ \E req \in OrgRequests[c] :
          LET others == {d \in OrgCalls : Running(d)} IN
          /\ req.op = "clean" => ListedForCleanup(record)
          /\ orgCall' = [d \in OrgCalls |->
                IF d = c THEN [IdleOrgCall EXCEPT !.req = req, !.alone = (others = {}),
                                  !.pc = IF req.op = "update" THEN "get" ELSE "search"]
                ELSE IF d \in others THEN [orgCall[d] EXCEPT !.alone = FALSE]
                ELSE orgCall[d]]
    /\ UNCHANGED <<record, projectsRow, settled, tidy, orgFaults, token, sending>>

(* What orgs.UpdateOrganization finds to write. *)
Change(req, org) ==
    [req EXCEPT !.disabled = IF @ = org.disabled THEN "keep" ELSE @,
                !.billing = IF @ = org.billing THEN "keep" ELSE @,
                !.tier = IF @ = org.tier THEN "keep" ELSE @]

(* Mutant of Propagates: only what was written is sent on. *)
PropagatesChange(req, change, org) ==
    ChangesStatus(change) /\ Updated(org, req).billing # "deletion_requested"

(* The status is sent on whenever the request names one, written or not, except  *)
(* for a deletion.                                                               *)
Propagates(req, change, org) ==
    ChangesStatus(req) /\ Updated(org, req).billing # "deletion_requested"

(* GetOrganization hides a deleted organization. *)
GetOrganization(c) ==
    /\ orgCall[c].pc = "get"
    /\ LET k == orgCall[c]
           org == ExtractStatus(record)
           change == Change(k.req, org)
           target == EffectiveState(Updated(org, k.req))
           next == [k EXCEPT !.state = target, !.change = change,
                       !.sends = Propagates(k.req, change, org),
                       !.enables = target = "enabled" /\ EffectiveState(org) = "disabled"] IN
       IF record.deleted THEN ReturnOrgCall(c, FALSE)
       ELSE IF Updated(org, change) # org
       THEN OrgCallGoesOn(c, [next EXCEPT !.pc = "search"]) /\ settled' = settled
       ELSE IF next.sends THEN OrgCallGoesOn(c, [next EXCEPT !.pc = "propagate"]) /\ settled' = settled
       ELSE ReturnOrgCall(c, TRUE)
    /\ UNCHANGED <<record, projectsRow, tidy, orgFaults, token, sending>>

(* The client's UpdateOrganization, DeleteOrganization and SetOrganizationDomains *)
(* read the whole record ...                                                      *)
SearchOrganization(c) ==
    /\ orgCall[c].pc = "search"
    /\ IF orgCall[c].req.op = "delete" /\ record.deleted
       THEN ReturnOrgCall(c, TRUE)
       ELSE /\ OrgCallGoesOn(c, [orgCall[c] EXCEPT !.pc = "put", !.copy = record])
            /\ settled' = settled
    /\ UNCHANGED <<record, projectsRow, tidy, orgFaults, token, sending>>

(* DeleteOrganization marks the record as deleted. *)
MarkDeleted(org) == [org EXCEPT !.deleted = TRUE]

(* SetOrganizationDomains replaces the domains. *)
WithDomains(org) == [org EXCEPT !.domains = {"d"}]

(* UpdateOrganization; the clean-up is recorded with it, and forgotten by an update *)
(* that enables the organization.                                                  *)
WithUpdate(org, k) ==
    IF k.req.op = "clean" THEN [org EXCEPT !.cleaned = TRUE]
    ELSE [Updated(org, k.change) EXCEPT !.cleaned = @ /\ ~k.enables]

Written(k) ==
    CASE k.req.op = "delete" -> MarkDeleted(k.copy)
      [] k.req.op = "domains" -> WithDomains(k.copy)
      [] OTHER -> WithUpdate(k.copy, k)

(* ... and write the whole record, as it was but for their change. *)
PutOrganization(c) ==
    /\ orgCall[c].pc = "put"
    /\ LET k == orgCall[c] IN
       /\ record' = Written(k)
       /\ tidy' = (tidy /\ k.alone)
       /\ IF k.sends
          THEN /\ OrgCallGoesOn(c, [k EXCEPT !.pc = "propagate"])
               /\ settled' = settled
          ELSE /\ orgCall' = [orgCall EXCEPT ![c] = [IdleOrgCall EXCEPT !.pc = "done"]]
               /\ settled' = IF k.req.op = "update" /\ ChangesStatus(k.req) THEN k.alone
                             ELSE settled /\ k.alone
    /\ UNCHANGED <<projectsRow, orgFaults, token, sending>>

(* UpdateOrganizationStatus of the projects service. *)
Propagate(c) ==
    /\ orgCall[c].pc = "propagate"
    /\ projectsRow' = orgCall[c].state
    /\ ReturnOrgCall(c, TRUE)
    /\ UNCHANGED <<record, tidy, orgFaults, token, sending>>

(* A call fails and the operation returns its error.  What it was to write may    *)
(* have been written, the answer lost.                                            *)
OrgCallFails(c) ==
    /\ Running(c) /\ orgFaults < MaxOrgFaults
    /\ orgFaults' = orgFaults + 1
    /\ orgCall' = [orgCall EXCEPT ![c] = [IdleOrgCall EXCEPT !.pc = "done"]]
    /\ settled' = (settled /\ ~ChangesStatus(orgCall[c].req) /\ orgCall[c].alone)
    /\ tidy' = (tidy /\ (orgCall[c].pc = "put" => orgCall[c].alone))
    /\ \/ record' = record /\ projectsRow' = projectsRow
       \/ orgCall[c].pc = "put" /\ record' = Written(orgCall[c]) /\ projectsRow' = projectsRow
       \/ orgCall[c].pc = "propagate" /\ record' = record /\ projectsRow' = orgCall[c].state
    /\ UNCHANGED <<token, sending>>

-----------------------------------------------------------------------------
(* getToken: the cached token, or a new one, for which the lock is held. *)
GetToken(r) ==
    /\ sending[r].pc \in {"idle", "retry"}
    /\ LET login == token.cached = 0
           t == IF login THEN token.issued + 1 ELSE token.cached IN
       /\ token' = [token EXCEPT !.cached = t, !.issued = IF login THEN t ELSE @]
       /\ sending' = [sending EXCEPT ![r].pc = "sent", ![r].with = t,
                         ![r].began = IF @ = 0 /\ sending[r].pc = "idle"
                                      THEN token.revocations + 1 ELSE @]
    /\ UNCHANGED <<record, projectsRow, orgCall, settled, tidy, orgFaults>>

(* invalidateToken *)
Invalidated == [token EXCEPT !.cached = 0]

(* makeAuthenticatedRequest: Keycloak's answer; a refusal is retried once with    *)
(* another token.                                                                 *)
Answer(r) ==
    /\ sending[r].pc = "sent"
    /\ LET refused == sending[r].with <= token.forgotten IN
       IF refused /\ ~sending[r].retried
       THEN /\ token' = Invalidated
            /\ sending' = [sending EXCEPT ![r].pc = "retry", ![r].retried = TRUE]
       ELSE /\ token' = token
            /\ sending' = [sending EXCEPT ![r].pc = IF refused THEN "refused" ELSE "ok"]
    /\ UNCHANGED <<record, projectsRow, orgCall, settled, tidy, orgFaults>>

(* Keycloak restarts and forgets the tokens it has issued. *)
Revoke ==
    /\ token.revocations < MaxRevocations /\ token.issued > token.forgotten
    /\ token' = [token EXCEPT !.forgotten = token.issued, !.revocations = @ + 1]
    /\ UNCHANGED <<record, projectsRow, orgCall, settled, tidy, orgFaults, sending>>

OrgNext ==
    \E c \in OrgCalls :
       \/ BeginOrgCall(c) \/ GetOrganization(c) \/ SearchOrganization(c)
       \/ PutOrganization(c) \/ Propagate(c) \/ OrgCallFails(c)

TokenNext == (\E r \in Requesters : GetToken(r) \/ Answer(r)) \/ Revoke

OrgSpec == OrgInit /\ TokenInit /\ [][OrgNext \/ TokenNext]_orgVars

-----------------------------------------------------------------------------
(* After an acknowledged change of status that nothing overlapped, the projects    *)
(* service has the status that Keycloak's record amounts to, whatever failed       *)
(* before: repeating a change that was written but not sent on sends it.  As long  *)
(* as no write of the record was overlapped, an organization that is enabled is    *)
(* not marked as cleaned up, so that its resources are cleaned up if it is         *)
(* disabled again.  And a request is refused for its token only when Keycloak      *)
(* forgot tokens while the request was under way: a token that was forgotten       *)
(* before is replaced.                                                             *)
StatusSettles ==
    /\ (settled /\ \A c \in OrgCalls : ~Running(c)) =>
          (record.billing # "deletion_requested" =>
              projectsRow = EffectiveState(ExtractStatus(record)))
    /\ (tidy /\ EffectiveState(ExtractStatus(record)) = "enabled") => ~record.cleaned
    /\ \A r \in Requesters :
          sending[r].pc = "refused" => token.revocations >= sending[r].began
=============================================================================
