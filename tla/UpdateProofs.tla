----------------------------- MODULE UpdateProofs -----------------------------
(*****************************************************************************)
(* What an update leaves.  The status of an organization, for any number of  *)
(* calls, faults and restarts of Keycloak (Organizations); and the settings of a*)
(* branch through any sequence of updates, for any parameters, instance types,*)
(* images and libraries (BranchSettings).                                    *)
(*****************************************************************************)
EXTENDS Organizations, BranchSettings, TLAPS

-----------------------------------------------------------------------------
(* The status of an organization *)

OrgRecord == [disabled : {"none", "yes", "no"}, billing : {"none", "legacy"} \cup BillingStatuses,
              tier : {"none", "t1", "t2"}, cleaned : BOOLEAN, deleted : BOOLEAN, domains : SUBSET {"d"}]

OrgRequest ==
    [op : {"update", "delete", "domains", "clean", "none"}, disabled : {"yes", "no", "keep"},
     billing : BillingStatuses \cup {"keep"}, tier : {"t1", "t2", "keep"}]

OrgCall == [pc : {"idle", "get", "search", "put", "propagate", "done"}, req : OrgRequest, alone : BOOLEAN,
            state : {"enabled", "disabled"}, change : OrgRequest, sends : BOOLEAN, enables : BOOLEAN,
            copy : OrgRecord \cup {{}}]

OrgTypeOK ==
    /\ record \in OrgRecord
    /\ orgCall \in [OrgCalls -> OrgCall]
    /\ settled \in BOOLEAN /\ tidy \in BOOLEAN

Status(entry) == EffectiveState(ExtractStatus(entry))

(* The projects service has the status of the record. *)
Agreed == record.billing # "deletion_requested" => projectsRow = Status(record)

(* What an operation has found does not depend on what the others did, *)
OrgCallOK(k) ==
    /\ k.pc = "idle" => k = IdleOrgCall
    /\ k.pc \notin {"idle", "done"} => k.req.op # "none"
    /\ k.pc = "get" => k.req.op = "update"
    /\ k.pc = "put" => k.copy \in OrgRecord
    /\ k.pc = "propagate" => k.sends
    /\ k.sends => ChangesStatus(k.req)
    /\ k.req.op # "update" => ~ChangesStatus(k.req) /\ k.change = NoChange

(* or they did nothing since it found it. *)
Undisturbed(k) ==
    LET entry == ExtractStatus(record) IN
    /\ k.req.op = "clean" => Status(record) = "disabled"
    /\ k.pc \in {"search", "put"} /\ k.req.op = "update" =>
          /\ k.change = Change(k.req, entry)
          /\ k.state = EffectiveState(Updated(entry, k.req))
          /\ k.sends = Propagates(k.req, k.change, entry)
          /\ k.enables = (k.state = "enabled" /\ EffectiveState(entry) = "disabled")
    /\ k.pc = "put" => k.copy = record
    /\ k.pc = "propagate" => k.state = Status(record)

OrgInv ==
    /\ OrgTypeOK
    /\ \A c \in OrgCalls : OrgCallOK(orgCall[c])
    /\ \A c \in OrgCalls : Running(c) /\ orgCall[c].alone =>
          Undisturbed(orgCall[c]) /\ \A d \in OrgCalls : Running(d) => d = c
    /\ settled /\ (\A c \in OrgCalls : orgCall[c].pc # "propagate") => Agreed
    /\ tidy /\ Status(record) = "enabled" => ~record.cleaned

LEMMA UpdatedIs ==
    ASSUME NEW entry \in OrgRecord, NEW change \in OrgRequest, NEW w, w = Updated(entry, change)
    PROVE  /\ w \in OrgRecord /\ w.cleaned = entry.cleaned
           /\ w.disabled = (IF change.disabled = "keep" THEN entry.disabled ELSE change.disabled)
           /\ w.billing = (IF change.billing = "keep" THEN entry.billing ELSE change.billing)
<1>1. PICK d : d = IF change.disabled = "keep" THEN entry.disabled ELSE change.disabled
  OBVIOUS
<1>2. PICK b : b = IF change.billing = "keep" THEN entry.billing ELSE change.billing
  OBVIOUS
<1>3. PICK t : t = IF change.tier = "keep" THEN entry.tier ELSE change.tier
  OBVIOUS
<1>4. w = [entry EXCEPT !.disabled = d, !.billing = b, !.tier = t]
  BY <1>1, <1>2, <1>3 DEF Updated, Target
<1>5. d \in {"none", "yes", "no"} /\ t \in {"none", "t1", "t2"}
  BY <1>1, <1>3 DEF OrgRecord, OrgRequest
<1>6. b \in {"none", "legacy"} \cup BillingStatuses
  BY <1>2 DEF OrgRecord, OrgRequest
<1>7. w \in OrgRecord /\ w.cleaned = entry.cleaned /\ w.disabled = d /\ w.billing = b
  BY Zenon, <1>4, <1>5, <1>6 DEF OrgRecord
<1> QED
  BY <1>1, <1>2, <1>7

LEMMA ChangeIs ==
    ASSUME NEW req \in OrgRequest, NEW entry PROVE Change(req, entry) \in OrgRequest
<1>1. PICK d \in {"yes", "no", "keep"} : d = IF req.disabled = entry.disabled THEN "keep" ELSE req.disabled
  BY DEF OrgRequest
<1>2. PICK b \in BillingStatuses \cup {"keep"} : b = IF req.billing = entry.billing THEN "keep" ELSE req.billing
  BY DEF OrgRequest
<1>3. PICK t \in {"t1", "t2", "keep"} : t = IF req.tier = entry.tier THEN "keep" ELSE req.tier
  BY DEF OrgRequest
<1>4. Change(req, entry) = [req EXCEPT !.disabled = d, !.billing = b, !.tier = t]
  BY <1>1, <1>2, <1>3 DEF Change
<1> QED
  BY Zenon, <1>4 DEF OrgRequest

(* What an update writes has the status it computed, and a change that is already *)
(* there leaves it as it is.                                                      *)
LEMMA UpdateStatus ==
    ASSUME NEW entry \in OrgRecord, NEW req \in OrgRequest, NEW change,
           change = Change(req, ExtractStatus(entry))
    PROVE  /\ Updated(entry, change) \in OrgRecord
           /\ Status(Updated(entry, change)) = EffectiveState(Updated(ExtractStatus(entry), req))
           /\ Updated(ExtractStatus(entry), change) = ExtractStatus(entry) =>
                 EffectiveState(Updated(ExtractStatus(entry), req)) = Status(entry)
           /\ Updated(ExtractStatus(entry), req).billing = "deletion_requested" =>
                 Updated(entry, change).billing = "deletion_requested"
           /\ ~ChangesStatus(req) => /\ Updated(entry, change).billing = entry.billing
                                     /\ Status(Updated(entry, change)) = Status(entry)
           /\ Updated(ExtractStatus(entry), change) = ExtractStatus(entry)
              /\ Updated(ExtractStatus(entry), req).billing = "deletion_requested" =>
                 entry.billing = "deletion_requested"
<1>1. PICK found : found = ExtractStatus(entry)
  OBVIOUS
<1>2. /\ found.disabled = (IF entry.disabled = "yes" THEN "yes" ELSE "no")
      /\ found.billing = (IF entry.billing = "none" THEN "ok"
                          ELSE IF entry.billing \in BillingStatuses THEN entry.billing ELSE "unknown")
      /\ found.tier = (IF entry.tier = "t2" THEN "t2" ELSE "t1")
  BY <1>1 DEF OrgRecord, ExtractStatus
<1>3. PICK w : w = Updated(entry, change)
  OBVIOUS
<1>4. /\ change.disabled = (IF req.disabled = found.disabled THEN "keep" ELSE req.disabled)
      /\ change.billing = (IF req.billing = found.billing THEN "keep" ELSE req.billing)
      /\ change.tier = (IF req.tier = found.tier THEN "keep" ELSE req.tier)
  BY <1>1 DEF OrgRequest, Change
<1>5. /\ w \in OrgRecord
      /\ w.disabled = (IF change.disabled = "keep" THEN entry.disabled ELSE change.disabled)
      /\ w.billing = (IF change.billing = "keep" THEN entry.billing ELSE change.billing)
  BY <1>3, ChangeIs, UpdatedIs
<1>6. PICK target : target = Updated(found, req)
  OBVIOUS
<1>7. /\ target.disabled = (IF req.disabled = "keep" THEN found.disabled ELSE req.disabled)
      /\ target.billing = (IF req.billing = "keep" THEN found.billing ELSE req.billing)
  BY <1>1, <1>6 DEF Updated, Target, OrgRecord, ExtractStatus
<1>8. PICK read : read = ExtractStatus(w)
  OBVIOUS
<1>9. /\ read.disabled = (IF w.disabled = "yes" THEN "yes" ELSE "no")
      /\ read.billing = (IF w.billing = "none" THEN "ok"
                         ELSE IF w.billing \in BillingStatuses THEN w.billing ELSE "unknown")
  BY <1>5, <1>8 DEF OrgRecord, ExtractStatus
<1>10. read.disabled = target.disabled /\ read.billing = target.billing
  BY <1>2, <1>4, <1>5, <1>7, <1>9 DEF OrgRequest, OrgRecord, BillingStatuses
<1>11. Status(w) = EffectiveState(target)
  BY <1>8, <1>10 DEF Status, EffectiveState
<1>12. ASSUME Updated(found, change) = found PROVE target.disabled = found.disabled /\ target.billing = found.billing
  <2>1. /\ found.disabled = (IF change.disabled = "keep" THEN found.disabled ELSE change.disabled)
        /\ found.billing = (IF change.billing = "keep" THEN found.billing ELSE change.billing)
    BY Zenon, <1>1, <1>12 DEF Updated, Target, OrgRecord, ExtractStatus
  <2> QED
    BY <1>4, <1>7, <2>1
<1>13. Updated(found, change) = found => EffectiveState(target) = EffectiveState(found)
  BY <1>12 DEF EffectiveState
<1>14. target.billing = "deletion_requested" => w.billing = "deletion_requested"
  BY <1>2, <1>4, <1>5, <1>7 DEF OrgRequest, OrgRecord, BillingStatuses
<1>15. ~ChangesStatus(req) => w.billing = entry.billing /\ EffectiveState(target) = EffectiveState(found)
  BY <1>4, <1>5, <1>7 DEF ChangesStatus, EffectiveState
<1>16. found.billing = "deletion_requested" => entry.billing = "deletion_requested"
  BY <1>2
<1> QED
  BY <1>1, <1>3, <1>5, <1>6, <1>11, <1>12, <1>13, <1>14, <1>15, <1>16 DEF Status

(* What any operation writes into a copy of the record. *)
LEMMA WrittenIs ==
    ASSUME NEW k \in OrgCall, k.pc = "put", OrgCallOK(k)
    PROVE  /\ Written(k) \in OrgRecord
           /\ k.req.op # "update" => /\ Written(k).billing = k.copy.billing
                                     /\ Status(Written(k)) = Status(k.copy)
                                     /\ k.req.op # "clean" => Written(k).cleaned = k.copy.cleaned
           /\ k.req.op = "update" => /\ Written(k).billing = Updated(k.copy, k.change).billing
                                     /\ Status(Written(k)) = Status(Updated(k.copy, k.change))
                                     /\ Written(k).cleaned = (k.copy.cleaned /\ ~k.enables)
<1>1. PICK entry \in OrgRecord : entry = k.copy
  BY DEF OrgCallOK
<1>2. CASE k.req.op = "update"
  <2>1. PICK w : w = Updated(entry, k.change)
    OBVIOUS
  <2>2. w \in OrgRecord /\ w.cleaned = entry.cleaned
    <3>1. k.change \in OrgRequest
      BY DEF OrgCall
    <3> QED
      BY <2>1, <3>1, UpdatedIs
  <2>3. PICK x : x = [w EXCEPT !.cleaned = @ /\ ~k.enables]
    BY Zenon
  <2>4. Written(k) = x
    BY <1>1, <1>2, <2>1, <2>3 DEF Written, WithUpdate
  <2>5. x \in OrgRecord /\ x.billing = w.billing /\ x.disabled = w.disabled
    BY Zenon, <2>2, <2>3 DEF OrgRecord
  <2>6. x.cleaned = (entry.cleaned /\ ~k.enables)
    BY <2>2, <2>3 DEF OrgRecord
  <2>7. Status(x) = Status(w)
    BY <2>2, <2>5 DEF Status, EffectiveState, ExtractStatus, OrgRecord
  <2> QED
    BY <1>1, <1>2, <2>1, <2>4, <2>5, <2>6, <2>7
<1>3. CASE k.req.op # "update"
  <2>1. k.req.op \in {"delete", "domains", "clean"}
    BY <1>3 DEF OrgCallOK, OrgCall, OrgRequest
  <2>2. PICK w : w = Written(k)
    OBVIOUS
  <2>3. /\ k.req.op = "delete" => w = [entry EXCEPT !.deleted = TRUE]
        /\ k.req.op = "domains" => w = [entry EXCEPT !.domains = {"d"}]
        /\ k.req.op = "clean" => w = [entry EXCEPT !.cleaned = TRUE]
    BY <1>1, <2>1, <2>2 DEF Written, MarkDeleted, WithDomains, WithUpdate
  <2>4. w \in OrgRecord /\ w.billing = entry.billing /\ w.disabled = entry.disabled
    BY Zenon, <2>1, <2>3 DEF OrgRecord
  <2>5. k.req.op # "clean" => w.cleaned = entry.cleaned
    BY <2>1, <2>3 DEF OrgRecord
  <2>6. Status(w) = Status(entry)
    BY <2>4 DEF Status, EffectiveState, ExtractStatus, OrgRecord
  <2> QED
    BY <1>1, <1>3, <2>2, <2>4, <2>5, <2>6
<1> QED
  BY <1>2, <1>3

LEMMA IdleOrgCallOK ==
    LET done == [IdleOrgCall EXCEPT !.pc = "done"] IN
    IdleOrgCall \in OrgCall /\ done \in OrgCall /\ done.pc = "done" /\ OrgCallOK(done)
  BY Zenon DEF IdleOrgCall, OrgCall, OrgCallOK, NoChange, OrgRequest, ChangesStatus

(* An operation goes on or ends, and the record stays. *)
LEMMA OrgStep ==
    ASSUME OrgInv, NEW c \in OrgCalls, Running(c), NEW next \in OrgCall,
           orgCall' = [orgCall EXCEPT ![c] = next], record' = record, {settled', tidy'} \subseteq BOOLEAN, tidy' => tidy,
           next.pc # "idle", next.pc = "done" \/ next.alone = orgCall[c].alone, OrgCallOK(next),
           next.pc # "done" /\ next.alone => Undisturbed(next),
           settled' /\ (\A d \in OrgCalls : orgCall'[d].pc # "propagate") => Agreed'
    PROVE  OrgInv'
<1>1. \A d \in OrgCalls : orgCall'[d] = IF d = c THEN next ELSE orgCall[d]
  BY DEF OrgInv, OrgTypeOK
<1>2. OrgTypeOK'
  BY DEF OrgInv, OrgTypeOK
<1>3. \A d \in OrgCalls : OrgCallOK(orgCall'[d])
  BY <1>1 DEF OrgInv
<1>4. \A d \in OrgCalls : Running(d)' => Running(d)
  BY <1>1 DEF Running
<1>5. ASSUME NEW d \in OrgCalls, Running(d)', orgCall'[d].alone
      PROVE  Undisturbed(orgCall[d])' /\ \A e \in OrgCalls : Running(e)' => e = d
  <2>1. orgCall[d].alone
    BY <1>1, <1>5 DEF Running
  <2>2. Undisturbed(orgCall'[d])
    BY <1>1, <1>4, <1>5, <2>1 DEF OrgInv, Running
  <2>3. Undisturbed(orgCall[d])'
    BY SMTT(40), <2>2 DEF Undisturbed
  <2> QED
    BY <1>4, <1>5, <2>1, <2>3 DEF OrgInv
<1>6. tidy' /\ Status(record') = "enabled" => ~record'.cleaned
  BY DEF OrgInv
<1>7. \A d \in OrgCalls : OrgCallOK(orgCall[d])'
  BY <1>3 DEF OrgCallOK
<1>8. (Status(record) = "enabled")' <=> Status(record') = "enabled"
  BY DEF Status, EffectiveState, ExtractStatus
<1> QED
  BY <1>2, <1>5, <1>6, <1>7, <1>8 DEF OrgInv

(* Agreement is kept when only the operations move. *)
LEMMA AgreedKept ==
    ASSUME OrgInv, record' = record, projectsRow' = projectsRow, settled,
           \A d \in OrgCalls : orgCall[d].pc # "propagate"
    PROVE  Agreed'
<1>1. Agreed
  BY DEF OrgInv
<1> QED
  BY <1>1 DEF Agreed, Status

LEMMA BeginOrgCallInv ==
    ASSUME OrgInv, NEW c \in OrgCalls, BeginOrgCall(c) PROVE OrgInv'
<1>1. PICK req \in OrgRequests[c] :
        LET others == {d \in OrgCalls : Running(d)} IN
        /\ req.op = "clean" => ListedForCleanup(record)
        /\ orgCall' = [d \in OrgCalls |->
              IF d = c THEN [IdleOrgCall EXCEPT !.req = req, !.alone = (others = {}),
                                !.pc = IF req.op = "update" THEN "get" ELSE "search"]
              ELSE IF d \in others THEN [orgCall[d] EXCEPT !.alone = FALSE]
              ELSE orgCall[d]]
  BY Zenon DEF BeginOrgCall
<1>2. /\ req \in OrgRequest /\ req.op # "none"
      /\ req.op # "update" => ~ChangesStatus(req)
  BY OrgRequestsAssumption DEF OrgRequest, NoChange, ChangesStatus
<1>3. orgCall[c] = IdleOrgCall /\ ~Running(c)
  BY Zenon DEF BeginOrgCall, OrgInv, OrgCallOK, Running
<1>4. PICK first : first = [IdleOrgCall EXCEPT !.req = req, !.alone = ({d \in OrgCalls : Running(d)} = {}),
                               !.pc = IF req.op = "update" THEN "get" ELSE "search"]
  BY Zenon
<1>5. /\ first.pc = (IF req.op = "update" THEN "get" ELSE "search") /\ first.req = req
      /\ first.alone = ({d \in OrgCalls : Running(d)} = {}) /\ first.state = "enabled" /\ first.change = NoChange
      /\ first.sends = FALSE /\ first.enables = FALSE /\ first.copy = {}
  BY <1>4 DEF IdleOrgCall
<1>6. first \in OrgCall
  BY Zenon, <1>2, <1>4, IdleOrgCallOK DEF OrgCall, IdleOrgCall
<1>7. OrgCallOK(first)
  BY <1>2, <1>5 DEF OrgCallOK
<1>8. /\ orgCall'[c] = first
      /\ \A d \in OrgCalls : d # c /\ Running(d) => orgCall'[d] = [orgCall[d] EXCEPT !.alone = FALSE]
      /\ \A d \in OrgCalls : d # c /\ ~Running(d) => orgCall'[d] = orgCall[d]
      /\ DOMAIN orgCall' = OrgCalls /\ orgCall' = [d \in OrgCalls |-> orgCall'[d]]
  <2>1. orgCall'[c] = first
    BY Zenon, <1>1, <1>4
  <2> QED
    BY Zenon, <1>1, <2>1
<1>9. ASSUME NEW d \in OrgCalls PROVE orgCall'[d] \in OrgCall /\ OrgCallOK(orgCall'[d])
  <2>1. CASE d = c
    BY <1>6, <1>7, <1>8, <2>1
  <2>2. CASE d # c /\ Running(d)
    <3>1. PICK k \in OrgCall : k = orgCall[d]
      BY DEF OrgInv, OrgTypeOK
    <3>2. PICK next : next = [k EXCEPT !.alone = FALSE]
      BY Zenon
    <3>3. /\ next \in OrgCall /\ next.pc = k.pc /\ next.req = k.req /\ next.sends = k.sends
          /\ next.change = k.change /\ next.copy = k.copy
      BY Zenon, <3>2 DEF OrgCall
    <3>4. orgCall'[d] = next
      BY <1>8, <2>2, <3>1, <3>2
    <3>5. OrgCallOK(k) /\ k.pc # "idle"
      BY <2>2, <3>1 DEF OrgInv, Running
    <3>6. OrgCallOK(next)
      BY <3>3, <3>5 DEF OrgCallOK
    <3> QED
      BY <3>3, <3>4, <3>6
  <2>3. CASE d # c /\ ~Running(d)
    BY <1>8, <2>3 DEF OrgInv, OrgTypeOK
  <2> QED
    BY <2>1, <2>2, <2>3
<1>10. OrgTypeOK'
  BY Zenon, <1>8, <1>9 DEF OrgInv, OrgTypeOK, BeginOrgCall
<1>11. \A d \in OrgCalls : d # c =>
         /\ orgCall'[d].pc = orgCall[d].pc /\ Running(d)' = Running(d) /\ (Running(d) => ~orgCall'[d].alone)
  <2> SUFFICES ASSUME NEW d \in OrgCalls, d # c
               PROVE  orgCall'[d].pc = orgCall[d].pc /\ (Running(d) => ~orgCall'[d].alone)
    BY DEF Running
  <2>1. orgCall[d] \in OrgCall
    BY DEF OrgInv, OrgTypeOK
  <2> QED
    BY <1>8, <2>1 DEF OrgCall
<1>12. ASSUME NEW d \in OrgCalls, Running(d)', orgCall'[d].alone
       PROVE  Undisturbed(orgCall[d])' /\ \A e \in OrgCalls : Running(e)' => e = d
  <2>1. d = c /\ \A e \in OrgCalls : ~Running(e)
    BY Zenon, <1>5, <1>8, <1>11, <1>12
  <2>2. record' = record /\ (req.op = "clean" => Status(record) = "disabled")
    BY Zenon, <1>1 DEF BeginOrgCall, ListedForCleanup, Status
  <2>3. Undisturbed(orgCall[d])'
    BY <1>5, <1>8, <2>1, <2>2 DEF Undisturbed, Status
  <2> QED
    BY <1>11, <2>1, <2>3
<1>13. UNCHANGED <<record, projectsRow, settled, tidy>>
  BY Zenon DEF BeginOrgCall
<1>14. settled' /\ (\A d \in OrgCalls : orgCall'[d].pc # "propagate") => Agreed'
  <2>1. orgCall[c].pc # "propagate"
    BY Zenon DEF BeginOrgCall
  <2> QED
    BY <1>11, <1>13, <2>1, AgreedKept
<1>15. (tidy /\ Status(record) = "enabled" => ~record.cleaned)'
  BY <1>13 DEF OrgInv, Status
<1>16. \A d \in OrgCalls : OrgCallOK(orgCall[d])'
  BY <1>9 DEF OrgCallOK
<1> QED
  BY <1>10, <1>12, <1>14, <1>15, <1>16 DEF OrgInv

(* An operation returns without having written anything. *)
LEMMA OrgReturn ==
    ASSUME OrgInv, NEW c \in OrgCalls, Running(c), orgCall[c].pc = "propagate" => ~settled',
           orgCall' = [orgCall EXCEPT ![c] = [IdleOrgCall EXCEPT !.pc = "done"]],
           UNCHANGED <<record, projectsRow>>, {settled', tidy'} \subseteq BOOLEAN, tidy' => tidy,
           settled' => settled \/ record.billing = "deletion_requested"
    PROVE  OrgInv'
<1>1. PICK next \in OrgCall : /\ next = [IdleOrgCall EXCEPT !.pc = "done"]
                              /\ next.pc = "done" /\ OrgCallOK(next)
  BY Zenon, IdleOrgCallOK
<1>2. \A d \in OrgCalls : orgCall'[d] = IF d = c THEN next ELSE orgCall[d]
  BY <1>1 DEF OrgInv, OrgTypeOK
<1>3. ASSUME settled', \A d \in OrgCalls : orgCall'[d].pc # "propagate" PROVE Agreed'
  <2>1. \A d \in OrgCalls : orgCall[d].pc # "propagate"
    BY <1>2, <1>3
  <2>2. record.billing = "deletion_requested" => Agreed'
    BY DEF Agreed
  <2> QED
    BY <1>3, <2>1, <2>2, AgreedKept
<1> QED
  BY Zenon, <1>1, <1>3, OrgStep

LEMMA GetOrganizationInv ==
    ASSUME OrgInv, NEW c \in OrgCalls, GetOrganization(c) PROVE OrgInv'
<1>1. PICK k \in OrgCall : k = orgCall[c]
  BY DEF OrgInv, OrgTypeOK
<1>2. /\ k.pc = "get" /\ OrgCallOK(k) /\ k.req.op = "update" /\ k.req \in OrgRequest /\ Running(c)
      /\ UNCHANGED <<record, projectsRow, tidy>> /\ settled \in BOOLEAN /\ tidy \in BOOLEAN /\ record \in OrgRecord
  BY <1>1 DEF GetOrganization, OrgInv, OrgCallOK, OrgCall, Running, OrgTypeOK
<1>3. PICK entry, change, target :
        /\ entry = ExtractStatus(record) /\ change = Change(k.req, entry)
        /\ target = EffectiveState(Updated(entry, k.req))
  OBVIOUS
<1>4. PICK next : next = [k EXCEPT !.state = target, !.change = change, !.sends = Propagates(k.req, change, entry),
                             !.enables = target = "enabled" /\ EffectiveState(entry) = "disabled"]
  OBVIOUS
<1>5. /\ Updated(entry, change) = entry => target = Status(record)
      /\ Updated(entry, change) = entry /\ Updated(entry, k.req).billing = "deletion_requested" =>
            record.billing = "deletion_requested"
  BY <1>2, <1>3, UpdateStatus
<1>6. change \in OrgRequest /\ target \in {"enabled", "disabled"}
  BY Zenon, <1>2, <1>3 DEF Change, OrgRequest, EffectiveState
<1>7. /\ next.pc = k.pc /\ next.req = k.req /\ next.alone = k.alone /\ next.state = target /\ next.change = change
      /\ next.sends = Propagates(k.req, change, entry) /\ next.copy = k.copy
      /\ next.enables = (target = "enabled" /\ EffectiveState(entry) = "disabled")
      /\ next \in OrgCall
  <2>1. /\ Propagates(k.req, change, entry) \in BOOLEAN
        /\ (target = "enabled" /\ EffectiveState(entry) = "disabled") \in BOOLEAN
    BY DEF Propagates, ChangesStatus
  <2> QED
    BY Zenon, <1>4, <1>6, <2>1 DEF OrgCall
<1>8. ASSUME NEW at \in {"search", "propagate"}, orgCall' = [orgCall EXCEPT ![c] = [next EXCEPT !.pc = at]],
             settled' = settled, at = "propagate" => next.sends /\ Updated(entry, change) = entry
      PROVE  OrgInv'
  <2>1. PICK then : then = [next EXCEPT !.pc = at]
    BY Zenon
  <2>2. /\ then \in OrgCall /\ then.pc = at /\ then.req = k.req /\ then.alone = k.alone /\ then.state = target
        /\ then.change = change /\ then.sends = next.sends /\ then.enables = next.enables
    BY <1>7, <2>1 DEF OrgCall
  <2>3. OrgCallOK(then)
    BY Zenon, <1>2, <1>7, <1>8, <2>2 DEF OrgCallOK, Propagates
  <2>4. Undisturbed(then)
    BY <1>2, <1>3, <1>5, <1>7, <1>8, <2>2 DEF Undisturbed
  <2>5. ASSUME settled', \A d \in OrgCalls : orgCall'[d].pc # "propagate" PROVE Agreed'
    <3>1. \A d \in OrgCalls : orgCall'[d] = IF d = c THEN then ELSE orgCall[d]
      BY <1>8, <2>1 DEF OrgInv, OrgTypeOK
    <3>2. \A d \in OrgCalls : orgCall[d].pc # "propagate"
      BY <1>1, <1>2, <2>5, <3>1
    <3> QED
      BY <1>2, <1>8, <2>5, <3>2, AgreedKept
  <2> QED
    BY Zenon, <1>1, <1>2, <1>8, <2>1, <2>2, <2>3, <2>4, <2>5, OrgStep
<1>9. CASE record.deleted
  <2>1. ReturnOrgCall(c, FALSE)
    BY Zenon, <1>9 DEF GetOrganization
  <2>2. settled' \in BOOLEAN /\ (settled' => settled)
    BY Zenon, <1>2, <2>1 DEF ReturnOrgCall
  <2> QED
    BY Zenon, <1>1, <1>2, <2>1, <2>2, OrgReturn DEF ReturnOrgCall
<1>10. CASE ~record.deleted /\ Updated(entry, change) # entry
  BY <1>1, <1>3, <1>4, <1>8, <1>10 DEF GetOrganization, OrgCallGoesOn
<1>11. CASE ~record.deleted /\ Updated(entry, change) = entry /\ next.sends
  BY <1>1, <1>3, <1>4, <1>8, <1>11 DEF GetOrganization, OrgCallGoesOn
<1>12. CASE ~record.deleted /\ Updated(entry, change) = entry /\ ~next.sends
  <2>1. ReturnOrgCall(c, TRUE)
    BY Zenon, <1>1, <1>3, <1>4, <1>12 DEF GetOrganization
  <2>2. ChangesStatus(k.req) => record.billing = "deletion_requested"
    BY Zenon, <1>5, <1>7, <1>12 DEF Propagates
  <2>3. settled' \in BOOLEAN /\ (settled' => settled \/ record.billing = "deletion_requested")
    BY <1>1, <1>2, <2>1, <2>2 DEF ReturnOrgCall, OrgCall
  <2> QED
    BY Zenon, <1>1, <1>2, <2>1, <2>3, OrgReturn DEF ReturnOrgCall
<1> QED
  BY <1>9, <1>10, <1>11, <1>12

LEMMA SearchOrganizationInv ==
    ASSUME OrgInv, NEW c \in OrgCalls, SearchOrganization(c) PROVE OrgInv'
<1>1. PICK k \in OrgCall : k = orgCall[c]
  BY DEF OrgInv, OrgTypeOK
<1>2. /\ k.pc = "search" /\ OrgCallOK(k) /\ Running(c)
      /\ UNCHANGED <<record, projectsRow, tidy>> /\ settled \in BOOLEAN /\ tidy \in BOOLEAN
      /\ record \in OrgRecord
      /\ k.alone => Undisturbed(k)
  BY <1>1 DEF SearchOrganization, OrgInv, OrgTypeOK, Running
<1>3. CASE ReturnOrgCall(c, TRUE) /\ k.req.op = "delete"
  <2>1. settled' = settled
    BY <1>1, <1>2, <1>3 DEF ReturnOrgCall, OrgCallOK
  <2>2. settled' \in BOOLEAN /\ (settled' => settled) /\ orgCall[c].pc # "propagate"
    BY <1>1, <1>2, <2>1
  <2>3. orgCall' = [orgCall EXCEPT ![c] = [IdleOrgCall EXCEPT !.pc = "done"]]
    BY <1>3 DEF ReturnOrgCall
  <2> QED
    BY Zenon, <1>2, <2>2, <2>3, OrgReturn
<1>4. CASE orgCall' = [orgCall EXCEPT ![c] = [k EXCEPT !.pc = "put", !.copy = record]] /\ settled' = settled
  <2>1. PICK next : next = [k EXCEPT !.pc = "put", !.copy = record]
    OBVIOUS
  <2>2. /\ next \in OrgCall /\ next.pc = "put" /\ next.copy = record /\ next.req = k.req /\ next.alone = k.alone
        /\ next.state = k.state /\ next.change = k.change /\ next.sends = k.sends /\ next.enables = k.enables
    BY Zenon, <1>2, <2>1 DEF OrgCall
  <2>3. OrgCallOK(next) /\ (next.alone => Undisturbed(next))
    BY <1>2, <2>2 DEF OrgCallOK, Undisturbed
  <2>4. ASSUME settled', \A d \in OrgCalls : orgCall'[d].pc # "propagate" PROVE Agreed'
    <3>1. \A d \in OrgCalls : orgCall'[d] = IF d = c THEN next ELSE orgCall[d]
      BY <1>4, <2>1 DEF OrgInv, OrgTypeOK
    <3>2. \A d \in OrgCalls : orgCall[d].pc # "propagate"
      BY <1>1, <1>2, <2>4, <3>1
    <3> QED
      BY <1>2, <1>4, <2>4, <3>2, AgreedKept
  <2> QED
    BY Zenon, <1>1, <1>2, <1>4, <2>1, <2>2, <2>3, <2>4, OrgStep
<1> QED
  BY Zenon, <1>1, <1>3, <1>4 DEF SearchOrganization, OrgCallGoesOn

(* The write of the record: with or without its answer. *)
LEMMA PutStep ==
    ASSUME OrgInv, NEW c \in OrgCalls, NEW k \in OrgCall, k = orgCall[c], k.pc = "put",
           record' = Written(k), projectsRow' = projectsRow, tidy' = (tidy /\ k.alone), settled' \in BOOLEAN,
           NEW next \in OrgCall, orgCall' = [orgCall EXCEPT ![c] = next], OrgCallOK(next),
           \/ next.pc = "done"
           \/ /\ next.pc = "propagate" /\ next.alone = k.alone /\ next.state = k.state /\ next.req = k.req
              /\ k.sends,
           settled' /\ next.pc = "done" =>
              /\ k.alone
              /\ (settled /\ ~ChangesStatus(k.req)) \/ (k.req.op = "update" /\ ChangesStatus(k.req) /\ ~k.sends)
    PROVE  OrgInv'
<1>1. /\ OrgCallOK(k) /\ k.copy \in OrgRecord /\ k.req \in OrgRequest
      /\ Running(c) /\ record \in OrgRecord
  BY DEF OrgInv, OrgTypeOK, OrgCall, OrgCallOK, Running
<1>2. /\ Written(k) \in OrgRecord
      /\ k.req.op # "update" => /\ Written(k).billing = k.copy.billing
                                /\ Status(Written(k)) = Status(k.copy)
                                /\ k.req.op # "clean" => Written(k).cleaned = k.copy.cleaned
      /\ k.req.op = "update" => /\ Written(k).billing = Updated(k.copy, k.change).billing
                                /\ Status(Written(k)) = Status(Updated(k.copy, k.change))
                                /\ Written(k).cleaned = (k.copy.cleaned /\ ~k.enables)
  BY <1>1, WrittenIs
<1>3. ASSUME k.alone
      PROVE  /\ k.copy = record /\ (\A d \in OrgCalls : Running(d) => d = c)
             /\ k.req.op = "clean" => Status(record) = "disabled"
             /\ k.req.op = "update" =>
                   /\ k.state = Status(Written(k))
                   /\ k.enables = (k.state = "enabled" /\ Status(record) = "disabled")
                   /\ ChangesStatus(k.req) /\ ~k.sends => Written(k).billing = "deletion_requested"
                   /\ ~ChangesStatus(k.req) => /\ Written(k).billing = record.billing
                                               /\ Status(Written(k)) = Status(record)
  <2>1. Undisturbed(k) /\ (\A d \in OrgCalls : Running(d) => d = c)
    BY <1>1, <1>3 DEF OrgInv
  <2>2. k.copy = record /\ (k.req.op = "clean" => Status(record) = "disabled")
    BY <2>1 DEF Undisturbed
  <2>3. ASSUME k.req.op = "update"
        PROVE  /\ k.state = Status(Written(k))
               /\ k.enables = (k.state = "enabled" /\ Status(record) = "disabled")
               /\ ChangesStatus(k.req) /\ ~k.sends => Written(k).billing = "deletion_requested"
               /\ ~ChangesStatus(k.req) => /\ Written(k).billing = record.billing
                                           /\ Status(Written(k)) = Status(record)
    <3>1. PICK entry : entry = ExtractStatus(record)
      OBVIOUS
    <3>2. /\ k.change = Change(k.req, entry) /\ k.state = EffectiveState(Updated(entry, k.req))
          /\ k.sends = Propagates(k.req, k.change, entry)
          /\ k.enables = (k.state = "enabled" /\ EffectiveState(entry) = "disabled")
      BY <2>1, <2>3, <3>1 DEF Undisturbed
    <3>3. /\ Status(Updated(record, k.change)) = EffectiveState(Updated(entry, k.req))
          /\ Updated(entry, k.req).billing = "deletion_requested" =>
                Updated(record, k.change).billing = "deletion_requested"
          /\ ~ChangesStatus(k.req) => /\ Updated(record, k.change).billing = record.billing
                                      /\ Status(Updated(record, k.change)) = Status(record)
      BY <1>1, <3>1, <3>2, UpdateStatus
    <3>4. Status(record) = EffectiveState(entry)
      BY <3>1 DEF Status
    <3>5. ChangesStatus(k.req) /\ ~k.sends => Updated(entry, k.req).billing = "deletion_requested"
      BY Zenon, <3>2 DEF Propagates
    <3> QED
      BY <1>2, <2>2, <2>3, <3>2, <3>3, <3>4, <3>5
  <2> QED
    BY <2>1, <2>2, <2>3
<1>4. \A d \in OrgCalls : orgCall'[d] = IF d = c THEN next ELSE orgCall[d]
  BY DEF OrgInv, OrgTypeOK
<1>5. OrgTypeOK'
  BY <1>2 DEF OrgInv, OrgTypeOK
<1>6. \A d \in OrgCalls : OrgCallOK(orgCall'[d])
  BY <1>4 DEF OrgInv
<1>7. \A d \in OrgCalls : OrgCallOK(orgCall[d])'
  BY <1>6 DEF OrgCallOK
<1>8. \A d \in OrgCalls : Running(d)' => Running(d)
  BY <1>1, <1>4 DEF Running
<1>9. ASSUME NEW d \in OrgCalls, Running(d)', orgCall'[d].alone
      PROVE  Undisturbed(orgCall[d])' /\ \A e \in OrgCalls : Running(e)' => e = d
  <2>1. d = c
    BY <1>1, <1>4, <1>8, <1>9 DEF OrgInv
  <2>2. next.pc = "propagate" /\ k.alone /\ next.state = k.state /\ next.req = k.req /\ k.sends
    BY <1>4, <1>9, <2>1 DEF Running
  <2>3. k.req.op = "update"
    BY <1>1, <2>2 DEF OrgCallOK
  <2>4. k.state = Status(record')
    BY <1>3, <2>2, <2>3
  <2>5. Undisturbed(orgCall[d])'
    <3>1. Status(record)' = Status(record')
      BY DEF Status, EffectiveState, ExtractStatus
    <3> QED
      BY <1>4, <2>1, <2>2, <2>3, <2>4, <3>1 DEF Undisturbed
  <2> QED
    BY <1>3, <1>8, <2>1, <2>2, <2>5
<1>10. ASSUME settled', \A d \in OrgCalls : orgCall'[d].pc # "propagate" PROVE Agreed'
  <2>1. next.pc = "done"
    BY <1>4, <1>10
  <2>2. k.alone /\ ((settled /\ ~ChangesStatus(k.req)) \/ (k.req.op = "update" /\ ChangesStatus(k.req) /\ ~k.sends))
    BY <1>10, <2>1
  <2>3. CASE k.req.op = "update" /\ ChangesStatus(k.req) /\ ~k.sends
    BY <1>3, <2>2, <2>3 DEF Agreed
  <2>4. CASE settled /\ ~ChangesStatus(k.req)
    <3>1. \A d \in OrgCalls : orgCall[d].pc # "propagate"
      BY <1>3, <2>2 DEF Running
    <3>2. Agreed
      BY <2>4, <3>1 DEF OrgInv
    <3>3. record'.billing = record.billing /\ Status(record') = Status(record)
      BY <1>2, <1>3, <2>2, <2>4
    <3>4. Status(record)' = Status(record')
      BY DEF Status, EffectiveState, ExtractStatus
    <3> QED
      BY <3>2, <3>3, <3>4 DEF Agreed
  <2> QED
    BY <2>2, <2>3, <2>4
<1>11. ASSUME tidy', Status(record') = "enabled" PROVE ~record'.cleaned
  <2>1. tidy /\ k.alone
    BY Zenon, <1>11
  <2>2. Status(record) = "enabled" => ~record.cleaned
    BY <2>1 DEF OrgInv
  <2>3. Status(record) \in {"enabled", "disabled"}
    BY DEF Status, EffectiveState
  <2>4. CASE k.req.op = "update"
    BY Zenon, <1>2, <1>3, <1>11, <2>1, <2>2, <2>3, <2>4
  <2>5. CASE k.req.op # "update"
    BY <1>2, <1>3, <1>11, <2>1, <2>2, <2>3, <2>5
  <2> QED
    BY <2>4, <2>5
<1>12. (Status(record) = "enabled")' <=> Status(record') = "enabled"
  BY DEF Status, EffectiveState, ExtractStatus
<1> QED
  BY <1>5, <1>7, <1>9, <1>10, <1>11, <1>12 DEF OrgInv

LEMMA PutOrganizationInv ==
    ASSUME OrgInv, NEW c \in OrgCalls, PutOrganization(c) PROVE OrgInv'
<1>1. PICK k \in OrgCall : k = orgCall[c]
  BY DEF OrgInv, OrgTypeOK
<1>2. /\ k.pc = "put" /\ OrgCallOK(k) /\ record' = Written(k) /\ projectsRow' = projectsRow
      /\ tidy' = (tidy /\ k.alone) /\ settled \in BOOLEAN /\ k.alone \in BOOLEAN /\ k.sends \in BOOLEAN
  BY <1>1 DEF PutOrganization, OrgInv, OrgTypeOK, OrgCall
<1>3. CASE k.sends
  <2>1. PICK next : next = [k EXCEPT !.pc = "propagate"]
    BY Zenon
  <2>2. orgCall' = [orgCall EXCEPT ![c] = next] /\ settled' = settled
    BY <1>1, <1>3, <2>1 DEF PutOrganization, OrgCallGoesOn
  <2>3. /\ next \in OrgCall /\ next.pc = "propagate" /\ next.alone = k.alone /\ next.state = k.state
        /\ next.req = k.req /\ next.sends = k.sends /\ next.change = k.change
    BY <2>1 DEF OrgCall
  <2>4. OrgCallOK(next)
    BY <1>2, <1>3, <2>3 DEF OrgCallOK
  <2> QED
    BY Zenon, <1>1, <1>2, <1>3, <2>2, <2>3, <2>4, PutStep
<1>4. CASE ~k.sends
  <2>1. PICK next \in OrgCall : /\ next = [IdleOrgCall EXCEPT !.pc = "done"]
                                /\ next.pc = "done" /\ OrgCallOK(next)
    BY Zenon, IdleOrgCallOK
  <2>2. /\ orgCall' = [orgCall EXCEPT ![c] = next]
        /\ settled' = IF k.req.op = "update" /\ ChangesStatus(k.req) THEN k.alone ELSE settled /\ k.alone
    BY <1>1, <1>4, <2>1 DEF PutOrganization
  <2>3. ChangesStatus(k.req) => k.req.op = "update"
    BY <1>2 DEF OrgCallOK
  <2>4. /\ settled' \in BOOLEAN
        /\ settled' => /\ k.alone
                       /\ (settled /\ ~ChangesStatus(k.req)) \/ (k.req.op = "update" /\ ChangesStatus(k.req) /\ ~k.sends)
    BY <1>2, <1>4, <2>2, <2>3
  <2> QED
    BY Zenon, <1>1, <1>2, <2>1, <2>2, <2>4, PutStep
<1> QED
  BY <1>3, <1>4

LEMMA PropagateInv ==
    ASSUME OrgInv, NEW c \in OrgCalls, orgCall[c].pc = "propagate", projectsRow' = orgCall[c].state,
           orgCall' = [orgCall EXCEPT ![c] = [IdleOrgCall EXCEPT !.pc = "done"]],
           record' = record, {settled', tidy'} \subseteq BOOLEAN, tidy' => tidy, settled' => orgCall[c].alone
    PROVE  OrgInv'
<1>1. PICK next \in OrgCall : /\ next = [IdleOrgCall EXCEPT !.pc = "done"]
                              /\ next.pc = "done" /\ OrgCallOK(next)
  BY Zenon, IdleOrgCallOK
<1>2. Running(c)
  BY DEF Running
<1>3. settled' => Agreed'
  <2>1. orgCall[c].alone => orgCall[c].state = Status(record)
    BY <1>2 DEF OrgInv, Undisturbed
  <2> QED
    BY <2>1 DEF Agreed, Status
<1> QED
  BY Zenon, <1>1, <1>2, <1>3, OrgStep

LEMMA OrgCallFailsInv ==
    ASSUME OrgInv, NEW c \in OrgCalls, OrgCallFails(c) PROVE OrgInv'
<1>1. PICK k \in OrgCall : k = orgCall[c]
  BY DEF OrgInv, OrgTypeOK
<1>2. /\ OrgCallOK(k) /\ Running(c) /\ tidy \in BOOLEAN /\ settled \in BOOLEAN
      /\ orgCall' = [orgCall EXCEPT ![c] = [IdleOrgCall EXCEPT !.pc = "done"]]
      /\ settled' = (settled /\ ~ChangesStatus(k.req) /\ k.alone)
      /\ tidy' = (tidy /\ (k.pc = "put" => k.alone))
  BY <1>1 DEF OrgCallFails, OrgInv, OrgTypeOK
<1>3. PICK next \in OrgCall : /\ next = [IdleOrgCall EXCEPT !.pc = "done"]
                              /\ next.pc = "done" /\ OrgCallOK(next)
  BY Zenon, IdleOrgCallOK
<1>4. /\ {settled', tidy'} \subseteq BOOLEAN /\ (tidy' => tidy) /\ k.alone \in BOOLEAN
      /\ (k.pc = "propagate" => ~settled') /\ (settled' => settled /\ k.alone /\ ~ChangesStatus(k.req))
  BY Zenon, <1>2 DEF OrgCallOK, OrgCall
<1>5. CASE k.pc = "put" /\ record' = Written(k) /\ projectsRow' = projectsRow
  BY Zenon, <1>1, <1>2, <1>3, <1>4, <1>5, PutStep
<1>6. CASE k.pc = "propagate" /\ record' = record /\ projectsRow' = k.state
  BY Zenon, <1>1, <1>2, <1>4, <1>6, PropagateInv
<1>7. CASE record' = record /\ projectsRow' = projectsRow
  BY Zenon, <1>1, <1>2, <1>4, <1>7, OrgReturn
<1> QED
  BY <1>1, <1>5, <1>6, <1>7 DEF OrgCallFails

-----------------------------------------------------------------------------
(* The token of the administrator *)

(* A request that has not met a revocation has a token Keycloak knows once it has *)
(* asked for another one.                                                         *)
TokenOK(r) ==
    /\ sending[r].began <= token.revocations + 1
    /\ sending[r].pc = "idle" => sending[r].began = 0 /\ ~sending[r].retried
    /\ sending[r].pc = "retry" /\ token.revocations < sending[r].began =>
          token.cached = 0 \/ token.cached > token.forgotten
    /\ sending[r].pc = "sent" /\ sending[r].retried /\ token.revocations < sending[r].began =>
          sending[r].with > token.forgotten
    /\ sending[r].pc = "refused" => token.revocations >= sending[r].began

TokenInv ==
    /\ token \in [cached : Nat, issued : Nat, forgotten : Nat, revocations : Nat]
    /\ sending \in [Requesters -> [pc : {"idle", "sent", "retry", "ok", "refused"}, with : Nat,
                                   retried : BOOLEAN, began : Nat]]
    /\ token.forgotten <= token.issued /\ token.cached <= token.issued
    /\ \A r \in Requesters : TokenOK(r)

LEMMA TokenInitInv == TokenInit => TokenInv
  BY DEF TokenInit, TokenInv, TokenOK

LEMMA GetTokenInv ==
    ASSUME TokenInv, NEW r \in Requesters, GetToken(r) PROVE TokenInv'
<1>1. PICK t : t = IF token.cached = 0 THEN token.issued + 1 ELSE token.cached
  OBVIOUS
<1>2. PICK began : began = IF sending[r].began = 0 /\ sending[r].pc = "idle"
                           THEN token.revocations + 1 ELSE sending[r].began
  OBVIOUS
<1>3. /\ t \in Nat /\ began \in Nat
      /\ token' = [token EXCEPT !.cached = t, !.issued = IF token.cached = 0 THEN t ELSE @]
      /\ sending' = [sending EXCEPT ![r] = [pc |-> "sent", with |-> t, retried |-> sending[r].retried,
                                            began |-> began]]
      /\ sending[r].pc \in {"idle", "retry"}
  <2>1. PICK q \in [pc : {"idle", "sent", "retry", "ok", "refused"}, with : Nat, retried : BOOLEAN, began : Nat] :
           q = sending[r]
    BY DEF TokenInv
  <2>2. token.cached \in Nat /\ token.issued \in Nat /\ token.revocations \in Nat /\ sending[r].began \in Nat
    BY <2>1 DEF TokenInv
  <2>3. t \in Nat
    BY <1>1, <2>2
  <2>4. began \in Nat
    BY <1>2, <2>2
  <2>5. token' = [token EXCEPT !.cached = t, !.issued = IF token.cached = 0 THEN t ELSE @]
    BY <1>1 DEF GetToken
  <2>6. PICK next : next = [q EXCEPT !.pc = "sent", !.with = t, !.began = began]
    OBVIOUS
  <2>7. next = [pc |-> "sent", with |-> t, retried |-> q.retried, began |-> began]
    BY Zenon, <2>3, <2>4, <2>6
  <2>8. sending' = [sending EXCEPT ![r] = next]
    BY Zenon, <1>1, <1>2, <2>1, <2>6 DEF GetToken, TokenInv
  <2>9. sending[r].pc \in {"idle", "retry"}
    BY DEF GetToken
  <2> QED
    BY <2>1, <2>3, <2>4, <2>5, <2>7, <2>8, <2>9
<1>4. /\ token' \in [cached : Nat, issued : Nat, forgotten : Nat, revocations : Nat]
      /\ token'.cached = t /\ token'.issued = (IF token.cached = 0 THEN t ELSE token.issued)
      /\ token'.forgotten = token.forgotten /\ token'.revocations = token.revocations
  BY Zenon, <1>3 DEF TokenInv
<1>5. /\ sending' \in [Requesters -> [pc : {"idle", "sent", "retry", "ok", "refused"}, with : Nat,
                                      retried : BOOLEAN, began : Nat]]
      /\ sending'[r].pc = "sent" /\ sending'[r].with = t /\ sending'[r].retried = sending[r].retried
      /\ sending'[r].began = began
      /\ \A q \in Requesters : q # r => sending'[q] = sending[q]
  BY <1>3 DEF TokenInv
<1>6. token'.forgotten <= token'.issued /\ token'.cached <= token'.issued
  BY <1>1, <1>4 DEF TokenInv
<1>7. TokenOK(r)'
  <2>1. sending[r].retried => sending[r].pc = "retry" /\ began = sending[r].began
    BY <1>2, <1>3 DEF TokenInv, TokenOK
  <2>2. token.revocations \in Nat /\ sending[r].began \in Nat /\ sending[r].began <= token.revocations + 1
    BY DEF TokenInv, TokenOK
  <2>3. sending'[r].began <= token'.revocations + 1
    BY SMTT(40), <1>2, <1>4, <1>5, <2>2
  <2>4. ASSUME sending[r].retried, token'.revocations < sending'[r].began PROVE sending'[r].with > token'.forgotten
    <3>1. token.cached = 0 \/ token.cached > token.forgotten
      BY <1>4, <1>5, <2>1, <2>4 DEF TokenInv, TokenOK
    <3>2. token.forgotten \in Nat /\ token.issued \in Nat /\ token.cached \in Nat /\ token.forgotten <= token.issued
      BY DEF TokenInv
    <3> QED
      BY <1>1, <1>4, <1>5, <3>1, <3>2
  <2> QED
    BY <1>5, <2>3, <2>4 DEF TokenOK
<1>8. ASSUME NEW q \in Requesters, q # r PROVE TokenOK(q)'
  BY <1>1, <1>4, <1>5, <1>8 DEF TokenInv, TokenOK
<1> QED
  BY <1>4, <1>5, <1>6, <1>7, <1>8 DEF TokenInv

LEMMA AnswerInv ==
    ASSUME TokenInv, NEW r \in Requesters, Answer(r) PROVE TokenInv'
<1>1. /\ token' \in [cached : Nat, issued : Nat, forgotten : Nat, revocations : Nat]
      /\ token'.cached \in {token.cached, 0} /\ token'.issued = token.issued
      /\ token'.forgotten = token.forgotten /\ token'.revocations = token.revocations
  BY DEF TokenInv, Answer, Invalidated
<1>2. PICK next : next = [sending[r] EXCEPT !.pc = "retry", !.retried = TRUE]
  OBVIOUS
<1>3. /\ sending' \in [Requesters -> [pc : {"idle", "sent", "retry", "ok", "refused"}, with : Nat,
                                      retried : BOOLEAN, began : Nat]]
      /\ \A q \in Requesters : q # r => sending'[q] = sending[q]
      /\ sending'[r].began = sending[r].began
      /\ \/ sending'[r].pc = "retry" /\ token'.cached = 0
         \/ /\ sending'[r].pc = "refused" /\ sending[r].pc = "sent" /\ sending[r].retried
            /\ sending[r].with <= token.forgotten
         \/ sending'[r].pc = "ok"
  BY DEF TokenInv, Answer, Invalidated
<1>4. TokenOK(r)'
  BY <1>1, <1>3 DEF TokenInv, TokenOK
<1>5. ASSUME NEW q \in Requesters, q # r PROVE TokenOK(q)'
  BY <1>1, <1>3, <1>5 DEF TokenInv, TokenOK
<1> QED
  BY <1>1, <1>3, <1>4, <1>5 DEF TokenInv

LEMMA RevokeInv == ASSUME TokenInv, Revoke PROVE TokenInv'
<1>1. /\ token' \in [cached : Nat, issued : Nat, forgotten : Nat, revocations : Nat]
      /\ token'.cached = token.cached /\ token'.issued = token.issued
      /\ token'.forgotten = token.issued /\ token'.revocations = token.revocations + 1
      /\ sending' = sending
  <2>1. PICK f \in Nat, v \in Nat : f = token.issued /\ v = token.revocations + 1
    BY DEF TokenInv
  <2>2. token' = [token EXCEPT !.forgotten = f, !.revocations = v]
    BY <2>1 DEF Revoke
  <2>3. sending' = sending
    BY DEF Revoke
  <2> QED
    BY Zenon, <2>1, <2>2, <2>3 DEF TokenInv
<1>2. ASSUME NEW q \in Requesters PROVE TokenOK(q)'
  <2>1. /\ TokenOK(q) /\ token.revocations \in Nat /\ sending[q].began \in Nat
        /\ sending[q].began <= token.revocations + 1
    BY DEF TokenInv, TokenOK
  <2>2. ~(token'.revocations < sending[q].began) /\ token'.revocations >= sending[q].began
    BY <1>1, <2>1
  <2>3. sending'[q] = sending[q] /\ sending'[q].began <= token'.revocations + 1
    BY <1>1, <2>1
  <2> QED
    BY <2>1, <2>2, <2>3 DEF TokenOK
<1> QED
  BY <1>1, <1>2 DEF TokenInv

-----------------------------------------------------------------------------
LEMMA OrgInitInv == OrgInit => OrgInv
<1> SUFFICES ASSUME OrgInit PROVE OrgInv
  OBVIOUS
<1>1. /\ record \in OrgRecord /\ record.billing \in {"none", "legacy"} /\ record.disabled = "none"
      /\ record.cleaned = FALSE
  BY DEF OrgInit, OrgRecord
<1>2. OrgTypeOK
  BY <1>1, IdleOrgCallOK DEF OrgInit, OrgTypeOK
<1>3. \A c \in OrgCalls : OrgCallOK(orgCall[c]) /\ ~Running(c)
  BY ZenonT(60) DEF OrgInit, OrgCallOK, IdleOrgCall, Running, ChangesStatus, NoChange
<1>4. settled => Agreed
  BY Zenon, <1>1 DEF OrgInit, Agreed, Status, EffectiveState, ExtractStatus, OrgRecord
<1> QED
  BY <1>1, <1>2, <1>3, <1>4 DEF OrgInv

LEMMA OrgStutter ==
    ASSUME OrgInv, UNCHANGED <<record, projectsRow, orgCall, settled, tidy>> PROVE OrgInv'
<1>1. OrgTypeOK' /\ \A c \in OrgCalls : OrgCallOK(orgCall[c])'
  BY Zenon DEF OrgInv, OrgTypeOK, OrgCallOK
<1>2. \A c \in OrgCalls : Running(c)' = Running(c) /\ (Undisturbed(orgCall[c]) => Undisturbed(orgCall[c])')
  BY DEF Running, Undisturbed, Status
<1>3. (Agreed => Agreed') /\ (tidy /\ Status(record) = "enabled" => ~record.cleaned)'
  BY Zenon DEF OrgInv, Agreed, Status
<1> QED
  BY Zenon, <1>1, <1>2, <1>3 DEF OrgInv

LEMMA OrgInvNext == OrgInv /\ TokenInv /\ [OrgNext \/ TokenNext]_orgVars => OrgInv' /\ TokenInv'
<1> SUFFICES ASSUME OrgInv, TokenInv, [OrgNext \/ TokenNext]_orgVars PROVE OrgInv' /\ TokenInv'
  OBVIOUS
<1>1. UNCHANGED <<token, sending>> => TokenInv'
  BY DEF TokenInv, TokenOK
<1>2. CASE OrgNext
  <2>1. PICK c \in OrgCalls : \/ BeginOrgCall(c) \/ GetOrganization(c) \/ SearchOrganization(c)
                              \/ PutOrganization(c) \/ Propagate(c) \/ OrgCallFails(c)
    BY <1>2 DEF OrgNext
  <2>2. UNCHANGED <<token, sending>>
    BY Zenon, <2>1 DEF BeginOrgCall, GetOrganization, SearchOrganization, PutOrganization, Propagate, OrgCallFails
  <2>3. CASE Propagate(c)
    <3>1. orgCall[c] \in OrgCall /\ OrgCallOK(orgCall[c]) /\ orgCall[c].pc = "propagate"
      BY <2>3 DEF Propagate, OrgInv, OrgTypeOK
    <3>2. settled' = orgCall[c].alone /\ settled' \in BOOLEAN
      BY <2>3, <3>1 DEF Propagate, ReturnOrgCall, OrgCallOK, OrgCall
    <3>3. tidy' = tidy /\ tidy' \in BOOLEAN
      BY <2>3 DEF Propagate, OrgInv, OrgTypeOK
    <3>4. /\ projectsRow' = orgCall[c].state /\ record' = record
          /\ orgCall' = [orgCall EXCEPT ![c] = [IdleOrgCall EXCEPT !.pc = "done"]]
      BY <2>3 DEF Propagate, ReturnOrgCall
    <3>5. {settled', tidy'} \subseteq BOOLEAN /\ (tidy' => tidy) /\ (settled' => orgCall[c].alone)
      BY <3>2, <3>3
    <3>6. OrgInv'
      BY Zenon, <3>1, <3>4, <3>5, PropagateInv
    <3> QED
      BY <1>1, <2>2, <3>6
  <2> QED
    BY <1>1, <2>1, <2>2, <2>3, BeginOrgCallInv, GetOrganizationInv, SearchOrganizationInv,
       PutOrganizationInv, OrgCallFailsInv
<1>3. CASE TokenNext
  <2>1. UNCHANGED <<record, projectsRow, orgCall, settled, tidy>>
    BY Zenon, <1>3 DEF TokenNext, GetToken, Answer, Revoke
  <2> QED
    BY <1>3, <2>1, OrgStutter, GetTokenInv, AnswerInv, RevokeInv DEF TokenNext
<1>4. CASE UNCHANGED orgVars
  BY <1>1, <1>4, OrgStutter DEF orgVars
<1> QED
  BY <1>2, <1>3, <1>4

(* The status of an organization settles and a token that was forgotten is         *)
(* replaced, for any operations, faults, requests and restarts of Keycloak.        *)
THEOREM OrgStatusSettles == OrgSpec => []StatusSettles
<1>1. OrgInv /\ TokenInv => StatusSettles
  BY DEF OrgInv, TokenInv, TokenOK, StatusSettles, Agreed, Status, Running
<1> QED
  BY <1>1, OrgInitInv, TokenInitInv, OrgInvNext, PTL DEF OrgSpec

-----------------------------------------------------------------------------
(* The settings of a branch *)

(* Parameters that exist in a version and are valid for an instance type. *)
Fit(t, params, major) ==
    \A p \in DOMAIN params :
        /\ p \in DOMAIN configurableParameters
        /\ configurableParameters[p].since <= major
        /\ ValidateParameterValue(MergeParametersMaps(p, t), params[p])

LEMMA MergedSpec ==
    ASSUME NEW p \in DOMAIN configurableParameters, NEW t \in DOMAIN InstanceOverrides,
           NEW s, s = MergeParametersMaps(p, t)
    PROVE  /\ s.kind = configurableParameters[p].kind
           /\ s.min = configurableParameters[p].min
           /\ s.values = configurableParameters[p].values
           /\ s.allowEmpty = configurableParameters[p].allowEmpty
           /\ s.kind \in ParameterTypes
  BY SettingsAssumption DEF MergeParametersMaps, SpecFields

LEMMA DefaultsFit ==
    ASSUME NEW p \in DOMAIN configurableParameters, NEW t \in DOMAIN InstanceOverrides
    PROVE  ValidateParameterValue(MergeParametersMaps(p, t), MergeParametersMaps(p, t).default)
  BY ParametersAssumption

(* The parameters of extensions are the same for every instance type. *)
LEMMA ExtensionsAreFixed ==
    ASSUME NEW p \in DOMAIN configurableParameters, configurableParameters[p].ext # "none",
           NEW t \in DOMAIN InstanceOverrides
    PROVE  MergeParametersMaps(p, t) = configurableParameters[p]
  BY ZenonT(60), ParametersAssumption DEF MergeParametersMaps

LEMMA ValidMeasured ==
    ASSUME NEW s, NEW v, s.kind \in Measured
    PROVE  ValidateParameterValue(s, v) <=> InBounds(UnitsOf(s.kind), s, v)
<1>1. CASE s.kind \in {"int", "float"}
  BY ZenonT(60), <1>1 DEF ValidateParameterValue, UnitsOf, validateNumberValue
<1>2. CASE s.kind = "bytes"
  BY <1>2 DEF ValidateParameterValue, UnitsOf, validateBytesValue
<1>3. CASE s.kind = "duration"
  BY <1>3 DEF ValidateParameterValue, UnitsOf, validateDurationValue
<1> QED
  BY <1>1, <1>2, <1>3 DEF Measured

LEMMA ValidOther ==
    ASSUME NEW s, NEW r, NEW v, s.kind \in ParameterTypes \ Measured, r.kind = s.kind,
           r.values = s.values, r.allowEmpty = s.allowEmpty, ValidateParameterValue(s, v)
    PROVE  ValidateParameterValue(r, v)
<1>1. CASE s.kind = "enum"
  BY <1>1 DEF ValidateParameterValue, validateEnumValue
<1>2. CASE s.kind = "boolean"
  BY <1>2 DEF ValidateParameterValue
<1>3. CASE s.kind = "string"
  BY <1>3 DEF ValidateParameterValue
<1> QED
  BY <1>1, <1>2, <1>3 DEF Measured, ParameterTypes

(* A value that is valid for one type is valid for another one once it has been *)
(* adjusted to the bounds of that.                                              *)
LEMMA AdjustedFits ==
    ASSUME NEW p \in DOMAIN configurableParameters, NEW t \in DOMAIN InstanceOverrides,
           NEW u \in DOMAIN InstanceOverrides, NEW v,
           ValidateParameterValue(MergeParametersMaps(p, t), v)
    PROVE  ValidateParameterValue(MergeParametersMaps(p, u),
                                  AdjustValueToBounds(v, MergeParametersMaps(p, u)))
<1> PICK s : s = MergeParametersMaps(p, t)
  OBVIOUS
<1> PICK r : r = MergeParametersMaps(p, u)
  OBVIOUS
<1>1. /\ s.kind = r.kind /\ s.min = r.min /\ s.values = r.values
      /\ s.allowEmpty = r.allowEmpty /\ s.kind \in ParameterTypes
  BY MergedSpec
<1>2. CASE r.kind \in Measured
  <2> PICK units : units = UnitsOf(r.kind)
    OBVIOUS
  <2>1. Parses(units, v)
    BY <1>1, <1>2, ValidMeasured DEF InBounds
  <2>2. \A b \in {r.min, r.max} \ {NoBound} : InBounds(units, r, b)
    BY <1>2, ParametersAssumption
  <2>3. InBounds(units, r, NearestInBounds(units, r, v))
    <3>1. CASE r.max # NoBound /\ Quantity(units, v) > Quantity(units, r.max)
      <4>1. NearestInBounds(units, r, v) \in {r.max, r.min} \ {NoBound}
        BY <2>1, <3>1 DEF NearestInBounds
      <4> QED
        BY <2>2, <4>1
    <3>2. CASE r.min # NoBound /\ Quantity(units, v) < Quantity(units, r.min)
      <4>1. NearestInBounds(units, r, v) \in {r.max, r.min} \ {NoBound}
        BY <2>1, <3>2 DEF NearestInBounds
      <4> QED
        BY <2>2, <4>1
    <3>3. CASE /\ ~(r.max # NoBound /\ Quantity(units, v) > Quantity(units, r.max))
               /\ ~(r.min # NoBound /\ Quantity(units, v) < Quantity(units, r.min))
      <4>1. NearestInBounds(units, r, v) = v
        BY <2>1, <3>3 DEF NearestInBounds
      <4> QED
        BY <2>1, <3>3, <4>1 DEF InBounds
    <3> QED
      BY <3>1, <3>2, <3>3
  <2> QED
    BY <1>2, <2>3, ValidMeasured DEF AdjustValueToBounds
<1>3. CASE r.kind \notin Measured
  <2>1. AdjustValueToBounds(v, r) = v
    BY <1>3 DEF AdjustValueToBounds
  <2> QED
    BY <1>1, <1>3, <2>1, ValidOther
<1> QED
  BY <1>2, <1>3

-----------------------------------------------------------------------------
LEMMA Configurable ==
    ASSUME NEW image, NEW libs
    PROVE  /\ \A p \in GetConfigurableParameters(image, libs) :
                 /\ p \in DOMAIN configurableParameters
                 /\ configurableParameters[p].since <= image.major
           /\ \A p \in DOMAIN configurableParameters :
                 /\ configurableParameters[p].since <= image.major
                 /\ configurableParameters[p].ext = "none"
                 => p \in GetConfigurableParameters(image, libs)
  BY DEF GetConfigurableParameters

LEMMA SpecsAre ==
    ASSUME NEW t, NEW image, NEW libs
    PROVE  /\ DOMAIN GetParametersSpec(t, image, libs) = GetConfigurableParameters(image, libs)
           /\ \A p \in GetConfigurableParameters(image, libs) :
                 GetParametersSpec(t, image, libs)[p] = MergeParametersMaps(p, t)
  BY DEF GetParametersSpec

LEMMA OverIs ==
    ASSUME NEW f, NEW g
    PROVE  /\ DOMAIN Over(f, g) = DOMAIN f \cup DOMAIN g
           /\ \A p \in DOMAIN f : Over(f, g)[p] = f[p]
           /\ \A p \in DOMAIN g \ DOMAIN f : Over(f, g)[p] = g[p]
  BY DEF Over

LEMMA OverFits ==
    ASSUME NEW t, NEW f, NEW g, NEW major, Fit(t, f, major),
           \A p \in DOMAIN g \ DOMAIN f :
               /\ p \in DOMAIN configurableParameters
               /\ configurableParameters[p].since <= major
               /\ ValidateParameterValue(MergeParametersMaps(p, t), g[p])
    PROVE  Fit(t, Over(f, g), major)
<1> PICK o : o = Over(f, g)
  OBVIOUS
<1>1. /\ DOMAIN o = DOMAIN f \cup DOMAIN g
      /\ \A p \in DOMAIN f : o[p] = f[p]
      /\ \A p \in DOMAIN g \ DOMAIN f : o[p] = g[p]
  BY DEF Over
<1>2. Fit(t, o, major)
  BY <1>1 DEF Fit
<1> QED
  BY <1>2

LEMMA ValidatedFit ==
    ASSUME NEW t, NEW params, NEW image, NEW libs, ValidateSettings(t, params, image, libs)
    PROVE  Fit(t, params, image.major)
  BY SpecsAre, Configurable DEF ValidateSettings, Fit

(* PayloadFromConfiguration. *)
LEMMA PayloadFits ==
    ASSUME NEW c, ValidConfiguration(c)
    PROVE  /\ c.type \in DOMAIN InstanceOverrides
           /\ Fit(c.type, PayloadFromConfiguration(c).params, c.image.major)
<1>1. c.type \in DOMAIN InstanceOverrides
  BY ZenonT(60), SettingsAssumption DEF ValidConfiguration, InstanceTypeByName
<1> PICK libs : libs = PayloadLibraries(c)
  OBVIOUS
<1> PICK d : d = GetDefaultPostgresParameters(c.type, c.image, libs)
  OBVIOUS
<1>2. Fit(c.type, c.params, c.image.major)
  <2>1. ValidateSettings(c.type, c.params, c.image, libs)
    BY DEF ValidConfiguration
  <2> QED
    BY ZenonT(60), <2>1, ValidatedFit
<1>3. /\ DOMAIN d = GetConfigurableParameters(c.image, libs)
      /\ \A p \in DOMAIN d : d[p] = MergeParametersMaps(p, c.type).default
  BY SpecsAre DEF GetDefaultPostgresParameters
<1>4. Fit(c.type, Over(c.params, d), c.image.major)
  BY ZenonT(60), <1>1, <1>2, <1>3, OverFits, Configurable, DefaultsFit
<1>5. PayloadFromConfiguration(c).params = Over(c.params, d)
  BY DEF PayloadFromConfiguration
<1> QED
  BY <1>1, <1>4, <1>5

(* The parameters for another instance type. *)
LEMMA TypeFits ==
    ASSUME NEW b, NEW c, c.type \in DOMAIN InstanceOverrides,
           b.type \in DOMAIN InstanceOverrides, Fit(c.type, c.params, c.image.major)
    PROVE  /\ DOMAIN c.params \subseteq DOMAIN ParamsForType(b, c)
           /\ Fit(b.type, ParamsForType(b, c), c.image.major)
<1> DEFINE old == GetParametersSpec(c.type, c.image, c.libs)
           new == GetParametersSpec(b.type, c.image, c.libs)
           updated == [p \in DOMAIN c.params |->
                      CASE p \notin DOMAIN old \cap DOMAIN new -> c.params[p]
                        [] p \in DOMAIN old \cap DOMAIN new /\ c.params[p] = old[p].default -> new[p].default
                        [] OTHER -> AdjustValueToBounds(c.params[p], new[p])]
           rest == [p \in DOMAIN new |-> new[p].default]
<1>1. ParamsForType(b, c) = Over(updated, rest)
  BY DEF ParamsForType
<1>2. /\ DOMAIN old = GetConfigurableParameters(c.image, c.libs) /\ DOMAIN new = DOMAIN old
      /\ \A p \in DOMAIN new : new[p] = MergeParametersMaps(p, b.type)
      /\ \A p \in DOMAIN new : /\ p \in DOMAIN configurableParameters
                               /\ configurableParameters[p].since <= c.image.major
      /\ \A p \in DOMAIN configurableParameters :
                 /\ configurableParameters[p].since <= c.image.major
                 /\ configurableParameters[p].ext = "none"
                 => p \in DOMAIN new
  BY SpecsAre, Configurable
<1>3. /\ DOMAIN rest = DOMAIN new
      /\ \A p \in DOMAIN new : rest[p] = new[p].default
      /\ DOMAIN updated = DOMAIN c.params
  OBVIOUS
<1>4. ASSUME NEW p \in DOMAIN c.params
      PROVE  updated[p] = CASE p \notin DOMAIN old \cap DOMAIN new -> c.params[p]
                        [] p \in DOMAIN old \cap DOMAIN new /\ c.params[p] = old[p].default -> new[p].default
                        [] OTHER -> AdjustValueToBounds(c.params[p], new[p])
  OBVIOUS
<1> HIDE DEF old, new, updated, rest
<1>5. Fit(b.type, updated, c.image.major)
  <2> SUFFICES ASSUME NEW p \in DOMAIN c.params
               PROVE  /\ p \in DOMAIN configurableParameters
                      /\ configurableParameters[p].since <= c.image.major
                      /\ ValidateParameterValue(MergeParametersMaps(p, b.type), updated[p])
    BY ZenonT(60), <1>3 DEF Fit
  <2>1. /\ p \in DOMAIN configurableParameters
        /\ configurableParameters[p].since <= c.image.major
        /\ ValidateParameterValue(MergeParametersMaps(p, c.type), c.params[p])
    BY DEF Fit
  <2>2. CASE p \notin DOMAIN new
    <3>1. configurableParameters[p].ext # "none" /\ updated[p] = c.params[p]
      BY <1>2, <1>4, <2>1, <2>2
    <3>2. MergeParametersMaps(p, b.type) = MergeParametersMaps(p, c.type)
      BY <2>1, <3>1, ExtensionsAreFixed
    <3> QED
      BY ZenonT(60), <2>1, <3>1, <3>2
  <2>3. CASE p \in DOMAIN new /\ c.params[p] = old[p].default
    <3>1. updated[p] = MergeParametersMaps(p, b.type).default
      BY <1>2, <1>4, <2>3
    <3> QED
      BY <2>1, <3>1, DefaultsFit
  <2>4. CASE p \in DOMAIN new /\ c.params[p] # old[p].default
    <3>1. updated[p] = AdjustValueToBounds(c.params[p], MergeParametersMaps(p, b.type))
      BY <1>2, <1>4, <2>4
    <3> QED
      BY <2>1, <3>1, AdjustedFits
  <2> QED
    BY ZenonT(60), <2>2, <2>3, <2>4
<1>6. Fit(b.type, Over(updated, rest), c.image.major)
  BY ZenonT(60), <1>2, <1>3, <1>5, OverFits, DefaultsFit
<1>7. DOMAIN Over(updated, rest) = DOMAIN c.params \cup DOMAIN rest
  BY <1>3 DEF Over
<1> QED
  BY <1>1, <1>6, <1>7

(* The parameters for other libraries. *)
LEMMA LibrariesFit ==
    ASSUME NEW t \in DOMAIN InstanceOverrides, NEW params, NEW image, NEW libs,
           Fit(t, params, image.major)
    PROVE  /\ Fit(t, ParamsForLibraries(params, image, libs), image.major)
           /\ \A p \in DOMAIN params :
                 configurableParameters[p].ext = "none"
                    => p \in DOMAIN ParamsForLibraries(params, image, libs)
<1> PICK f : f = FilterConfigurableParameters(params, image, libs)
  OBVIOUS
<1> PICK d : d = [p \in {q \in GetConfigurableParameters(image, libs) : configurableParameters[q].ext # "none"}
                    |-> configurableParameters[p].default]
  BY ZenonT(60)
<1>1. ParamsForLibraries(params, image, libs) = Over(f, d)
  BY DEF ParamsForLibraries
<1>2. /\ DOMAIN f = DOMAIN params \cap GetConfigurableParameters(image, libs)
      /\ \A p \in DOMAIN f : f[p] = params[p]
  BY DEF FilterConfigurableParameters
<1>3. Fit(t, f, image.major)
  BY <1>2 DEF Fit
<1>4. ASSUME NEW p \in DOMAIN d
      PROVE  /\ p \in DOMAIN configurableParameters
             /\ configurableParameters[p].since <= image.major
             /\ ValidateParameterValue(MergeParametersMaps(p, t), d[p])
  <2>1. /\ p \in DOMAIN configurableParameters /\ configurableParameters[p].since <= image.major
        /\ configurableParameters[p].ext # "none" /\ d[p] = configurableParameters[p].default
    BY Configurable
  <2>2. MergeParametersMaps(p, t) = configurableParameters[p]
    BY <2>1, ExtensionsAreFixed
  <2> QED
    BY ZenonT(60), <2>1, <2>2, DefaultsFit
<1>5. Fit(t, Over(f, d), image.major)
  BY ZenonT(60), <1>3, <1>4, OverFits
<1>6. \A p \in DOMAIN params : configurableParameters[p].ext = "none" => p \in DOMAIN f
  BY ZenonT(60), <1>2, Configurable DEF Fit
<1>7. DOMAIN Over(f, d) = DOMAIN f \cup DOMAIN d
  BY ZenonT(60), OverIs
<1> QED
  BY <1>1, <1>5, <1>6, <1>7

-----------------------------------------------------------------------------
PgFields == {"there", "type", "image", "storage", "instances", "schedule", "libs", "params"}
CallFields == {"pc", "body", "config", "answer"}

TypeAfter(c, config) == IF config.type = "keep" THEN c.type ELSE config.type

(* What a request is about to write fits what the branch then is. *)
WriteFits(u, pg, mix) ==
    /\ pg.there
    /\ u.config.image # KeepImage => u.config.image.major = pg.image.major
    /\ u.config.type # "keep" => u.config.type \in DOMAIN InstanceOverrides
    /\ ~Touches(u.body) => u.config.type = "keep" /\ u.config.params = NoParams
    /\ ~mix /\ Known(TypeAfter(pg, u.config)) =>
         Fit(TypeAfter(pg, u.config), Over(u.config.params, pg.params), pg.image.major)

PgFits(pg, mix) ==
    pg.there /\ Known(pg.type) =>
        /\ pg.type \in DOMAIN InstanceOverrides
        /\ ~mix => Fit(pg.type, pg.params, pg.image.major)

SettingsInv ==
    /\ DOMAIN pgCluster = PgFields
    /\ DOMAIN update = Clients
    /\ \A c \in Clients : DOMAIN update[c] = CallFields
    /\ PgFits(pgCluster, mixed)
    /\ \A c \in Clients : update[c].pc = "write" => WriteFits(update[c], pgCluster, mixed)

(* A request that is not refused writes what fits. *)
LEMMA DescribedFits ==
    ASSUME NEW b, NEW c, Refusal(b, c) = "none", PgFits(c, FALSE)
    PROVE  Known(TypeAfter(c, Config(b, c))) =>
             Fit(TypeAfter(c, Config(b, c)), Over(Config(b, c).params, c.params), c.image.major)
<1> PICK t : t = TypeAfter(c, Config(b, c))
  OBVIOUS
<1> SUFFICES ASSUME Known(t)
             PROVE  Fit(t, Over(Config(b, c).params, c.params), c.image.major)
  OBVIOUS
<1>1. /\ Config(b, c).params = ConfigParams(b, c)
      /\ Config(b, c).type = IF ChangesType(b) THEN b.type ELSE "keep"
  BY ZenonT(60) DEF Config
<1>2. /\ c.there
      /\ ChangesType(b) => InstanceTypeByName(b.type)
      /\ ~(ChangesType(b) /\ b.type # c.type /\ c.type = FallbackInstanceType)
      /\ b.withParams => TypeForValidation(b, c) # FallbackInstanceType
      /\ b.withParams => ValidateSettings(TypeForValidation(b, c), b.params, c.image,
                                          IF b.withLibs THEN b.libs ELSE c.libs)
  BY DEF Refusal
<1>3. ChangesType(b) => b.type \in DOMAIN InstanceOverrides /\ b.type # "keep" /\ Known(b.type)
  BY ZenonT(60), <1>2, SettingsAssumption DEF InstanceTypeByName, ChangesType, Known
<1>4. t = IF ChangesType(b) THEN b.type ELSE c.type
  BY <1>1, <1>3 DEF TypeAfter
<1>5. Known(c.type)
  BY ZenonT(60), <1>2, <1>3, <1>4 DEF Known
<1>6. c.type \in DOMAIN InstanceOverrides /\ Fit(c.type, c.params, c.image.major)
  BY ZenonT(60), <1>2, <1>5 DEF PgFits
<1>7. t \in DOMAIN InstanceOverrides
  BY <1>3, <1>4, <1>6
<1> DEFINE set == CASE b.withParams -> b.params
                    [] ~b.withParams /\ ChangesType(b) /\ b.type # c.type -> ParamsForType(b, c)
                    [] OTHER -> IF b.withLibs THEN c.params ELSE NoParams
<1>8. ConfigParams(b, c) = IF b.withLibs
                           THEN ParamsForLibraries(set, c.image, b.libs \cup InternalPreloadLibraries)
                           ELSE set
  BY DEF ConfigParams
(* With given parameters or without, the rest of the branch's stay valid.    *)
<1>9. /\ Fit(t, set, c.image.major)
      /\ t = c.type \/ DOMAIN c.params \subseteq DOMAIN set
  <2>1. CASE b.withParams
    <3>1. b.type = "keep" /\ TypeForValidation(b, c) = c.type
      BY ZenonT(60), <1>2, <2>1 DEF TypeForValidation
    <3>2. t = c.type
      BY <1>4, <3>1 DEF ChangesType
    <3>3. Fit(c.type, b.params, c.image.major)
      BY ZenonT(60), <1>2, <2>1, <3>1, ValidatedFit
    <3> QED
      BY <2>1, <3>2, <3>3
  <2>2. CASE ~b.withParams /\ ChangesType(b) /\ b.type # c.type
    <3>1. set = ParamsForType(b, c)
      BY <2>2
    <3>2. t = b.type
      BY <1>4, <2>2
    <3> QED
      BY <1>3, <1>6, <2>2, <3>1, <3>2, TypeFits
  <2>3. CASE ~b.withParams /\ ~(ChangesType(b) /\ b.type # c.type)
    <3>1. set = IF b.withLibs THEN c.params ELSE NoParams
      BY <2>3
    <3>2. t = c.type
      BY <1>4, <2>3
    <3>3. Fit(t, NoParams, c.image.major)
      BY ZenonT(60) DEF Fit, NoParams
    <3> QED
      BY <1>6, <3>1, <3>2, <3>3
  <2> QED
    BY <2>1, <2>2, <2>3
<1> HIDE DEF set
<1> PICK sent : sent = ConfigParams(b, c)
  OBVIOUS
<1>10. /\ Fit(t, sent, c.image.major)
       /\ \A p \in DOMAIN set : configurableParameters[p].ext = "none" => p \in DOMAIN sent
       /\ ~b.withLibs => sent = set
  <2>1. CASE b.withLibs
    <3> PICK all : all = b.libs \cup InternalPreloadLibraries
      BY ZenonT(60)
    <3>1. sent = ParamsForLibraries(set, c.image, all)
      BY ZenonT(60), <1>8, <2>1
    <3>2. /\ Fit(t, ParamsForLibraries(set, c.image, all), c.image.major)
          /\ \A p \in DOMAIN set : configurableParameters[p].ext = "none"
                                   => p \in DOMAIN ParamsForLibraries(set, c.image, all)
      BY ZenonT(60), <1>7, <1>9, LibrariesFit
    <3> QED
      BY ZenonT(60), <2>1, <3>1, <3>2
  <2>2. CASE ~b.withLibs
    BY ZenonT(60), <1>8, <1>9, <2>2
  <2> QED
    BY ZenonT(60), <2>1, <2>2
<1>11. ASSUME NEW p \in DOMAIN c.params \ DOMAIN sent
       PROVE  /\ p \in DOMAIN configurableParameters
              /\ configurableParameters[p].since <= c.image.major
              /\ ValidateParameterValue(MergeParametersMaps(p, t), c.params[p])
  <2>1. /\ p \in DOMAIN configurableParameters
        /\ configurableParameters[p].since <= c.image.major
        /\ ValidateParameterValue(MergeParametersMaps(p, c.type), c.params[p])
    BY ZenonT(60), <1>6 DEF Fit
  <2>2. CASE t = c.type
    BY <2>1, <2>2
  <2>3. CASE t # c.type
    <3>1. configurableParameters[p].ext # "none"
      BY ZenonT(60), <1>9, <1>10, <2>3
    <3>2. MergeParametersMaps(p, t) = MergeParametersMaps(p, c.type)
      BY ZenonT(60), <1>6, <1>7, <2>1, <3>1, ExtensionsAreFixed
    <3> QED
      BY ZenonT(60), <2>1, <3>2
  <2> QED
    BY <2>2, <2>3
<1>12. Fit(t, Over(sent, c.params), c.image.major)
  BY ZenonT(60), <1>10, <1>11, OverFits
<1> QED
  BY <1>1, <1>12

LEMMA DescribedWrite ==
    ASSUME NEW b, NEW c, NEW mix, Refusal(b, c) = "none", PgFits(c, mix),
           NEW u, u.body = b, u.config = Config(b, c)
    PROVE  WriteFits(u, c, mix)
<1>1. /\ Config(b, c).params = ConfigParams(b, c)
      /\ Config(b, c).type = IF ChangesType(b) THEN b.type ELSE "keep"
      /\ Config(b, c).image = b.image
  BY ZenonT(60) DEF Config
<1>2. /\ c.there
      /\ ChangesType(b) => InstanceTypeByName(b.type)
      /\ b.image # KeepImage => ValidateImageUpgrade(b.image, c.image)
  BY DEF Refusal
<1>3. b.image # KeepImage => b.image.major = c.image.major
  BY ZenonT(60), <1>2 DEF ValidateImageUpgrade
<1>4. ChangesType(b) => b.type \in DOMAIN InstanceOverrides
  BY ZenonT(60), <1>2, SettingsAssumption DEF InstanceTypeByName
<1>5. ~Touches(b) => ConfigParams(b, c) = NoParams /\ ~ChangesType(b)
  BY DEF Touches, ConfigParams, ChangesType
<1>6. ~mix => PgFits(c, FALSE)
  BY ZenonT(60) DEF PgFits
<1> QED
  BY ZenonT(60), <1>1, <1>2, <1>3, <1>4, <1>5, <1>6, DescribedFits DEF WriteFits

LEMMA SettingsInitially == SettingsInit => SettingsInv
<1> SUFFICES ASSUME SettingsInit PROVE SettingsInv
  OBVIOUS
<1>1. DOMAIN pgCluster = PgFields /\ ~pgCluster.there
  BY DEF SettingsInit, NoPgCluster, PgFields
<1>2. DOMAIN NoCall = CallFields /\ NoCall.pc = "idle"
  BY DEF NoCall, CallFields
<1> QED
  BY ZenonT(60), <1>1, <1>2 DEF SettingsInit, SettingsInv, PgFits

(* Steps that leave the branch alone. *)
LEMMA NothingWritten ==
    ASSUME SettingsInv, UNCHANGED <<pgCluster, mixed>>, DOMAIN update' = Clients,
           \A d \in Clients : DOMAIN update'[d] = CallFields,
           \A d \in Clients : update'[d] = update[d] \/ update'[d].pc # "write"
    PROVE  SettingsInv'
<1>1. ASSUME NEW d \in Clients, update'[d].pc = "write"
      PROVE  WriteFits(update'[d], pgCluster', mixed')
  BY ZenonT(60), <1>1 DEF SettingsInv
<1> QED
  BY ZenonT(60), <1>1 DEF SettingsInv

LEMMA CallEnds ==
    ASSUME SettingsInv, NEW c \in Clients, NEW a, EndUpdate(c, a)
    PROVE  /\ DOMAIN update' = Clients
           /\ \A d \in Clients : DOMAIN update'[d] = CallFields
           /\ \A d \in Clients : update'[d] = update[d] \/ update'[d].pc # "write"
           /\ update'[c].pc # "write"
<1> PICK q : q = [NoCall EXCEPT !.answer = a, !.body = update[c].body]
  OBVIOUS
<1>1. DOMAIN q = CallFields /\ q.pc = "idle"
  BY DEF NoCall, CallFields
<1>2. update' = [update EXCEPT ![c] = q]
  BY DEF EndUpdate
<1> QED
  BY <1>1, <1>2 DEF SettingsInv

LEMMA CallMoves ==
    ASSUME SettingsInv, NEW c \in Clients, NEW pc, pc # "write", UpdateAt(c, pc)
    PROVE  /\ DOMAIN update' = Clients
           /\ \A d \in Clients : DOMAIN update'[d] = CallFields
           /\ \A d \in Clients : update'[d] = update[d] \/ update'[d].pc # "write"
           /\ update'[c].pc # "write"
  BY DEF SettingsInv, UpdateAt, CallFields

LEMMA CreateRootBranchInv ==
    ASSUME SettingsInv, NEW c, CreateRootBranch(c) PROVE SettingsInv'
<1>1. UNCHANGED <<update, mixed>> /\ ~pgCluster.there
  BY DEF CreateRootBranch
<1>2. \A d \in Clients : update[d].pc # "write"
  BY ZenonT(60), <1>1 DEF SettingsInv, WriteFits
<1>3. CASE ValidConfiguration(c)
  <2>1. pgCluster' = PayloadFromConfiguration(c)
    BY <1>3 DEF CreateRootBranch
  <2>2. /\ DOMAIN pgCluster' = PgFields /\ pgCluster'.type = c.type /\ pgCluster'.image = c.image
        /\ pgCluster'.params = PayloadFromConfiguration(c).params
    BY ZenonT(60), <2>1 DEF PayloadFromConfiguration, PgFields
  <2>3. PgFits(pgCluster', mixed')
    BY ZenonT(60), <1>3, <2>2, PayloadFits DEF PgFits
  <2> QED
    BY <1>1, <1>2, <2>2, <2>3 DEF SettingsInv
<1>4. CASE ~ValidConfiguration(c)
  <2>1. UNCHANGED pgCluster
    BY <1>4 DEF CreateRootBranch
  <2> QED
    BY ZenonT(60), <1>1, <2>1, NothingWritten DEF SettingsInv
<1> QED
  BY <1>3, <1>4

LEMMA AmendResourcesInv ==
    ASSUME SettingsInv, AmendResources PROVE SettingsInv'
<1>1. /\ UNCHANGED <<update, mixed>> /\ DOMAIN pgCluster' = PgFields
      /\ pgCluster'.there = pgCluster.there /\ pgCluster'.image = pgCluster.image
      /\ pgCluster'.params = pgCluster.params /\ pgCluster'.type = FallbackInstanceType
  BY ZenonT(60) DEF AmendResources, SettingsInv, PgFields
<1>2. PgFits(pgCluster', mixed')
  BY <1>1 DEF PgFits, Known
<1>3. ASSUME NEW d \in Clients, update[d].pc = "write" PROVE WriteFits(update[d], pgCluster', mixed')
  <2>1. WriteFits(update[d], pgCluster, mixed)
    BY <1>3 DEF SettingsInv
  <2>2. Known(TypeAfter(pgCluster', update[d].config)) =>
            TypeAfter(pgCluster', update[d].config) = TypeAfter(pgCluster, update[d].config)
    BY <1>1 DEF TypeAfter, Known
  <2> QED
    BY ZenonT(60), <1>1, <2>1, <2>2 DEF WriteFits
<1> QED
  BY <1>1, <1>2, <1>3 DEF SettingsInv

LEMMA StartUpdateInv ==
    ASSUME SettingsInv, NEW c \in Clients, NEW b, StartUpdate(c, b) PROVE SettingsInv'
<1>1. UNCHANGED <<pgCluster, mixed>>
  BY DEF StartUpdate
<1>2. CASE ValidBody(b)
  <2> PICK q : q = [NoCall EXCEPT !.pc = "branchRow", !.body = b]
    OBVIOUS
  <2>1. DOMAIN q = CallFields /\ q.pc = "branchRow"
    BY DEF NoCall, CallFields
  <2>2. update' = [update EXCEPT ![c] = q]
    BY <1>2 DEF StartUpdate
  <2>3. /\ DOMAIN update' = Clients /\ \A d \in Clients : DOMAIN update'[d] = CallFields
        /\ \A d \in Clients : update'[d] = update[d] \/ update'[d].pc # "write"
    BY <2>1, <2>2 DEF SettingsInv
  <2> QED
    BY <1>1, <2>3, NothingWritten
<1>3. CASE ~ValidBody(b)
  <2>1. EndUpdate(c, "invalid")
    BY <1>3 DEF StartUpdate
  <2> QED
    BY ZenonT(60), <1>1, <2>1, CallEnds, NothingWritten
<1> QED
  BY <1>2, <1>3

LEMMA ReadRowInv ==
    ASSUME SettingsInv, NEW c \in Clients, ReadRow(c) PROVE SettingsInv'
<1>1. UNCHANGED <<pgCluster, mixed>>
  BY DEF ReadRow
<1>2. UpdateAt(c, "describe") \/ UpdateAt(c, "commit") \/ EndUpdate(c, "exists")
  BY DEF ReadRow
<1> QED
  BY ZenonT(60), <1>1, <1>2, CallMoves, CallEnds, NothingWritten

LEMMA CommitBranchUpdateInv ==
    ASSUME SettingsInv, NEW c \in Clients, CommitBranchUpdate(c) PROVE SettingsInv'
<1>1. UNCHANGED <<pgCluster, mixed>>
  BY DEF CommitBranchUpdate
<1> PICK a : update' = [update EXCEPT ![c] = [NoCall EXCEPT !.answer = a, !.body = update[c].body]]
  BY ZenonT(60) DEF CommitBranchUpdate, EndUpdate
<1> PICK q : q = [NoCall EXCEPT !.answer = a, !.body = update[c].body]
  OBVIOUS
<1>2. DOMAIN q = CallFields /\ q.pc = "idle"
  BY DEF NoCall, CallFields
<1>3. /\ DOMAIN update' = Clients /\ \A d \in Clients : DOMAIN update'[d] = CallFields
      /\ \A d \in Clients : update'[d] = update[d] \/ update'[d].pc # "write"
  BY <1>2 DEF SettingsInv
<1> QED
  BY <1>1, <1>3, NothingWritten

LEMMA DescribePostgresClusterInv ==
    ASSUME SettingsInv, NEW c \in Clients, DescribePostgresCluster(c) PROVE SettingsInv'
<1>1. UNCHANGED <<pgCluster, mixed>>
  BY DEF DescribePostgresCluster
<1>2. CASE \E a : EndUpdate(c, a)
  BY ZenonT(60), <1>1, <1>2, CallEnds, NothingWritten
<1>3. CASE ~\E a : EndUpdate(c, a)
  <2> PICK b : b = update[c].body
    OBVIOUS
  <2>1. /\ Refusal(b, pgCluster) = "none"
        /\ update' = [update EXCEPT ![c].pc = "write", ![c].config = Config(b, pgCluster)]
    BY <1>3 DEF DescribePostgresCluster
  <2> PICK k : k = Config(b, pgCluster)
    OBVIOUS
  <2>2. /\ DOMAIN update' = Clients /\ \A d \in Clients : DOMAIN update'[d] = CallFields
        /\ \A d \in Clients : d # c => update'[d] = update[d]
        /\ update'[c].body = b /\ update'[c].config = k
    BY <2>1 DEF SettingsInv, CallFields
  <2>3. WriteFits(update'[c], pgCluster, mixed)
    <3> PICK u : u = update'[c]
      OBVIOUS
    <3>1. PgFits(pgCluster, mixed)
      BY ZenonT(60) DEF SettingsInv
    <3>2. u.body = b /\ u.config = Config(b, pgCluster)
      BY <2>2
    <3>3. WriteFits(u, pgCluster, mixed)
      BY ZenonT(60), <2>1, <3>1, <3>2, DescribedWrite
    <3> QED
      BY ZenonT(60), <3>3
  <2>4. ASSUME NEW d \in Clients, update'[d].pc = "write" PROVE WriteFits(update'[d], pgCluster', mixed')
    BY ZenonT(60), <1>1, <2>2, <2>3, <2>4 DEF SettingsInv
  <2> QED
    BY ZenonT(60), <1>1, <2>2, <2>4 DEF SettingsInv
<1> QED
  BY <1>2, <1>3

(* Maps with the same entries. *)
Same(f, g) == DOMAIN f = DOMAIN g /\ \A p \in DOMAIN g : f[p] = g[p]

(* What WithUpdatesFrom makes of a branch for a call. *)
Wrote(u, pg, new) == DOMAIN pg = PgFields /\ new = MergedUpdates(pg, u.config)

LEMMA SameFit ==
    ASSUME NEW t, NEW f, NEW g, NEW major, Fit(t, f, major), Same(g, f)
    PROVE  Fit(t, g, major)
  BY DEF Fit, Same

LEMMA OverNothing ==
    ASSUME NEW g
    PROVE  Same(Over(NoParams, g), g)
<1> PICK f : f = NoParams
  OBVIOUS
<1>1. DOMAIN f = {}
  BY DEF NoParams
<1> PICK o : o = Over(f, g)
  OBVIOUS
<1>2. Same(o, g)
  BY <1>1 DEF Over, Same
<1> QED
  BY <1>2

LEMMA OverSame ==
    ASSUME NEW f, NEW g, NEW h, Same(h, g)
    PROVE  Same(Over(f, h), Over(f, g))
<1> PICK i : i = Over(f, h)
  OBVIOUS
<1> PICK j : j = Over(f, g)
  OBVIOUS
<1>1. /\ DOMAIN i = DOMAIN f \cup DOMAIN h /\ DOMAIN j = DOMAIN f \cup DOMAIN g
      /\ \A p \in DOMAIN f : i[p] = f[p] /\ j[p] = f[p]
      /\ \A p \in DOMAIN h \ DOMAIN f : i[p] = h[p]
      /\ \A p \in DOMAIN g \ DOMAIN f : j[p] = g[p]
  BY DEF Over
<1>2. Same(i, j)
  BY <1>1 DEF Same
<1> QED
  BY <1>2

(* What a write that fits makes of the branch, and of the writes to come. *)
LEMMA WrittenFits ==
    ASSUME NEW u, NEW pg, NEW mix, NEW new, Wrote(u, pg, new), PgFits(pg, mix), WriteFits(u, pg, mix)
    PROVE  /\ DOMAIN new = PgFields /\ new.there /\ new.type = TypeAfter(pg, u.config)
           /\ new.params = Over(u.config.params, pg.params) /\ new.image.major = pg.image.major
           /\ PgFits(new, mix)
<1>1. /\ DOMAIN new = PgFields /\ new.there = pg.there /\ new.type = TypeAfter(pg, u.config)
      /\ new.params = Over(u.config.params, pg.params)
      /\ new.image = IF u.config.image = KeepImage THEN pg.image ELSE u.config.image
  BY DEF Wrote, MergedUpdates, PgFields, TypeAfter
<1>2. pg.there /\ new.image.major = pg.image.major
  BY ZenonT(60), <1>1 DEF WriteFits
<1>3. Known(new.type) => new.type \in DOMAIN InstanceOverrides
  BY ZenonT(60), <1>1, <1>2 DEF WriteFits, PgFits, TypeAfter
<1>4. Known(new.type) /\ ~mix => Fit(new.type, new.params, new.image.major)
  BY ZenonT(60), <1>1, <1>2 DEF WriteFits
<1> QED
  BY ZenonT(60), <1>1, <1>2, <1>3, <1>4 DEF PgFits

LEMMA OthersFit ==
    ASSUME NEW u, NEW v, NEW pg, NEW mix, NEW new, Wrote(u, pg, new), PgFits(pg, mix),
           WriteFits(u, pg, mix), WriteFits(v, pg, mix), ~Touches(u.body) \/ ~Touches(v.body)
    PROVE  WriteFits(v, new, mix)
<1>0. /\ DOMAIN new = PgFields /\ new.there /\ new.type = TypeAfter(pg, u.config)
      /\ new.params = Over(u.config.params, pg.params) /\ new.image.major = pg.image.major
      /\ PgFits(new, mix)
  BY ZenonT(60), WrittenFits
<1>1. /\ new.there /\ new.type = TypeAfter(pg, u.config) /\ PgFits(new, mix)
      /\ new.params = Over(u.config.params, pg.params) /\ new.image.major = pg.image.major
  BY ZenonT(60), <1>0
<1> SUFFICES ASSUME ~mix, Known(TypeAfter(new, v.config))
             PROVE  Fit(TypeAfter(new, v.config), Over(v.config.params, new.params), new.image.major)
  BY ZenonT(60), <1>1 DEF WriteFits
<1>2. CASE ~Touches(v.body)
  <2>1. v.config.params = NoParams /\ TypeAfter(new, v.config) = new.type
    BY ZenonT(60), <1>2 DEF WriteFits, TypeAfter
  <2>2. Fit(new.type, new.params, new.image.major)
    BY ZenonT(60), <1>1, <2>1 DEF PgFits
  <2>3. Fit(new.type, Over(NoParams, new.params), new.image.major)
    BY ZenonT(60), <2>2, OverNothing, SameFit
  <2> QED
    BY ZenonT(60), <2>1, <2>3
<1>3. CASE ~Touches(u.body)
  <2>1. new.params = Over(NoParams, pg.params) /\ new.type = pg.type
    BY ZenonT(60), <1>1, <1>3 DEF WriteFits, TypeAfter
  <2>2. TypeAfter(new, v.config) = TypeAfter(pg, v.config)
    BY ZenonT(60), <2>1 DEF TypeAfter
  <2>3. Fit(TypeAfter(pg, v.config), Over(v.config.params, pg.params), pg.image.major)
    BY ZenonT(60), <2>2 DEF WriteFits
  <2>4. Same(new.params, pg.params)
    BY ZenonT(60), <2>1, OverNothing
  <2>5. Same(Over(v.config.params, new.params), Over(v.config.params, pg.params))
    BY ZenonT(60), <2>4, OverSame
  <2> QED
    BY ZenonT(60), <1>1, <2>2, <2>3, <2>5, SameFit
<1> QED
  BY <1>2, <1>3

LEMMA MixedFits ==
    ASSUME NEW u, NEW v, NEW pg, NEW mix, NEW new, Wrote(u, pg, new), PgFits(pg, mix),
           WriteFits(u, pg, mix), WriteFits(v, pg, mix)
    PROVE  PgFits(new, TRUE) /\ WriteFits(v, new, TRUE)
  BY ZenonT(60), WrittenFits DEF PgFits, WriteFits

LEMMA SendUpdateInv ==
    ASSUME SettingsInv, NEW c \in Clients, SendUpdate(c) PROVE SettingsInv'
<1>1. /\ DOMAIN update' = Clients /\ \A d \in Clients : DOMAIN update'[d] = CallFields
      /\ \A d \in Clients : update'[d] = update[d] \/ update'[d].pc # "write"
      /\ update'[c].pc # "write"
  <2>1. UpdateAt(c, "commit") \/ EndUpdate(c, "failed")
    BY ZenonT(60) DEF SendUpdate
  <2> QED
    BY ZenonT(60), <2>1, CallMoves, CallEnds
<1>2. CASE UNCHANGED <<pgCluster, mixed>>
  BY ZenonT(60), <1>1, <1>2, NothingWritten
<1>3. CASE ~UNCHANGED <<pgCluster, mixed>>
  <2>1. /\ Wrote(update[c], pgCluster, pgCluster')
        /\ mixed' = (mixed \/ (Touches(update[c].body) /\ Writing # {c}))
        /\ update[c].pc = "write"
    BY ZenonT(60), <1>3 DEF SendUpdate, SettingsInv, Wrote
  <2>2. /\ PgFits(pgCluster, mixed)
        /\ \A d \in Clients : update[d].pc = "write" => WriteFits(update[d], pgCluster, mixed)
    BY ZenonT(60) DEF SettingsInv
  <2>3. DOMAIN pgCluster' = PgFields /\ PgFits(pgCluster', mixed)
    BY ZenonT(60), <2>1, <2>2, WrittenFits
  <2>4. PgFits(pgCluster', mixed')
    BY ZenonT(60), <2>1, <2>3 DEF PgFits
  <2>5. ASSUME NEW d \in Clients, update'[d].pc = "write" PROVE WriteFits(update'[d], pgCluster', mixed')
    <3>1. update'[d] = update[d] /\ d # c /\ update[d].pc = "write"
      BY <1>1, <2>5
    <3>2. CASE Touches(update[c].body) /\ Touches(update[d].body)
      <4>1. d \in Writing
        BY <3>1, <3>2 DEF Writing
      <4>2. mixed'
        BY ZenonT(60), <2>1, <3>1, <3>2, <4>1
      <4>3. WriteFits(update[d], pgCluster', TRUE)
        BY ZenonT(60), <2>1, <2>2, <3>1, MixedFits
      <4> QED
        BY ZenonT(60), <3>1, <4>2, <4>3 DEF WriteFits
    <3>3. CASE ~(Touches(update[c].body) /\ Touches(update[d].body))
      <4>1. WriteFits(update[d], pgCluster', mixed)
        BY ZenonT(60), <2>1, <2>2, <3>1, <3>3, OthersFit
      <4> QED
        BY ZenonT(60), <2>1, <3>1, <4>1 DEF WriteFits
    <3> QED
      BY <3>2, <3>3
  <2> QED
    BY ZenonT(60), <1>1, <2>3, <2>4, <2>5 DEF SettingsInv
<1> QED
  BY <1>2, <1>3

LEMMA SettingsStep == SettingsInv /\ [SettingsNext]_settingsVars => SettingsInv'
<1> SUFFICES ASSUME SettingsInv, [SettingsNext]_settingsVars PROVE SettingsInv'
  OBVIOUS
<1>1. CASE UNCHANGED settingsVars
  BY ZenonT(60), <1>1, NothingWritten DEF settingsVars, SettingsInv
<1>2. CASE \E config \in Configurations : CreateRootBranch(config)
  BY <1>2, CreateRootBranchInv
<1>3. CASE AmendResources
  BY <1>3, AmendResourcesInv
<1>4. ASSUME NEW c \in Clients,
             \/ \E b \in Bodies : StartUpdate(c, b)
             \/ ReadRow(c) \/ DescribePostgresCluster(c) \/ SendUpdate(c) \/ CommitBranchUpdate(c)
      PROVE  SettingsInv'
  BY <1>4, StartUpdateInv, ReadRowInv, DescribePostgresClusterInv, SendUpdateInv, CommitBranchUpdateInv
<1> QED
  BY <1>1, <1>2, <1>3, <1>4 DEF SettingsNext

LEMMA FitIsValid ==
    ASSUME NEW pg, Fit(pg.type, pg.params, pg.image.major)
    PROVE  LET specs == GetParametersSpec(pg.type, pg.image, pg.libs) IN
           \A p \in DOMAIN pg.params \cap DOMAIN specs : ValidateParameterValue(specs[p], pg.params[p])
  BY SpecsAre DEF Fit

(* SettingsFit, for any parameters, instance types, images and libraries: with    *)
(* no two updates of the settings overlapping, every parameter of a branch is     *)
(* within the bounds of its instance type, whatever sequence of creations,        *)
(* changes of type, parameters, libraries and images led there                    *)
(* (PayloadFromConfiguration, UpdateBranch, WithUpdatesFrom).                     *)
THEOREM SettingsAlwaysFit == SettingsSpec => []SettingsFit
<1>1. SettingsInv => SettingsFit
  BY ZenonT(60), FitIsValid DEF SettingsInv, PgFits, SettingsFit
<1> QED
  BY <1>1, SettingsInitially, SettingsStep, PTL DEF SettingsSpec
===============================================================================
