----------------------------- MODULE UserAccess -----------------------------
(***************************************************************************)
(* agents/revops_support/permissions: provisioning a Salesforce user       *)
(* (user_provisioner.py), granting and revoking a permission set           *)
(* (access_grant.py), offboarding (offboarding.py) and the licence audit   *)
(* (license_audit.py).                                                     *)
(*                                                                         *)
(* Each runs as a sequence of calls to the org under one approved gate,    *)
(* which every call checks for itself: create_record and update_record for *)
(* "single_record_update", the bulk updater for the tier of its size, a    *)
(* revocation for "permission_grant".  People work in the org meanwhile.   *)
(***************************************************************************)
EXTENDS Naturals, FiniteSets

CONSTANTS
    Users,
    NewUsers,       \* those the org may not have yet
    Grants,         \* permission sets and groups
    Records,        \* records of REASSIGN_SOBJECTS
    ObjectOf,       \* record -> its object
    Jobs,           \* processes that run an operation
    GateTypes,      \* action types of the gates that are approved
    MaxEdits        \* bound: records that people assign meanwhile

ASSUME AccessAssumption == /\ NewUsers \subseteq Users /\ DOMAIN ObjectOf = Records
                           /\ MaxEdits \in Nat

VARIABLES
    status,     \* the org: user -> "absent", "active" or "inactive"
    granted,    \* the org: <<user, grant>>
    ownerOf,    \* the org: record -> user
    task,       \* what each job is doing
    followups,  \* tasks: users whose package access is to be revoked
    audits,     \* tasks: users whose licence looks reclaimable
    edits,
    excused,    \* history: records that an offboarding could not have moved
    broken,     \* history: users whose provisioning or offboarding stopped
    revoked     \* history: <<user, grant>> taken away

accessVars == <<status, granted, ownerOf, task, followups, audits, edits, excused, broken, revoked>>

Objects == {ObjectOf[r] : r \in Records}
NoTask == [op |-> "none", step |-> "idle", user |-> "none", heir |-> "none", gate |-> "none",
           todo |-> {}, rows |-> {}]

(* The users that are there hold what their provisioning asked for.        *)
AccessInit ==
    /\ \E new \in SUBSET NewUsers :
        /\ status = [u \in Users |-> IF u \in new THEN "absent" ELSE "active"]
        /\ granted = (Users \ new) \X Grants
    /\ ownerOf \in [Records -> {u \in Users : status[u] = "active"}]
    /\ task = [j \in Jobs |-> NoTask]
    /\ followups = {} /\ audits = {} /\ edits = 0
    /\ excused = {} /\ broken = {} /\ revoked = {}

OrgState == <<status, granted, ownerOf>>
Noted == <<followups, audits, edits>>
At(j, op, step) == task[j].op = op /\ task[j].step = step
Goes(j, record) == task' = [task EXCEPT ![j] = record]
Ends(j) == Goes(j, NoTask)
Owned(u) == {r \in Records : ownerOf[r] = u}

(* A call raises: of a gate that is not for it, of the org's refusal, or   *)
(* of a connection that breaks; nothing undoes the calls before it.        *)
Breaks(j) ==
    /\ Ends(j)
    /\ broken' = broken \union {task[j].user}
    /\ UNCHANGED <<OrgState, Noted, excused, revoked>>

(* create_record and update_record.                                        *)
Writable(j) == task[j].gate = "single_record_update"

-----------------------------------------------------------------------------
(* Provisioning                                                            *)

Provision(j, u, g) ==
    /\ task[j] = NoTask
    /\ Goes(j, [NoTask EXCEPT !.op = "provision", !.step = "user", !.user = u, !.gate = g,
                              !.todo = Grants])
    /\ UNCHANGED <<OrgState, Noted, excused, broken, revoked>>

(* create User: the org keeps usernames unique.                            *)
CreateUser(j) ==
    LET u == task[j].user IN
    /\ At(j, "provision", "user") /\ Writable(j) /\ status[u] = "absent"
    /\ status' = [status EXCEPT ![u] = "active"]
    /\ Goes(j, [task[j] EXCEPT !.step = "grants"])
    /\ UNCHANGED <<granted, ownerOf, Noted, excused, broken, revoked>>

(* A permission set or group of the request, one call each; the org has it *)
(* once only, and gives none to an inactive user.                          *)
Attach(j, x) ==
    LET u == task[j].user IN
    /\ At(j, "provision", "grants") /\ x \in task[j].todo
    /\ status[u] = "active" /\ <<u, x>> \notin granted
    /\ granted' = granted \union {<<u, x>>}
    /\ Goes(j, [task[j] EXCEPT !.todo = @ \ {x}])
    /\ UNCHANGED <<status, ownerOf, Noted, excused, broken, revoked>>

Provisioned(j) ==
    /\ At(j, "provision", "grants") /\ task[j].todo = {}
    /\ Ends(j)
    /\ UNCHANGED <<OrgState, Noted, excused, broken, revoked>>

(* grant_permission_set and add_to_group find the row first.               *)
Grant(u, x, g) ==
    /\ status[u] = "active" /\ <<u, x>> \notin granted /\ g = "single_record_update"
    /\ granted' = granted \union {<<u, x>>}
    /\ UNCHANGED <<status, ownerOf, task, Noted, excused, broken, revoked>>

(* revoke_permission_set.                                                  *)
Revoke(u, x, g) ==
    /\ <<u, x>> \in granted /\ g = "permission_grant"
    /\ granted' = granted \ {<<u, x>>}
    /\ revoked' = revoked \union {<<u, x>>}
    /\ UNCHANGED <<status, ownerOf, task, Noted, excused, broken>>

-----------------------------------------------------------------------------
(* Offboarding                                                             *)

(* offboard; without an heir the records are only counted.                 *)
Offboard(j, u, heir, g) ==
    /\ task[j] = NoTask /\ status[u] # "absent" /\ u # heir
    /\ Goes(j, [NoTask EXCEPT !.op = "offboard", !.step = IF heir = "none" THEN "count" ELSE "list",
                              !.user = u, !.heir = heir, !.gate = g, !.todo = Objects])
    /\ UNCHANGED <<OrgState, Noted, excused, broken, revoked>>

(* _count_owned.                                                           *)
CountOwned(j) ==
    /\ At(j, "offboard", "count")
    /\ excused' = excused \union Owned(task[j].user)
    /\ Goes(j, [task[j] EXCEPT !.step = "deactivate", !.todo = {}])
    /\ UNCHANGED <<OrgState, Noted, broken, revoked>>

(* An offboarding that takes every object for empty.                       *)
IdsOwned_None(u, object) == {}

(* _ids_owned.                                                             *)
IdsOwned(u, object) == {r \in Owned(u) : ObjectOf[r] = object}

(* The next object's records.                                              *)
ListOwned(j, object) ==
    LET rows == IdsOwned(task[j].user, object) IN
    /\ At(j, "offboard", "list") /\ object \in task[j].todo
    /\ Goes(j, [task[j] EXCEPT !.todo = @ \ {object}, !.rows = rows,
                               !.step = IF rows = {} THEN "list" ELSE "move"])
    /\ UNCHANGED <<OrgState, Noted, excused, broken, revoked>>

(* classify_bulk_update, of less than a hundred.                           *)
BulkGate(n) == IF n =< 1 THEN "single_record_update" ELSE "bulk_update_small"

(* bulk_update: the org refuses rows, all of them when the heir is not     *)
(* active, and offboard does not look at what it answers.                  *)
MoveOwned(j, refused) ==
    LET moved == task[j].rows \ refused IN
    /\ At(j, "offboard", "move") /\ task[j].gate = BulkGate(Cardinality(task[j].rows))
    /\ refused \subseteq task[j].rows
    /\ status[task[j].heir] # "active" => moved = {}
    /\ ownerOf' = [r \in Records |-> IF r \in moved THEN task[j].heir ELSE ownerOf[r]]
    /\ excused' = (excused \ moved) \union refused
         \union {r \in moved : \E k \in Jobs : /\ task[k].op = "offboard"
                                              /\ task[k].user = task[j].heir}
    /\ Goes(j, [task[j] EXCEPT !.rows = {}, !.step = "list"])
    /\ UNCHANGED <<status, granted, Noted, broken, revoked>>

Moved(j) ==
    /\ At(j, "offboard", "list") /\ task[j].todo = {}
    /\ Goes(j, [task[j] EXCEPT !.step = "deactivate"])
    /\ UNCHANGED <<OrgState, Noted, excused, broken, revoked>>

Deactivate(j) ==
    /\ At(j, "offboard", "deactivate") /\ Writable(j)
    /\ status' = [status EXCEPT ![task[j].user] = "inactive"]
    /\ Goes(j, [task[j] EXCEPT !.step = "followup"])
    /\ UNCHANGED <<granted, ownerOf, Noted, excused, broken, revoked>>

(* _open_manual_followup: one open task per user.                          *)
OpenFollowup(j) ==
    /\ At(j, "offboard", "followup")
    /\ followups' = followups \union {task[j].user}
    /\ Ends(j)
    /\ UNCHANGED <<OrgState, audits, edits, excused, broken, revoked>>

BreakOff(j) == task[j] # NoTask /\ Breaks(j)

-----------------------------------------------------------------------------

(* license_audit.run: a task for every active user whose last login is old *)
(* or missing, unless one is open.                                         *)
AuditLicenses(idle) ==
    /\ idle \subseteq {u \in Users : status[u] = "active"} /\ ~ idle \subseteq audits
    /\ audits' = audits \union idle
    /\ UNCHANGED <<OrgState, task, followups, edits, excused, broken, revoked>>

(* People give a record to a user who is active, while an offboarding may  *)
(* have read that user's records.                                          *)
Assign(r, u) ==
    /\ edits < MaxEdits /\ status[u] = "active" /\ ownerOf[r] # u
    /\ edits' = edits + 1
    /\ ownerOf' = [ownerOf EXCEPT ![r] = u]
    /\ excused' = IF \E k \in Jobs : task[k].op = "offboard" /\ task[k].user = u
                  THEN excused \union {r} ELSE excused \ {r}
    /\ UNCHANGED <<status, granted, task, followups, audits, broken, revoked>>

ProvisionNext ==
    \/ \E j \in Jobs, u \in Users, g \in GateTypes : Provision(j, u, g)
    \/ \E j \in Jobs :
        \/ CreateUser(j) \/ Provisioned(j) \/ BreakOff(j)
        \/ \E x \in Grants : Attach(j, x)
    \/ \E u \in Users, x \in Grants, g \in GateTypes : Grant(u, x, g) \/ Revoke(u, x, g)
    \/ \E idle \in SUBSET Users : AuditLicenses(idle)

OffboardNext ==
    \/ \E j \in Jobs, u \in Users, heir \in Users \union {"none"}, g \in GateTypes :
        Offboard(j, u, heir, g)
    \/ \E j \in Jobs :
        \/ CountOwned(j) \/ Moved(j) \/ Deactivate(j) \/ OpenFollowup(j) \/ BreakOff(j)
        \/ \E o \in Objects : ListOwned(j, o)
        \/ \E refused \in SUBSET Records : MoveOwned(j, refused)
    \/ \E r \in Records, u \in Users : Assign(r, u)

AccessNext == ProvisionNext \/ OffboardNext

AccessSpec == AccessInit /\ [][AccessNext]_accessVars

-----------------------------------------------------------------------------

AccessTypeOK ==
    /\ status \in [Users -> {"absent", "active", "inactive"}]
    /\ granted \subseteq Users \X Grants /\ ownerOf \in [Records -> Users]
    /\ followups \union audits \union broken \subseteq Users
    /\ \A j \in Jobs : task[j].rows \subseteq Records

(* A user who was deactivated owns no record, over two offboardings that   *)
(* hand records to each other and people who assign meanwhile: what stays  *)
(* came to the user while the offboarding ran, or was refused as a row, or *)
(* there was no heir (offboard, _ids_owned, bulk_update).                  *)
DeactivatedOwnsNothing ==
    \A r \in Records : status[ownerOf[r]] = "inactive" => r \in excused

(* Every deactivation leaves its task to revoke package access, or an      *)
(* offboarding of that user has yet to open it, or broke off (offboard,    *)
(* _open_manual_followup).                                                 *)
DeactivationIsFollowedUp ==
    \A u \in Users : status[u] = "inactive" =>
        \/ u \in followups \union broken
        \/ \E j \in Jobs : At(j, "offboard", "followup") /\ task[j].user = u

(* A user that provisioning created has every permission set and group of  *)
(* the request, or a call is still to attach it, or the provisioning broke *)
(* off, or it was revoked: a second provisioning and grants by hand lose   *)
(* none of them (provision, grant_permission_set).                         *)
NewUserIsWhole ==
    \A u \in NewUsers, x \in Grants : status[u] = "active" =>
        \/ <<u, x>> \in granted \union revoked \/ u \in broken
        \/ \E j \in Jobs : At(j, "provision", "grants") /\ task[j].user = u /\ x \in task[j].todo

(* What the access operations leave behind.                                *)
AccessInv ==
    AccessTypeOK /\ DeactivatedOwnsNothing /\ DeactivationIsFollowedUp /\ NewUserIsWhole
=============================================================================
