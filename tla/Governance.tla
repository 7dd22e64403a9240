---------------------------- MODULE Governance ----------------------------
(***************************************************************************)
(* shared/governance.py: the approval tiers, the row an approval gate      *)
(* keeps in the table approval_gates, and the pure part of the decision    *)
(* that decide_approval_gate takes on one row.  The module has no state;   *)
(* the modules that keep gates (ApprovalGates, SchemaChange) act on rows   *)
(* of this shape through these operators.  A justification is a text the   *)
(* row carries; that create_approval_gate refuses a tier that wants one    *)
(* and has none changes no state and is left out.                          *)
(***************************************************************************)
EXTENDS Naturals, Sequences, FiniteSets

CONSTANTS
  Approvers,   \* Slack user ids that may press a gate's buttons
  Cooldown,    \* cooldown_hours of the tier dual_approval_cooldown
  Ttl          \* ttl_hours of create_approval_gate

ASSUME CooldownAssumption == Cooldown \in Nat \ {0}
ASSUME TtlAssumption == Ttl \in Nat \ {0}

\* The approver that agents pass when they decide one of their own gates.
ASSUME SystemAssumption == "system" \notin Approvers

Deciding == Approvers \cup {"system"}

-----------------------------------------------------------------------------
\* The keys of APPROVAL_TIERS, and the fields the code branches on.

ActionTypes ==
  {"read_query", "single_record_update", "bulk_update_small",
   "bulk_update_large", "sf_schema_change", "sf_schema_create",
   "sf_schema_modify", "sf_schema_delete", "sf_schema_delete_confirm",
   "user_provisioning", "permission_grant", "license_deactivation",
   "apex_flow_deploy", "outbound_sequence", "commission_adjustment",
   "contact_merge", "account_merge", "territory_reassign", "quota_upsert",
   "customer_facing_comms", "mark_churned", "onboarding_auto_create",
   "csm_reassignment", "onboarding_complete", "skip_milestone",
   "slt_draft_review", "cs_churn_outreach", "mark_churned_request",
   "mark_churned_confirm", "suppression_override"}

ConfirmType == "sf_schema_delete_confirm"

\* Tiers with cooldown_hours set, tiers whose approver is "jackie_and_o" (the
\* only ones decide_approval_gate treats as dual), and tiers with
\* gate="auto_approve".
CooldownTypes == {"sf_schema_delete"}
DualTypes == {"mark_churned"}
AutoApproveTypes == {"onboarding_auto_create"}

-----------------------------------------------------------------------------
\* A row of approval_gates.  NULL is 0 in cooldownUntil and parent; an id that
\* the table does not hold yet has status "none".  subject is the
\* parent_gate_id that the payload of a confirmation gate carries.

Statuses == {"none", "pending", "approved", "approved_primary", "rejected"}
Decided == {"approved", "approved_primary", "rejected"}

Approval == [approver : Deciding, approved : BOOLEAN]

Row(Ids) ==
  [action        : ActionTypes,
   status        : Statuses,
   approvals     : Seq(Approval),
   expires       : Nat,
   cooldownUntil : Nat,
   parent        : Ids \cup {0},
   subject       : Ids \cup {0}]

NoRow ==
  [action |-> "read_query", status |-> "none", approvals |-> << >>,
   expires |-> 0, cooldownUntil |-> 0, parent |-> 0, subject |-> 0]

\* The row create_approval_gate inserts: pending, expiring ttl_hours from now.
NewRow(action, now, subject) ==
  [action |-> action, status |-> "pending", approvals |-> << >>,
   expires |-> now + Ttl, cooldownUntil |-> 0, parent |-> 0, subject |-> subject]

-----------------------------------------------------------------------------
\* decide_approval_gate, the part between its SELECT and its UPDATE.

YesVoters(approvals) ==
  {approvals[i].approver : i \in {j \in DOMAIN approvals : approvals[j].approved}}

AnyReject(approvals) == \E i \in DOMAIN approvals : ~approvals[i].approved

\* Bugs DecidedStatus could have: two clicks of one person are enough; what is
\* returned to the caller is stored as the status; the cooldown is forgotten.
DecidedStatus_CountsClicks(action, approvals, approved) ==
  IF ~approved THEN "rejected"
  ELSE IF action \in DualTypes /\ Len(approvals) < 2 THEN "pending"
  ELSE IF action \in CooldownTypes THEN "approved_primary" ELSE "approved"

DecidedStatus_StoresResult(action, approvals, approved) ==
  IF ~approved THEN "rejected"
  ELSE IF action \in DualTypes /\ Cardinality(YesVoters(approvals)) < 2
    THEN "pending_second_approver"
  ELSE "approved"

\* The status the UPDATE will set, given the list with the new entry appended.
DecidedStatus(action, approvals, approved) ==
  CASE ~approved -> "rejected"
    [] approved /\ action \in DualTypes ->
         IF AnyReject(approvals) THEN "rejected"
         ELSE IF Cardinality(YesVoters(approvals)) >= 2 THEN "approved"
         ELSE "pending"
    [] approved /\ action \notin DualTypes ->
         IF action \in CooldownTypes THEN "approved_primary" ELSE "approved"

\* A bug it could have: the UPDATE goes by the id alone.
ApplyDecision_Blind(row, approvals, status, now) ==
  [row EXCEPT !.status = status, !.approvals = approvals,
              !.cooldownUntil = IF status = "approved_primary" THEN now + Cooldown ELSE 0]

\* UPDATE ... WHERE id = :id AND status = 'pending'.  A dual gate that needs
\* more approvers keeps its status and stores only the longer list.
ApplyDecision(row, approvals, status, now) ==
  IF row.status # "pending" THEN row
  ELSE [action |-> row.action, status |-> status, approvals |-> approvals,
        expires |-> row.expires,
        cooldownUntil |-> CASE status = "approved_primary" -> now + Cooldown
                            [] status = "pending" -> row.cooldownUntil
                            [] OTHER -> 0,
        parent |-> row.parent, subject |-> row.subject]

\* require_approved_gate returns instead of raising.
IsApprovedGate(row, action) == row.status = "approved" /\ row.action = action

-----------------------------------------------------------------------------
\* What the queries of schema/cooldown_poller.py and metadata_deployer.py look
\* for in a table of rows.

Confirms(rows, child, g) ==
  rows[child].action = ConfirmType /\ rows[child].parent = g

\* Bugs the query could have: it forgets the time; it looks for "approved".
ReadyPrimaries_AtOnce(rows, now) ==
  {g \in DOMAIN rows :
     /\ rows[g].status = "approved_primary"
     /\ \A child \in DOMAIN rows : ~Confirms(rows, child, g)}

ReadyPrimaries_Approved(rows, now) ==
  {g \in DOMAIN rows :
     /\ rows[g].status = "approved" /\ rows[g].action \in CooldownTypes
     /\ \A child \in DOMAIN rows : ~Confirms(rows, child, g)}

ReadyPrimaries(rows, now) ==
  {g \in DOMAIN rows :
     /\ rows[g].status = "approved_primary"
     /\ rows[g].cooldownUntil # 0
     /\ rows[g].cooldownUntil <= now
     /\ \A child \in DOMAIN rows : ~Confirms(rows, child, g)}
=============================================================================
