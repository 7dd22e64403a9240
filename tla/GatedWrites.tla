---------------------------- MODULE GatedWrites -----------------------------
(***************************************************************************)
(* What happens after a click on Approve: the handlers of                  *)
(* agents/cs/handlers/slack_actions.py, the onboarding agent's             *)
(* csm_enforcer.apply_reassignment and Top of Funnel's                     *)
(* sequence_enroller.enroll_batch carry out an approved request through    *)
(* create_record and update_record of shared/mcp/salesforce_mcp.py, which  *)
(* ask for a gate of their own tier.                                       *)
(*                                                                         *)
(* ApprovalGates has the decisions in full; here a gate is decided in one  *)
(* step.  Production calls the MCP; the tests inject a double (sf_mcp,     *)
(* create_fn) that asks for no gate.                                       *)
(***************************************************************************)
EXTENDS Naturals, Sequences, FiniteSets

CONSTANTS
    Accounts,       \* accounts and onboarding records
    Leads,          \* the leads of a batch
    Workers,        \* processes that run handlers
    DailyLimit,     \* nooks_sequences_daily
    Doubles,        \* whether a call may be given a double: {FALSE} in production
    MaxGates, MaxRequests, MaxWrites   \* bounds

ASSUME DoublesAssumption == Doubles \subseteq BOOLEAN /\ Doubles # {}
ASSUME LimitAssumption == DailyLimit \in Nat
ASSUME BoundAssumption == MaxGates \in Nat /\ MaxWrites \in Nat

VARIABLES
    gates,      \* approval_gates, in the order of their ids
    worker,     \* what each process is doing
    owned,      \* the org: accounts whose owner was changed
    churned,    \* the org: accounts marked Churned
    enrolled,   \* the org: lead -> cadence memberships
    slots,      \* rate_limits: today's count of the bucket
    rows,       \* tof_sequence_enrollments: lead -> rows per status
    audits,     \* audit_log: <<action, gate>>
    refused,    \* history: approved gates that a handler could not carry out
    done,       \* history: <<action, gate>> that reached the org or a DM
    lost,       \* history: <<action, gate>> whose process died or whose call broke off
    doubled,    \* history: requests whose confirmation two processes looked for
    withdrawn   \* history: requests rolled back between a handler's check and its write

gatedVars == <<gates, worker, owned, churned, enrolled, slots, rows, audits,
               refused, done, lost, doubled, withdrawn>>

Tiers == {"csm_reassignment", "cs_churn_outreach", "mark_churned_request",
          "mark_churned_confirm", "outbound_sequence"}
Agents == {"cs", "onboarding", "top_of_funnel"}
Gate == [tier : Tiers, agent : Agents, item : Accounts,
         status : {"pending", "approved", "rejected"},
         parent : 0 .. MaxGates,     \* the column
         claims : 0 .. MaxGates]     \* parent_gate_id in the payload
Rested == [step |-> "idle", gate |-> 0, action |-> "none", todo |-> {}, at |-> 0,
           double |-> FALSE]

GatedInit ==
    /\ gates = <<>>
    /\ worker = [w \in Workers |-> Rested]
    /\ owned = {} /\ churned = {}
    /\ enrolled = [l \in Leads |-> 0]
    /\ slots = 0
    /\ rows = [l \in Leads |-> 0]
    /\ audits = {} /\ refused = {} /\ done = {} /\ lost = {} /\ doubled = {}
    /\ withdrawn = {}

Org == <<owned, churned, enrolled>>
Log == <<slots, rows, audits, refused, done, lost, doubled, withdrawn>>

-----------------------------------------------------------------------------
(* Requests and decisions                                                  *)

Requests == {<<"csm_reassignment", "cs">>, <<"csm_reassignment", "onboarding">>,
             <<"cs_churn_outreach", "cs">>, <<"mark_churned_request", "cs">>,
             <<"outbound_sequence", "top_of_funnel">>}

(* request_csm_reassignment, request_churn_outreach, request_mark_churned, *)
(* handle_created and sweep of the enforcer, and the enroller's caller.    *)
Request(r, a) ==
    /\ Len(gates) < MaxGates
    /\ Cardinality({g \in DOMAIN gates : gates[g].claims = 0}) < MaxRequests
    /\ gates' = Append(gates, [tier |-> r[1], agent |-> r[2], item |-> a,
                               status |-> "pending", parent |-> 0, claims |-> 0])
    /\ UNCHANGED <<worker, Org, Log>>

(* The button, or approve_queue for an outbound sequence.                  *)
Decide(g, status) ==
    /\ gates[g].status = "pending"
    /\ gates' = [gates EXCEPT ![g].status = status]
    /\ UNCHANGED <<worker, Org, Log>>

(* A handler of finalize_mark_churned has read both gates and not written. *)
Overtakes(g) == \E w \in Workers : /\ worker[w].step = "churn"
                                   /\ gates[worker[w].gate].claims = g

(* A roll-back with a status of its own.                                   *)
RollBack_RolledBack(g) ==
    /\ gates[g].tier = "mark_churned_request" /\ gates[g].status = "approved"
    /\ gates' = [gates EXCEPT ![g].status = "rolled_back"]
    /\ withdrawn' = IF Overtakes(g) THEN withdrawn \union {g} ELSE withdrawn
    /\ UNCHANGED <<worker, Org, slots, rows, audits, refused, done, lost, doubled>>

(* RUNBOOK.md: gate A may be rolled back out of band.                      *)
RollBack(g) ==
    /\ gates[g].tier = "mark_churned_request" /\ gates[g].status = "approved"
    /\ gates' = [gates EXCEPT ![g].status = "rejected"]
    /\ withdrawn' = IF Overtakes(g) THEN withdrawn \union {g} ELSE withdrawn
    /\ UNCHANGED <<worker, Org, slots, rows, audits, refused, done, lost, doubled>>

-----------------------------------------------------------------------------
(* on_mark_churned_primary_approved: look, create, link                    *)

(* A check that does not look.                                             *)
Confirmations_None(g) == {}

Confirmations(g) == {b \in DOMAIN gates : /\ gates[b].parent = g
                                          /\ gates[b].tier = "mark_churned_confirm"
                                          /\ gates[b].status # "rejected"}

LookForConfirm(w, g) ==
    /\ worker[w].step = "idle"
    /\ gates[g].tier = "mark_churned_request" /\ gates[g].status = "approved"
    /\ Confirmations(g) = {}
    /\ worker' = [worker EXCEPT ![w] = [Rested EXCEPT !.step = "confirm", !.gate = g]]
    /\ doubled' = IF \E o \in Workers \ {w} : worker[o].step \in {"confirm", "link"}
                                              /\ worker[o].gate = g
                  THEN doubled \union {g} ELSE doubled
    /\ UNCHANGED <<gates, Org, slots, rows, audits, refused, done, lost, withdrawn>>

CreateConfirm(w) ==
    /\ worker[w].step = "confirm" /\ Len(gates) < MaxGates
    /\ gates' = Append(gates, [tier |-> "mark_churned_confirm", agent |-> "cs",
                               item |-> gates[worker[w].gate].item, status |-> "pending",
                               parent |-> 0, claims |-> worker[w].gate])
    /\ worker' = [worker EXCEPT ![w].step = "link", ![w].at = Len(gates) + 1]
    /\ UNCHANGED <<Org, Log>>

LinkConfirm(w) ==
    /\ worker[w].step = "link"
    /\ gates' = [gates EXCEPT ![worker[w].at].parent = worker[w].gate]
    /\ worker' = [worker EXCEPT ![w] = Rested]
    /\ UNCHANGED <<Org, Log>>

-----------------------------------------------------------------------------
(* The finalize functions: the gate they require, the write, the audit     *)

Approved(g, tier) == gates[g].tier = tier /\ gates[g].status = "approved"

(* finalize_csm_reassignment and apply_reassignment each read a key that   *)
(* only the payloads of their own agent have.                              *)
MayReassign(g, agent) == Approved(g, "csm_reassignment") /\ gates[g].agent = agent

(* B alone.                                                                *)
MayChurn_TrustB(b) == Approved(b, "mark_churned_confirm")

(* finalize_mark_churned: B, the A it names, A's status and account.       *)
MayChurn(b) ==
    /\ Approved(b, "mark_churned_confirm")
    /\ gates[b].claims # 0
    /\ Approved(gates[b].claims, "mark_churned_request")
    /\ gates[gates[b].claims].item = gates[b].item

(* create_record and update_record: a gate of their own tier.              *)
Writes(g, double) == double \/ gates[g].tier = "single_record_update"

(* The write of action, which may break off on either side of the org.     *)
Carry(w, g, action, double, next) ==
    \/ /\ ~ Writes(g, double)
       /\ refused' = refused \union {g}
       /\ worker' = [worker EXCEPT ![w] = Rested]
       /\ UNCHANGED <<gates, Org, slots, rows, audits, done, lost, doubled, withdrawn>>
    \/ /\ Writes(g, double) /\ next
       /\ done' = done \union {<<action, g>>}
       /\ \/ /\ worker' = [worker EXCEPT ![w] = [Rested EXCEPT !.step = "audit", !.gate = g,
                                                               !.action = action]]
             /\ UNCHANGED lost
          \/ /\ lost' = lost \union {<<action, g>>}
             /\ worker' = [worker EXCEPT ![w] = Rested]
       /\ UNCHANGED <<gates, slots, rows, audits, refused, doubled, withdrawn>>

FinalizeReassignment(w, g, agent, double) ==
    /\ worker[w].step = "idle" /\ MayReassign(g, agent)
    /\ Carry(w, g, "csm_reassigned", double,
             owned' = owned \union {gates[g].item} /\ UNCHANGED <<churned, enrolled>>)

(* finalize_mark_churned reads both gates, each in a session of its own,   *)
(* and then calls the org: gate A may be rolled back while the call is out. *)
CheckChurned(w, b, double) ==
    /\ worker[w].step = "idle" /\ MayChurn(b)
    /\ worker' = [worker EXCEPT ![w] = [Rested EXCEPT !.step = "churn", !.gate = b,
                                                      !.double = double]]
    /\ UNCHANGED <<gates, Org, Log>>

FinalizeChurned(w) ==
    LET b == worker[w].gate IN
    /\ worker[w].step = "churn"
    /\ Carry(w, b, "marked_churned", worker[w].double,
             churned' = churned \union {gates[b].item} /\ UNCHANGED <<owned, enrolled>>)

(* finalize_churn_outreach writes nothing to the org: a DM to the CSM.     *)
FinalizeOutreach(w, g) ==
    /\ worker[w].step = "idle" /\ Approved(g, "cs_churn_outreach")
    /\ worker' = [worker EXCEPT ![w] = [Rested EXCEPT !.step = "audit", !.gate = g,
                                                      !.action = "churn_outreach_posted"]]
    /\ done' = done \union {<<"churn_outreach_posted", g>>}
    /\ UNCHANGED <<gates, Org, slots, rows, audits, refused, lost, doubled, withdrawn>>

(* No audit for what was written.                                          *)
Audit_Skipped(w) ==
    /\ worker[w].step = "audit"
    /\ worker' = [worker EXCEPT ![w] = Rested]
    /\ UNCHANGED <<gates, Org, Log>>

(* write_audit, after the write.                                           *)
Audit(w) ==
    /\ worker[w].step = "audit"
    /\ audits' = audits \union {<<worker[w].action, worker[w].gate>>}
    /\ worker' = [worker EXCEPT ![w] = Rested]
    /\ UNCHANGED <<gates, Org, slots, rows, refused, done, lost, doubled, withdrawn>>

-----------------------------------------------------------------------------
(* enroll_batch: lead by lead, the slot before the write, then the row     *)

EnrollBatch(w, g, double) ==
    /\ worker[w].step = "idle" /\ Approved(g, "outbound_sequence")
    /\ worker' = [worker EXCEPT ![w] = [Rested EXCEPT !.step = "enroll", !.gate = g,
                                                      !.todo = Leads, !.double = double]]
    /\ UNCHANGED <<gates, Org, Log>>

(* RateLimitExceeded of check_and_increment.                               *)
Exhausted == slots >= DailyLimit

EnrollLead(w, l) ==
    LET g == worker[w].gate IN
    /\ worker[w].step = "enroll" /\ l \in worker[w].todo /\ rows[l] < MaxWrites
    /\ \/ /\ Exhausted                               \* RateLimitExceeded ends the batch
          /\ rows' = [rows EXCEPT ![l] = @ + 1]
          /\ worker' = [worker EXCEPT ![w] = Rested]
          /\ UNCHANGED <<enrolled, slots, refused>>
       \/ /\ ~ Exhausted
          /\ slots' = slots + 1
          /\ \/ /\ Writes(g, worker[w].double)
                /\ enrolled' = [enrolled EXCEPT ![l] = @ + 1]
                /\ UNCHANGED refused
             \/ /\ Writes(g, worker[w].double)       \* SalesforceError: a failed row
                /\ UNCHANGED <<enrolled, refused>>
             \/ /\ ~ Writes(g, worker[w].double)     \* ApprovalRequired: a failed row
                /\ refused' = refused \union {g}
                /\ UNCHANGED enrolled
          /\ rows' = [rows EXCEPT ![l] = @ + 1]
          /\ worker' = [worker EXCEPT ![w] =
                          IF worker[w].todo = {l} THEN Rested
                          ELSE [worker[w] EXCEPT !.todo = @ \ {l}]]
    /\ UNCHANGED <<gates, owned, churned, audits, done, lost, doubled, withdrawn>>

(* A killed process.                                                       *)
KillWorker(w) ==
    /\ worker[w].step # "idle"
    /\ lost' = IF worker[w].step = "audit"
               THEN lost \union {<<worker[w].action, worker[w].gate>>}
               ELSE IF worker[w].step = "link"
                    THEN lost \union {<<"link", worker[w].gate>>} ELSE lost
    /\ worker' = [worker EXCEPT ![w] = Rested]
    /\ UNCHANGED <<gates, Org, slots, rows, audits, refused, done, doubled, withdrawn>>

GatedNext ==
    \/ \E r \in Requests, a \in Accounts : Request(r, a)
    \/ \E g \in DOMAIN gates :
        \/ \E status \in {"approved", "rejected"} : Decide(g, status)
        \/ RollBack(g)
        \/ \E w \in Workers :
            \/ LookForConfirm(w, g) \/ FinalizeOutreach(w, g)
            \/ \E double \in Doubles :
                \/ \E agent \in {"cs", "onboarding"} : FinalizeReassignment(w, g, agent, double)
                \/ CheckChurned(w, g, double) \/ EnrollBatch(w, g, double)
    \/ \E w \in Workers :
        \/ CreateConfirm(w) \/ LinkConfirm(w) \/ FinalizeChurned(w)
        \/ Audit(w) \/ KillWorker(w)
        \/ \E l \in Leads : EnrollLead(w, l)

GatedSpec == GatedInit /\ [][GatedNext]_gatedVars

-----------------------------------------------------------------------------

GatedTypeOK ==
    /\ gates \in Seq(Gate) /\ Len(gates) =< MaxGates
    /\ \A w \in Workers : /\ worker[w].step \in {"idle", "confirm", "link", "churn", "audit",
                                                "enroll"}
                          /\ worker[w].gate \in 0 .. Len(gates)
                          /\ worker[w].todo \subseteq Leads
    /\ owned \subseteq Accounts /\ churned \subseteq Accounts
    /\ slots \in 0 .. DailyLimit
    /\ rows \in [Leads -> 0 .. MaxWrites] /\ enrolled \in [Leads -> 0 .. MaxWrites]

(* An account becomes Churned only over two gates for it: the approved     *)
(* confirmation, and the request it names, which stands approved too       *)
(* unless it was rolled back after the handler had read it and before the  *)
(* org was written, which nothing in finalize_mark_churned can notice.     *)
(* Requests are approved, rolled back and confirmed in any order.          *)
ChurnNeedsBoth ==
    [][\A a \in churned' \ churned :
        \E b \in DOMAIN gates :
            /\ Approved(b, "mark_churned_confirm") /\ gates[b].item = a
            /\ \E g \in 1 .. b - 1 :
                /\ gates[b].claims = g /\ gates[g].item = a
                /\ Approved(g, "mark_churned_request") \/ g \in withdrawn]_gatedVars

(* A request has one open confirmation, however often Approve is pressed   *)
(* and the handler is repeated, unless two handlers were between look and  *)
(* link at once or one died there ("Idempotent: if a confirm gate already  *)
(* exists for this parent, returns it").                                   *)
OneConfirmation ==
    \A g \in DOMAIN gates :
        (g \notin doubled /\ <<"link", g>> \notin lost) =>
            Cardinality({b \in DOMAIN gates : /\ gates[b].claims = g
                                              /\ gates[b].status # "rejected"}) =< 1

(* What was carried out is audited once nobody is at it, unless a process  *)
(* died or a call broke off between the org and the audit row: the audit   *)
(* follows the write, and nothing repairs it (slack_actions.py,            *)
(* csm_enforcer.py).                                                       *)
CarriedOutIsAudited ==
    \A d \in done \ lost :
        d \in audits \/ \E w \in Workers : /\ worker[w].step = "audit"
                                           /\ <<worker[w].action, worker[w].gate>> = d

(* A request its approver approved can be carried out: RUNBOOK.md says     *)
(* that on approval finalize_csm_reassignment "writes Account.OwnerId".    *)
ApprovedIsCarriedOut == refused = {}

(* What the approved writes keep: one confirmation for a request, and an   *)
(* audit row for what reached the org (slack_actions.py, csm_enforcer.py). *)
GatedInv == GatedTypeOK /\ OneConfirmation /\ CarriedOutIsAudited
=============================================================================
