---------------------------- MODULE SchemaChange ----------------------------
(***************************************************************************)
(* The schema-change pipeline of agents/revops_support/schema: bundles     *)
(* that change one custom field are proposed, tested in the sandbox,       *)
(* approved, deployed to the production org and rolled back.  The commands *)
(* are run by hand or by an agent, each in a process of its own; they      *)
(* share the manifest file of the bundle, the bundle's revert directory,   *)
(* the gates and the org.  A command reads the manifest when it starts and *)
(* writes its own copy back when it ends, and may be killed in between.    *)
(* A decision on a gate is one step here; ApprovalGates takes it apart.    *)
(***************************************************************************)
EXTENDS Governance

CONSTANTS
  Bundles,       \* the slugs of the bundles that may be proposed
  ActionOf,      \* their intent.action: create, modify or delete
  Procs,         \* processes that run commands
  DeployLimit,   \* RATE_LIMITS["revops_metadata_deploy_daily"]
  MaxGates,      \* ids the table may use: bounds rows and rollback requests
  MaxClock,      \* bounds time, in days
  MaxCrashes     \* bounds the killed commands

ASSUME ActionAssumption == ActionOf \in [Bundles -> {"create", "modify", "delete"}]
ASSUME BoundsAssumption == MaxGates \in Nat /\ DeployLimit \in Nat
ASSUME BundleAssumption == Bundles \cap {"absent", "original", "none", "empty"} = {}

GateIds == 1 .. MaxGates

\* What the field can be in the org: not there, as it was, or as the bundle of
\* that name leaves it.
Versions == {"absent", "original"} \cup Bundles

\* _ACTION_TO_TIER and _rollback_action_type.
Tier(b) == [create |-> "sf_schema_create", modify |-> "sf_schema_modify",
            delete |-> "sf_schema_delete"][ActionOf[b]]

RollbackTier(b) ==
  IF ActionOf[b] = "create" THEN "sf_schema_delete" ELSE "sf_schema_modify"

\* What the org holds once it has accepted the bundle.
Target(b) == IF ActionOf[b] = "delete" THEN "absent" ELSE b

VARIABLES
  gates, lastId,  \* approval_gates
  about,          \* the payload of a gate: its bundle, and whether to undo it
  clock,
  bundles,        \* the bundle directories that exist
  manifests,      \* change.yaml of each bundle
  revert,         \* what bundle/revert holds
  passed,         \* bundles a sandbox test has passed at some time
  prod,           \* the field in the production org
  deploysToday,   \* the row of rate_limits for today's deploys
  audit,          \* the rows of audit_log for deploys and rollbacks
  proc,           \* per process: the command it runs
  crashes

govVars == <<gates, lastId, about>>
vars == <<gates, lastId, about, clock, bundles, manifests, revert, passed, prod,
          deploysToday, audit, proc, crashes>>

Manifest ==
  [status : {"none", "proposed", "sandbox_passed", "sandbox_failed", "deployed",
             "deploy_failed", "rolled_back"},
   sandbox : {"none", "passed", "failed"},
   gate : GateIds \cup {0},
   rollbackGate : GateIds \cup {0},
   rollback : {"none", "pending", "deployed", "failed"}]

NoManifest == [status |-> "none", sandbox |-> "none", gate |-> 0,
               rollbackGate |-> 0, rollback |-> "none"]

\* copy is the manifest the command read, gate the gate it has opened, ok what
\* the org answered.
Command ==
  [pc : {"idle", "proposed", "testing", "snapshot", "deploy", "deploy_audit",
         "deploy_save", "prepared", "undo", "undo_audit", "undo_save"},
   bundle : Bundles \cup {"none"}, copy : Manifest, gate : GateIds \cup {0},
   ok : BOOLEAN]

Idle == [pc |-> "idle", bundle |-> "none", copy |-> NoManifest, gate |-> 0, ok |-> FALSE]

Payload == [bundle : Bundles \cup {"none"}, undo : BOOLEAN]
AuditRow == [what : {"sf_schema_deploy", "sf_schema_rollback"}, bundle : Bundles,
             gate : GateIds, ok : BOOLEAN]

TypeOK ==
  /\ gates \in [GateIds -> Row(GateIds)]
  /\ lastId \in 0 .. MaxGates
  /\ about \in [GateIds -> Payload]
  /\ clock \in Nat
  /\ bundles \subseteq Bundles
  /\ manifests \in [Bundles -> Manifest]
  /\ revert \in [Bundles -> Versions \cup {"none", "empty"}]
  /\ passed \subseteq Bundles
  /\ prod \in Versions
  /\ deploysToday \in 0 .. DeployLimit
  /\ audit \subseteq AuditRow
  /\ proc \in [Procs -> Command]
  /\ crashes \in Nat

Init ==
  /\ gates = [g \in GateIds |-> NoRow]
  /\ lastId = 0
  /\ about = [g \in GateIds |-> [bundle |-> "none", undo |-> FALSE]]
  /\ clock = 0
  /\ bundles = {}
  /\ manifests = [b \in Bundles |-> NoManifest]
  /\ revert = [b \in Bundles |-> "none"]
  /\ passed = {}
  /\ prod \in {"absent", "original"}
  /\ deploysToday = 0
  /\ audit = {}
  /\ proc = [p \in Procs |-> Idle]
  /\ crashes = 0

-----------------------------------------------------------------------------
(* Gates: requested here, decided by O in Slack, elevated by the poller. *)

Insert(action, subject, payload) ==
  /\ lastId < MaxGates
  /\ lastId' = lastId + 1
  /\ gates' = [gates EXCEPT ![lastId + 1] = NewRow(action, clock, subject)]
  /\ about' = [about EXCEPT ![lastId + 1] = payload]

Decide(g, who, approved) ==
  LET seen == Append(gates[g].approvals, [approver |-> who, approved |-> approved])
      status == DecidedStatus(gates[g].action, seen, approved)
  IN
  /\ gates[g].status = "pending"
  /\ gates' = [gates EXCEPT ![g] = ApplyDecision(@, seen, status, clock)]
  /\ UNCHANGED <<lastId, about, clock, bundles, manifests, revert, passed, prod,
                 deploysToday, audit, proc, crashes>>

\* The poller's loop for one primary: the confirmation gate, with its parent set.
Elevate(g) ==
  /\ g \in ReadyPrimaries(gates, clock)
  /\ lastId < MaxGates
  /\ lastId' = lastId + 1
  /\ gates' = [gates EXCEPT ![lastId + 1] =
                 [NewRow(ConfirmType, clock, g) EXCEPT !.parent = g]]
  /\ about' = [about EXCEPT ![lastId + 1] = about[g]]
  /\ UNCHANGED <<clock, bundles, manifests, revert, passed, prod, deploysToday,
                 audit, proc, crashes>>

-----------------------------------------------------------------------------
(* change_proposer.propose_change *)

Start(p, b, pc, id) ==
  /\ proc[p].pc = "idle"
  /\ proc' = [proc EXCEPT ![p] =
       [Idle EXCEPT !.pc = pc, !.bundle = b, !.copy = manifests[b], !.gate = id]]

\* The bundle's directory, which must not exist, and then the gate ...
ProposeOpen(p, b) ==
  /\ b \notin bundles
  /\ bundles' = bundles \cup {b}
  /\ Insert(Tier(b), 0, [bundle |-> b, undo |-> FALSE])
  /\ Start(p, b, "proposed", lastId + 1)
  /\ UNCHANGED <<clock, manifests, revert, passed, prod, deploysToday, audit, crashes>>

Finish(p) == proc' = [proc EXCEPT ![p] = Idle]

\* ... and then the manifest; a bundle without one is never picked up.
ProposeSave(p) ==
  LET c == proc[p] IN
  /\ c.pc = "proposed"
  /\ manifests' = [manifests EXCEPT ![c.bundle] =
                     [NoManifest EXCEPT !.status = "proposed", !.gate = c.gate]]
  /\ Finish(p)
  /\ UNCHANGED <<govVars, clock, bundles, revert, passed, prod, deploysToday, audit, crashes>>

-----------------------------------------------------------------------------
(* sandbox_tester.test *)

TestStart(p, b) ==
  /\ manifests[b].status # "none"
  /\ Start(p, b, "testing", 0)
  /\ UNCHANGED <<govVars, clock, bundles, manifests, revert, passed, prod,
                 deploysToday, audit, crashes>>

\* _update_manifest, which reads the manifest afresh: the result of the test
\* replaces the status, whatever that has become meanwhile.
TestSave(p, ok) ==
  LET b == proc[p].bundle IN
  /\ proc[p].pc = "testing"
  /\ manifests' = [manifests EXCEPT
       ![b].sandbox = IF ok THEN "passed" ELSE "failed",
       ![b].status = IF ok THEN "sandbox_passed" ELSE "sandbox_failed"]
  /\ passed' = IF ok THEN passed \cup {b} ELSE passed
  /\ Finish(p)
  /\ UNCHANGED <<govVars, clock, bundles, revert, prod, deploysToday, audit, crashes>>

-----------------------------------------------------------------------------
(* metadata_deployer.deploy *)

\* _delete_confirm_gate: the newest confirmation of g, and only that one.
ConfirmedBy(g) ==
  LET children == {c \in GateIds : Confirms(gates, c, g)} IN
  \E c \in children :
    /\ \A other \in children : other <= c
    /\ gates[c].status = "approved"

\* A bug it could have: a delete is verified like any other change.
GateVerified_PrimaryOnly(b, m) ==
  gates[m.gate].status \in {"approved_primary", "approved"}

\* _verify_gate.
GateVerified(b, m) ==
  IF ActionOf[b] = "delete"
  THEN /\ gates[m.gate].status \in {"approved_primary", "approved"}
       /\ ConfirmedBy(m.gate)
  ELSE IsApprovedGate(gates[m.gate], Tier(b))

\* A bug it could have: an untested bundle is taken for one that passed.
DeployStart_Untested(p, b) ==
  /\ manifests[b].status # "none" /\ manifests[b].gate # 0
  /\ GateVerified(b, manifests[b])
  /\ manifests[b].sandbox # "failed"
  /\ deploysToday < DeployLimit
  /\ deploysToday' = deploysToday + 1
  /\ Start(p, b, "snapshot", 0)
  /\ UNCHANGED <<govVars, clock, bundles, manifests, revert, passed, prod, audit, crashes>>

\* The manifest is read, the gate and the sandbox result are verified and the
\* deploy is counted; each of these refuses before the org is touched.
DeployStart(p, b) ==
  /\ manifests[b].status # "none"
  /\ manifests[b].gate # 0
  /\ GateVerified(b, manifests[b])
  /\ manifests[b].sandbox = "passed"
  /\ deploysToday < DeployLimit
  /\ deploysToday' = deploysToday + 1
  /\ Start(p, b, "snapshot", 0)
  /\ UNCHANGED <<govVars, clock, bundles, manifests, revert, passed, prod, audit, crashes>>

Goto(p, pc, ok) == proc' = [proc EXCEPT ![p].pc = pc, ![p].ok = ok]

\* _retrieve_pre_snapshot and _build_revert_package: over any earlier snapshot.
DeploySnapshot(p) ==
  LET b == proc[p].bundle IN
  /\ proc[p].pc = "snapshot"
  /\ revert' = [revert EXCEPT ![b] = IF ActionOf[b] = "create" THEN "absent" ELSE prod]
  /\ Goto(p, "deploy", FALSE)
  /\ UNCHANGED <<govVars, clock, bundles, manifests, passed, prod, deploysToday, audit, crashes>>

\* A bug it could have: the failed retrieve is logged and the deploy goes on.
SnapshotFails_GoesOn(p) ==
  LET b == proc[p].bundle IN
  /\ proc[p].pc = "snapshot" /\ ActionOf[b] # "create"
  /\ revert' = [revert EXCEPT ![b] = IF @ = "none" THEN "empty" ELSE @]
  /\ Goto(p, "deploy", FALSE)
  /\ UNCHANGED <<govVars, clock, bundles, manifests, passed, prod, deploysToday, audit, crashes>>

\* The retrieve fails and deploy() raises, the directory having been made.
SnapshotFails(p) ==
  LET b == proc[p].bundle IN
  /\ proc[p].pc = "snapshot" /\ ActionOf[b] # "create"
  /\ revert' = [revert EXCEPT ![b] = IF @ = "none" THEN "empty" ELSE @]
  /\ Finish(p)
  /\ UNCHANGED <<govVars, clock, bundles, manifests, passed, prod, deploysToday, audit, crashes>>

\* sf project deploy start: the org accepts the package or refuses it, or the
\* call times out or fails, the org having applied the package or not.
CallOrg(p, result, auditing, saving) ==
  \/ prod' = result /\ Goto(p, auditing, TRUE)
  \/ prod' = prod /\ Goto(p, auditing, FALSE)
  \/ prod' \in {prod, result} /\ Goto(p, saving, FALSE)

\* A bug it could have: the manifest is stamped without the audit row.
DeployCall_Unaudited(p) ==
  /\ proc[p].pc = "deploy"
  /\ CallOrg(p, Target(proc[p].bundle), "deploy_save", "deploy_save")
  /\ UNCHANGED <<govVars, clock, bundles, manifests, revert, passed, deploysToday, audit, crashes>>

DeployCall(p) ==
  /\ proc[p].pc = "deploy"
  /\ CallOrg(p, Target(proc[p].bundle), "deploy_audit", "deploy_save")
  /\ UNCHANGED <<govVars, clock, bundles, manifests, revert, passed, deploysToday, audit, crashes>>

Record(p, what, gate) ==
  audit' = audit \cup {[what |-> what, bundle |-> proc[p].bundle, gate |-> gate,
                        ok |-> proc[p].ok]}

DeployAudit(p) ==
  /\ proc[p].pc = "deploy_audit"
  /\ Record(p, "sf_schema_deploy", proc[p].copy.gate)
  /\ Goto(p, "deploy_save", proc[p].ok)
  /\ UNCHANGED <<govVars, clock, bundles, manifests, revert, passed, prod, deploysToday, crashes>>

\* _save_manifest: the copy read at the start, with the new status.
DeploySave(p) ==
  LET c == proc[p] IN
  /\ c.pc = "deploy_save"
  /\ manifests' = [manifests EXCEPT ![c.bundle] =
       [c.copy EXCEPT !.status = IF c.ok THEN "deployed" ELSE "deploy_failed"]]
  /\ Finish(p)
  /\ UNCHANGED <<govVars, clock, bundles, revert, passed, prod, deploysToday, audit, crashes>>

-----------------------------------------------------------------------------
(* rollback.prepare and rollback.execute *)

PrepareOpen(p, b) ==
  /\ manifests[b].status # "none"
  /\ revert[b] # "none"
  /\ Insert(RollbackTier(b), 0, [bundle |-> b, undo |-> TRUE])
  /\ Start(p, b, "prepared", lastId + 1)
  /\ UNCHANGED <<clock, bundles, manifests, revert, passed, prod, deploysToday, audit, crashes>>

PrepareSave(p) ==
  LET c == proc[p] IN
  /\ c.pc = "prepared"
  /\ manifests' = [manifests EXCEPT ![c.bundle] =
       [c.copy EXCEPT !.rollbackGate = c.gate, !.rollback = "pending"]]
  /\ Finish(p)
  /\ UNCHANGED <<govVars, clock, bundles, revert, passed, prod, deploysToday, audit, crashes>>

\* A bug it could have: the rollback goes by the deploy's gate.
ExecStart_DeployGate(p, b) ==
  /\ manifests[b].status # "none" /\ manifests[b].rollback # "deployed"
  /\ manifests[b].rollbackGate # 0 /\ ActionOf[b] # "delete"
  /\ IsApprovedGate(gates[manifests[b].gate], Tier(b))
  /\ revert[b] # "none"
  /\ Start(p, b, "undo", 0)
  /\ UNCHANGED <<govVars, clock, bundles, manifests, revert, passed, prod,
                 deploysToday, audit, crashes>>

\* A bundle already rolled back is left alone, a delete is never rolled back.
ExecStart(p, b) ==
  /\ manifests[b].status # "none"
  /\ manifests[b].rollback # "deployed"
  /\ manifests[b].rollbackGate # 0
  /\ ActionOf[b] # "delete"
  /\ IsApprovedGate(gates[manifests[b].rollbackGate], RollbackTier(b))
  /\ revert[b] # "none"
  /\ Start(p, b, "undo", 0)
  /\ UNCHANGED <<govVars, clock, bundles, manifests, revert, passed, prod,
                 deploysToday, audit, crashes>>

ExecCall(p) ==
  LET saved == revert[proc[p].bundle] IN
  /\ proc[p].pc = "undo"
  /\ CallOrg(p, IF saved = "empty" THEN prod ELSE saved, "undo_audit", "undo_save")
  /\ UNCHANGED <<govVars, clock, bundles, manifests, revert, passed, deploysToday, audit, crashes>>

ExecAudit(p) ==
  /\ proc[p].pc = "undo_audit"
  /\ Record(p, "sf_schema_rollback", proc[p].copy.rollbackGate)
  /\ Goto(p, "undo_save", proc[p].ok)
  /\ UNCHANGED <<govVars, clock, bundles, manifests, revert, passed, prod, deploysToday, crashes>>

\* A bug it could have: the two status fields of the manifest are mixed up.
ExecSave_MixesFields(p) ==
  LET c == proc[p] IN
  /\ c.pc = "undo_save"
  /\ manifests' = [manifests EXCEPT ![c.bundle] =
       [c.copy EXCEPT !.rollback = IF c.ok THEN "rolled_back" ELSE "failed"]]
  /\ Finish(p)
  /\ UNCHANGED <<govVars, clock, bundles, revert, passed, prod, deploysToday, audit, crashes>>

ExecSave(p) ==
  LET c == proc[p] IN
  /\ c.pc = "undo_save"
  /\ manifests' = [manifests EXCEPT ![c.bundle] =
       IF c.ok THEN [c.copy EXCEPT !.rollback = "deployed", !.status = "rolled_back"]
       ELSE [c.copy EXCEPT !.rollback = "failed"]]
  /\ Finish(p)
  /\ UNCHANGED <<govVars, clock, bundles, revert, passed, prod, deploysToday, audit, crashes>>

-----------------------------------------------------------------------------
\* A command is killed.
Crash(p) ==
  /\ crashes < MaxCrashes /\ crashes' = crashes + 1
  /\ proc[p].pc # "idle"
  /\ Finish(p)
  /\ UNCHANGED <<govVars, clock, bundles, manifests, revert, passed, prod, deploysToday, audit>>

\* A day goes by, and check_rate_limit opens a new window.
Tick ==
  /\ clock < MaxClock
  /\ clock' = clock + 1
  /\ deploysToday' = 0
  /\ UNCHANGED <<govVars, bundles, manifests, revert, passed, prod, audit, proc, crashes>>

Begin(p, b) ==
  \/ ProposeOpen(p, b) \/ TestStart(p, b) \/ DeployStart(p, b)
  \/ PrepareOpen(p, b) \/ ExecStart(p, b)

Continue(p) ==
  \/ ProposeSave(p) \/ (\E ok \in BOOLEAN : TestSave(p, ok))
  \/ DeploySnapshot(p) \/ SnapshotFails(p) \/ DeployCall(p)
  \/ DeployAudit(p) \/ DeploySave(p)
  \/ PrepareSave(p) \/ ExecCall(p) \/ ExecAudit(p) \/ ExecSave(p)

Next ==
  \/ \E p \in Procs : (\E b \in Bundles : Begin(p, b)) \/ Continue(p) \/ Crash(p)
  \/ \E g \in GateIds : \/ \E who \in Approvers, approved \in BOOLEAN : Decide(g, who, approved)
                        \/ Elevate(g)
  \/ Tick

Spec == Init /\ [][Next]_vars

\* The operator of RUNBOOK.md, who runs rollback.execute again until it has run
\* and never kills it; time passes and the poller is started again and again.
FairSpec ==
  /\ Spec
  /\ WF_vars(Tick)
  /\ \A g \in GateIds : WF_vars(Elevate(g))
  /\ \A p \in Procs :
       /\ \A b \in Bundles : SF_vars(ExecStart(p, b))
       /\ WF_vars(Continue(p))

-----------------------------------------------------------------------------
(* Properties *)

\* What must stand in approval_gates for bundle b to be deployed: an approved
\* gate about b; for a delete a primary whose cooldown is over and an approved
\* confirmation of it, both about b.
DeployApproved(b) ==
  \E g \in GateIds :
    /\ about[g] = [bundle |-> b, undo |-> FALSE]
    /\ IF ActionOf[b] = "delete"
       THEN /\ gates[g].status = "approved_primary"
            /\ gates[g].cooldownUntil <= clock
            /\ \E c \in GateIds : /\ Confirms(gates, c, g)
                                   /\ gates[c].status = "approved"
                                   /\ about[c] = about[g]
       ELSE gates[g].status = "approved" /\ gates[g].action = Tier(b)

RollbackApproved(b) ==
  \E g \in GateIds :
    /\ about[g] = [bundle |-> b, undo |-> TRUE]
    /\ gates[g].status = "approved" /\ gates[g].action = RollbackTier(b)

\* The org never changes without a gate that a person approved for that very
\* change: a deploy on the gate of its bundle (a delete only after its cooldown
\* and its confirmation), a rollback on a gate opened to undo that bundle.  The
\* gate was verified at the start of a command that may act much later, on a
\* manifest that other commands have overwritten since.
OrgChangesAreApproved ==
  [][prod' # prod =>
       \E b \in Bundles :
         \/ prod' = Target(b) /\ DeployApproved(b)
         \/ prod' = revert[b] /\ RollbackApproved(b)]_vars

\* What a bundle has put into the org has passed the sandbox and can be put
\* back: its revert package is there, complete, whatever was killed or timed
\* out, and however many commands were at work on the bundle.
DeployedCanBeReverted ==
  prod \in Bundles => prod \in passed /\ revert[prod] \in Versions

\* Audit rows precede the manifest: a bundle that is stamped deployed or
\* rolled_back has the row that says so, under the gate that allowed it.
StampedIsAudited ==
  \A b \in Bundles :
    LET m == manifests[b] IN
    /\ m.status = "deployed" =>
         [what |-> "sf_schema_deploy", bundle |-> b, gate |-> m.gate, ok |-> TRUE] \in audit
    /\ m.rollback = "deployed" =>
         [what |-> "sf_schema_rollback", bundle |-> b, gate |-> m.rollbackGate,
          ok |-> TRUE] \in audit

\* What the bundles, the org and the audit log keep between them.
BundlesInv == TypeOK /\ DeployedCanBeReverted /\ StampedIsAudited

\* RUNBOOK.md, "Rollback a bad prod deploy": once O has approved the rollback
\* gate, execute re-deploys the revert package.  (Not so for a create.)
ApprovedRollbackRuns ==
  \A b \in Bundles :
    (/\ manifests[b].rollback = "pending"
     /\ gates[manifests[b].rollbackGate].status \in {"approved", "approved_primary"})
      ~> (manifests[b].rollback \in {"deployed", "failed"})

\* rollback.py replays the pre-deploy snapshot: a bundle stamped rolled_back is
\* no longer what the org holds.  (Not so once a deploy has been retried.)
RollbackRestores ==
  [][\A b \in Bundles :
       manifests[b].status # "rolled_back" /\ manifests'[b].status = "rolled_back"
         => prod # b]_vars
=============================================================================
