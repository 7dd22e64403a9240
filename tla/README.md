# loop-revops-agents: TLA+ models and proofs

This directory specifies the RevOps agents: the approval gates every risky write
passes through, what the agents write behind them, the sweeps and pollers that
watch the org and tell people, and the figures they are told. Each module is
translated from the Python source; comments name the functions, and `PROJECT.json`
("map") names the lines of every definition.

Contents

1. The system and its parts
2. Modules, and how they correspond to the code
3. What is checked
4. Fairness
5. What is proved
6. Disagreements between the code and its documents
7. What is not modelled, and what is left

Paths below are relative to the repository root.

---

## 1. The system and its parts

Seven agents run on one machine. They are ordinary short-lived Python processes:
launchd starts them by the cron lines of `shared/runtime/schedule.py`, people start
them by hand, and a Slack daemon (`agents/oo`) starts them from commands and button
clicks. **They share state and nothing else**: one SQLite database
(`shared/db/schema.sql`), files under `agents/*/` (change bundles, the drift
baseline, Top of Funnel's `state.db`), the knowledge files with their git
repository, and the Salesforce org, reached by spawning the `sf` CLI with a timeout.
There are no locks across processes, so whatever one process has read another may
change before it writes, and any process may be killed between two writes.

| Part | State it keeps | Operations that change state | What makes it correct |
|---|---|---|---|
| **Governance** (`shared/governance.py`) | `approval_gates`, `rate_limits`, `audit_log` | `create_approval_gate`, `decide_approval_gate`, `auto_approve_gate`, `check_rate_limit`, `write_audit` | a gate is decided once, on clicks really made; two different people for a dual gate; a decision is audited; a cap is a cap |
| **Slack dispatcher** (`shared/slack_dispatcher.py`) | none | `handle_gate_decision` | a confirmation cannot be approved while its parent cools |
| **Cooldown poller** (`revops_support/schema/cooldown_poller.py`) | rows of `approval_gates` | `poll` | no confirmation before the 24 h are over; every cooled primary gets one |
| **Schema pipeline** (`schema/change_proposer`, `sandbox_tester`, `metadata_deployer`, `rollback`) | `change.yaml`, `bundle/revert/`, the org's metadata | `propose_change`, `test`, `deploy`, `prepare`, `execute` | the org changes only as a person approved; what is deployed was tested and can be put back; stamps are audited |
| **Canary** (`schema/first_task_ceo_tier.py`, `canary_poller.py`) | its `change.yaml` | propose, test, deploy, verify, roll back | drift is heard of once; checks are against the deploy's own baseline; a roll-back that is recorded has happened |
| **Salesforce MCP** (`shared/mcp/salesforce_mcp.py`) | the org | `create_record`, `update_record`, `merge_records`, `deploy_metadata` | each write has an approved gate of the tier it demands |
| **Closed Won poller** (`onboarding/closed_won_poller.py`, `onboarding_record_creator.py`, `csm_enforcer.handle_created`) | `Onboarding__c`, `agent_runs`, `audit_log` | `poll` | one record per win; a win picked up is not forgotten; somebody is asked to own an unowned record |
| **Milestones and stalls** (`onboarding/milestone_monitor.py`, `stall_actions.py`) | `onboarding_stall_alerts` | scan, snooze | one alert per window; a snooze lasts what the user was told |
| **Data quality** (`revops_support/data_quality`) | records, snapshots, audit rows, tasks | bulk update, merge, polls for review | what was written can be put back; merges stay within duplicates; a finding is asked about once |
| **Permissions** (`revops_support/permissions`) | users, grants, ownership | provision, grant, revoke, offboard | nothing is left with a user who is gone; a new user is whole |
| **Knowledge refresh** (`revops_support/knowledge_refresh`, `shared/mcp/knowledge_mcp.py`) | snapshot, canonical file, git, corpus | snapshot, merge, re-ingest | the three copies agree; a merge changes what the digest listed |
| **Monitors** (`revops_support/integration_health`, `oo/board_monitor.py`, `*/integration_health.py`, `cs/risk`, `cs/renewal/stall_monitor.py`, `cs/expansion`) | marks, tasks, a baseline file | sweeps | what is marked as said was said, and once |
| **Customer Success** (`cs/handlers`, `cs/renewal/pipeline.py`) | `cs_*` tables, renewal opportunities | mark churned (gates A and B), reassign, renewal sweep | churn needs both gates for the same account; one renewal for a contract's end |
| **Top of Funnel** (`agents/top_of_funnel`) | `state.db`: suppression cache, buffer, rotation, credits | suppress, enrich, route, write, brief, enroll, spend | who is suppressed is neither written nor told; one lead per address; fair rotation; a threshold announced once |
| **Sales Reps** (`agents/sales_reps`) | grades, briefs, alerts | grade, brief, sync check, boards, deal sweeps | a repeated run grades no call again; hourly budgets; a moved demo is not briefed again; a grade is of one week |
| **SLT metrics** (`agents/slt_metrics`) | snapshots, forecast history, weights | snapshot, diff, score, replay, save weights | readers are shown what moved; scores and flags agree; the past is replayed as it stood |
| **Caches** (`query/describe_cache.py`, `enrichment/apollo_client.py`) | `sobject_describe_cache`, `apollo_cache` | get, bust, clean-up | a bust is followed; an answered query is billed once |
| **Agent wrapper, scheduler** (`shared/agent_base.py`, `shared/runtime`) | `agent_runs`, launchd plists | run, `request_approval`, install | a run row is closed whatever the run raised |
| OO commands, Fireflies MCP, file ingest, reports, workbooks, legacy model, infra | mostly none | I/O, rendering | not specified |

### How they interact

```
 people --click--> Slack daemon --decide_approval_gate--+
 agents --create_approval_gate / auto_approve_gate------+--> approval_gates <--+
 launchd */15 --> cooldown poller --------(reads, then inserts)----------------+
                                                                               |
 operator --> propose | test | deploy | prepare | execute --(require_approved)-+
                |          change.yaml, bundle/revert          |
                +------------------ Salesforce org ------------+
 launchd */5 --> closed-won poller --(gate for itself, create_record)--> org
                        |  watermark in agent_runs, outcome in audit_log
 an approved gate --> finalize_* | apply_* | enroll_batch --(create/update_record)--> org
 launchd nightly --> enrichment --suppress, score, route--> buffer --> briefing --> SDRs
 launchd daily   --> sweeps --(read org)--> mark, task, alert in an order of their own
 launchd morning --> snapshot --> diff of two --> briefing;  snapshot --> forecast
```

### What is hard here

* **Read, then write.** SQLAlchemy on SQLite opens no write transaction for a
  SELECT, so `SELECT status` and `UPDATE ... WHERE status='pending'` are two steps.
  The manifest is worse: it is read at the start of a command and written back
  whole, after a call to the org that may take minutes.
* **Calls that time out after they worked.** `_sf` raises on a timeout, and the org
  may have applied the package or made the record.
* **Writes that are not one write.** The decision and its audit row, the
  confirmation gate and its parent link, the gate of a proposal and its manifest,
  the record and the question who owns it.
* **Approvals that are used much later than they were given**, and a second
  approval that must come at least 24 hours after the first.
* **Watermarks** that move past what a run has not seen, and baselines replaced before
  anybody was told.
* **Mark, task and alert** in an order each sweep chooses for itself.
* **Caches** that are written back by readers who began before a change.
* **Figures** computed in pieces whose edges must agree: bands, caps, flags, labels,
  weeks, change logs.

`PROJECT.json` ("hazards") lists these at their lines, with the properties that
would catch each going wrong. Two have none that a run checks, since the code does not
keep what its documents promise there (section 6).

---

## 2. Modules, and how they correspond to the code

| Module | Models | Builds on |
|---|---|---|
| `Governance` | the tiers, the row of a gate, the pure part of a decision, the poller's query | — |
| `GateLedger` | **abstract**: what the gates promise, without processes or transactions | — |
| `ApprovalGates` | the table and every process that writes it | `Governance`, refines `GateLedger` |
| `ApprovalGates_proofs` | theorems about it | `ApprovalGates` |
| `SchemaChange` | propose, test, deploy, prepare, execute; the org | `Governance` |
| `SchemaChange_proofs` | theorems about it | `SchemaChange` |
| `ClosedWonPoller` | a run of the poller, overlapping runs, the org | — |
| `RateLimits` | `check_rate_limit`, `rate_gates.check`, statement by statement | — |
| `SalesJobs` | the grader, the briefs, the sync check, the leaderboard | `RateLimits` |
| `SalesJobs_proofs` | theorems about both, that the jobs are a `RateLimits`, and about the two modules of grades and deals | `SalesJobs`, `CallGrades`, `DealWatch` |
| `GatedWrites` | what follows an approval: the CS handlers, `apply_reassignment`, `enroll_batch`, and the writers with the tier each demands | — |
| `RenewalSweep` | the renewal sweep, overlapping and killed | — |
| `BulkUpdate` | the bulk updater: snapshot, audit rows, chunks | — |
| `RecordDedup` | clusters, proposals, review tasks and merges | — |
| `Records_proofs` | theorems about the gated writes, the renewal sweep, the bulk updater and the merges of duplicates | `GatedWrites`, `RenewalSweep`, `BulkUpdate`, `RecordDedup` |
| `RoleCanary` | the canary bundle, its timetable and its roll-back | — |
| `KnowledgeRefresh` | snapshot, digest, merge, commit, re-ingest, gap scan | — |
| `UserAccess` | provisioning, grants, offboarding, licence audit | — |
| `ReviewTasks` | the polls of validation rules and bad conversions | — |
| `ReadCaches` | the describe cache and Apollo's | — |
| `RevOps_proofs` | theorems about these five | `RoleCanary`, `KnowledgeRefresh`, `UserAccess`, `ReviewTasks`, `ReadCaches` |
| `SignalMonitors` | five sweeps, each an order of mark, task and alert | — |
| `IntegrationHealth` | both health pollers | — |
| `StallAlerts` | the onboarding stall scan and its snooze | — |
| `MetadataDrift` | the drift poll | — |
| `Monitors_proofs` | theorems about these four and the Closed Won poller | `SignalMonitors`, `IntegrationHealth`, `StallAlerts`, `MetadataDrift`, `ClosedWonPoller` |
| `SuppressionCache`, `LeadPipeline`, `LeadRouting`, `ClayBudget` | Top of Funnel | — |
| `TopOfFunnel_proofs` | theorems about these four | `SuppressionCache`, `ClayBudget`, `LeadPipeline`, `LeadRouting` |
| `ProspectScores` | the fit score and the churn score | — |
| `PipelineMovers`, `DealForecast`, `ForecastReplay` | SLT metrics | — |
| `Reviews_proofs` | theorems about the scores and the SLT metrics | `ProspectScores`, `PipelineMovers`, `DealForecast`, `ForecastReplay` |
| `CallGrades`, `DealWatch` | what a transcript becomes, the sweeps over open deals | — |
| `MCApprovalGates`, `MCSchemaChange`, `MCSalesJobs` | constants and symmetry for TLC | — |
| `MCTopOfFunnel`, `MCMonitors`, `MCRecords`, `MCRevOps`, `MCReviews` | suites: several modules that share no variable, one of which moves in a behaviour | — |

### Governance

No state. `ActionTypes`, `CooldownTypes`, `DualTypes` and `AutoApproveTypes` are the
keys of `APPROVAL_TIERS` and the fields the code branches on. `DecidedStatus` is the
if-chain of `decide_approval_gate` between its SELECT and its UPDATE, and
`ApplyDecision` the UPDATE with its `WHERE ... status = 'pending'`. `ReadyPrimaries`
is the query of `cooldown_poller._ready_primaries`. A dual gate is only one whose
approver is `jackie_and_o`, because that is what the code tests.

### ApprovalGates

| Code | Action |
|---|---|
| `create_approval_gate`, called by agents | `Create` |
| a click, after `handle_gate_decision`'s cooldown guard | `Click` |
| agents that approve what they have just requested (closed-won poller, renewal sweep, `single_record_update` writers) | `SelfApprove` |
| `decide_approval_gate`: SELECT / UPDATE / `write_audit` | `SelectGate` / `UpdateGate` / `AuditDecision` |
| `cooldown_poller.poll`: query / INSERT of a child / UPDATE of its parent | `PollScan` / `PollCreate` / `PollLink` |
| a killed process | `CrashDecider`, `CrashPoller` |

`gates` is the table, `audit` the `gate_decided` rows; `decider[d]` and `poller[p]`
are what a process has read and not used yet. `clicks` and `lost` are history the
properties need: the decisions people asked for, and the gates whose decider died
between its UPDATE and its audit row.

Left out: the refusal of a missing justification (it changes nothing), payloads
other than the parent reference, Slack rendering.

### GateLedger

The promise, in four variables: a gate of some kind is requested, ballots are cast,
and it is settled at most once with an outcome the cast ballots justify; a
confirmation may be requested only while the primary's approval is cooling. It
knows no SELECT, no lost update, no crash. `ApprovalGates!ImplementsLedger` is the
refinement: `ballots <- clicks`, `outcome` and `kind` read off the rows. A vote
that another decider's UPDATE overwrites is still in `clicks`; the ledger allows a
settlement on fewer ballots than were cast and never on others.

### SchemaChange

A bundle changes one field, which the org holds as `absent`, `original` or as some
bundle leaves it. A command is a process that goes through the program counters of
`Command`, carrying `copy`, the manifest it read at its start.

| Code | Actions |
|---|---|
| `propose_change` | `ProposeOpen` (directory, gate), `ProposeSave` (manifest) |
| `sandbox_tester.test` | `TestStart`, `TestSave` (re-reads the manifest) |
| `metadata_deployer.deploy` | `DeployStart` (all refusals, the rate limit), `DeploySnapshot` / `SnapshotFails`, `DeployCall`, `DeployAudit`, `DeploySave` |
| `rollback.prepare` | `PrepareOpen`, `PrepareSave` |
| `rollback.execute` | `ExecStart`, `ExecCall`, `ExecAudit`, `ExecSave` |
| the Slack click, the cooldown poller | `Decide`, `Elevate` (atomic here; `ApprovalGates` takes them apart) |
| a new day for `check_rate_limit` | `Tick` |

`CallOrg` is a call through `_sf`: accepted, refused, or raised with the org changed
or not. Fused into one step: retrieving the snapshot and writing `package.xml`, and
the checks at the start of a command together with the rate-limit increment. The XML
is not modelled.

### ClosedWonPoller

One run is `Start` (run row, strategy, watermark), `Select` (at most `_MAX_BATCH`,
in no order), then per candidate `Check`, `CreateRecord`, `AuditCreate`, `Notify` or
`AuditFailure`, and `Finish`, which moves the watermark `lastDone` to now. `Touch` is
Salesforce: a win, or an edit of one. `Crash` kills a run; its row stays
`in_progress` and does not move the watermark. `Notify` is the end of `create_from_opp`
with `csm_enforcer.handle_created`: whatever that raises is swallowed, and it is skipped
when the create was answered without an id, so nobody may be asked (`unasked`).

Left out, with reasons. The gate each candidate opens is approved by the same process
at once and shown to nobody, so no click can reject it (its races are `SelfApprove`
in `ApprovalGates`). The run rows that `AgentBase` writes have status `success`,
which `_last_poll_time` does not look for. The onboarding type and the fields of the
record do not influence control.

### RateLimits

| Code | Action |
|---|---|
| `SELECT id, count`, and the exception of a hard limit | `RateSelect` |
| `UPDATE ... SET count` or the `INSERT` of a first row | `RateWrite` |
| the caller goes on, or dies | `RateEnd` |
| a new hour | `RateTick` |

`counts` is the table, `check[p]` what process `p` has read and not yet written. The
INSERT raises `IntegrityError` when somebody else's row is there by then
(`UNIQUE(bucket, window_start)`): the answer `error`. `granted` and `raced` are
history: the uses really let through, and the windows for which two callers have held
a read count at the same time. Both functions of the code are this module, since they
are the same code over two tables of limits; `PeriodOf` gives a bucket its hour, day
or week, and `WindowStart` rounds down to it. An unknown bucket raises before
anything is read and is left out.

### SalesJobs

| Code | Actions |
|---|---|
| `grader_poll`, `batch-grade` | `StartBatch`, then per row `SkipGraded` or `AskSlot`, `SlotWrite`, `SlotAnswer`, `StoreGrade` or `LeaveUngraded`, then `Done` |
| `grade` | `StartGrade`, `StoreGrade` or `LeaveUngraded`: no lookup and no slot |
| `brief_scan` | `StartScan`, per candidate `Candidate`, `WriteBrief` or `NoBrief`, then `Done` |
| `brief` | `StartBrief`, `WriteBrief` or `NoBrief` |
| `sync_check`, as tick or command | `StartSync`, `SlotWrite`, `SlotAnswer` |
| `leaderboards._grade_stats_by_rep` | `Leaderboard` |
| a killed process | `Crash` |

`AskSlot` fuses the lookup of the grade with the SELECT of the limit. That hides only
a grade stored between the two, which would let one more overlapping process grade
the call; it can do so anyway at any later step. Between `AskSlot` and `StoreGrade`
everything else may happen, as it may while the model answers. launchd never runs the
same tick twice at once, so `Start` refuses that; a tick and a command of the same
kind do overlap. The audit rows of briefs are modelled because the next scan reads
them. The other audit rows of these jobs are read by nothing and are left out; what the
grades are made of is `CallGrades`, and the sweeps over deals are `DealWatch`. A job that would only report
(Momentum unreachable, no calls missing) changes nothing and has no action.

### GatedWrites

What happens after an approval, in `agents/cs/handlers/slack_actions.py`,
`csm_enforcer.apply_reassignment` and `sequence_enroller.enroll_batch`, down to the
tier that `create_record` and `update_record` demand.

| Code | Action |
|---|---|
| a request, and the click that settles it (`ApprovalGates` takes it apart) | `Request`, `Decide` |
| `handle_mark_churned_approve`: look for gate B / INSERT / link | `LookForConfirm` / `CreateConfirm` / `LinkConfirm` |
| `finalize_mark_churned`: both gates read / the write to the org | `CheckChurned` / `FinalizeChurned`, then `Audit` |
| `finalize_csm_reassignment`, `finalize_churn_outreach`, `apply_reassignment` | `FinalizeReassignment`, `FinalizeOutreach`, then `Audit` |
| `enroll_batch`, lead by lead | `EnrollBatch`, `EnrollLead` |
| the RUNBOOK's roll-back of gate A by hand | `RollBack` |

A writer may be the MCP or, as in the tests, an injected double that asks for no
gate. `refused` collects the approved requests that the MCP turned down. A roll-back of
gate A may come between `CheckChurned` and `FinalizeChurned`; `withdrawn` has the requests
that this happened to. The other finalizers read one gate that nobody rolls back, so their
check and write are one step.

### RenewalSweep, BulkUpdate, RecordDedup

`RenewalSweep` is the daily sweep over one contract per account: `StartRenewals`
(picklist, contracts due), then per contract `CheckExisting`, `CreateRenewal`
(created, refused, or unanswered with or without effect), `PersistState`,
`FinishSweep`. People close renewals (`Close`), move a contract's end (`MoveEnd`) and add the stage that was
missing (`AddPicklistValue`).

`BulkUpdate` is `bulk_updater.run`: `StartJob` (tier, gate, daily cap), `Snapshot`,
and for each chunk `WriteAudit`, then `Patch`, where the org takes any part of the
chunk and the answer may be lost. `held` is history: what a record held when a job
overwrote it. Values are the job that wrote them.

`RecordDedup` is `poll` of both dedup modules: `Scan` clusters, ranks and proposes in
one step (one query), `FileReviews` opens the tasks, `MergeBatch` merges two records
into their master. `Reweigh` changes what the ranking reads. Sub-clusters of equal
website and place are joined one after the other, in the order of the answer, each to
the first cluster that it shares something with (`Place`, `Placed`), as the code's loop
does; two clusters that a later sub-cluster would connect stay apart. What has one record
only is dropped (`Several`), and the rest is ranked (`Outranks`, `InOrder`).

### RoleCanary, KnowledgeRefresh

`RoleCanary`: `change.yaml` is `manifest`; a command or a poll keeps its copy in
`hand`. `SandboxTest`; `DeployRole`, `CallDeploy`, `SaveDeployed`, `Schedule`;
`PrepareRollback`, `SavePrepared`, `ExecuteRollback`, `CallRollback`, `SaveRollback`;
`StartCanaryPoll`, `Verify`, `DriftAlert`, `EndPoll`. A call to the org is taken or
not, answered or not. What the code cannot keep apart sets `blurred`: a copy of the file
that is written over a newer one, two polls at once, an answer that is lost, and two
commands that call the org at once (a deploy and a roll-back that overlap leave the file
with the one's word and the org with the other's, though each finds the file as it left
it; a run with one command never shows that, the attempt at a proof did).

`KnowledgeRefresh` follows one canonical file through its four copies: `TakeSnapshot`,
`SendDigest`; `CopyOver`, `GitAdd`, `GitCommit` (the merge); `ReadCanonical`,
`IngestChunk`, `PruneStale` (the re-ingest); `ScanForGap`. A text is a list of objects
and a version of each one's section. There is a snapshot for each date; the digest is of
the newest and the merge of whatever date it is given. The digest's message is its first
2800 characters: what it lists is split into the sections `shown` and those `cut` off, in
the order in which `diff` writes them. `told` is the digest's date as long as neither of
its two files has been written. Markdown and embeddings are left out.

### UserAccess, ReviewTasks, ReadCaches

`UserAccess`: `Provision`, `CreateUser`, `Attach`, `Provisioned`; `Grant`, `Revoke`;
`Offboard`, `CountOwned`, `ListOwned`, `MoveOwned`, `Moved`, `Deactivate`,
`OpenFollowup`; `AuditLicenses`. Each call checks the gate it was handed, by tier and
by size. `Assign` is people at work in the org.

`ReviewTasks`: `PollRules` or `PollLeads` reads the org, `LookUp` asks the task table,
`CommitTasks` files what was missing. `DropField`, `AgeRule`, `Convert` and `CloseTask`
are the org and its people.

`ReadCaches`: `Get`, `Fetched`, `Upsert` of the describe cache with `BustAlias`,
`VacuumStale` and the `Deploy` it has to follow; `Search`, `PostSearch`, `CacheWrite`
of Apollo's with `ClearExpired` and `Corrupt`. `bills` are the charges of the query: when,
and whether it was answered. A call that times out, or whose answer cannot be decoded,
stores nothing and may be charged.

### SignalMonitors, IntegrationHealth, StallAlerts, MetadataDrift

`SignalMonitors` has the sweeps that differ only in the order of mark, task and alert:
`RenewalStall` (look, check, task, alert), `ChurnRisk` (look, score row, alert, check,
task), `Expansion` and `Surface` (check, task; `Surface` counts open tasks only) and
`Board` (look, task, alert, whose failure is swallowed). A `monitor` is that order as
a record, and one machine carries it out: `StartSweep`, `Begin`, `Look`, `Score`,
`InsertTask`, `SendAlert`, `AlertFails`, `CompleteTask`. Each is translated from its own
file; `map` names the five. What the conditions are (which stage, which score, which
licence) is left out: a subject is quiet, loud or neither, and `OrgChanges` moves it.

`IntegrationHealth` follows one integration of either poller: `Probe` (what each makes
of an answer), `ReadPrior`, `RecordHealth`, then `TellO` or `OpenTask`.
`StallAlerts`: `Fetch`, per onboarding `CheckWindow` / `Post` / `Record`, `FinishScan`;
`Extend` is the snooze button and `Advance` the customer. Thresholds are in business
days, with the code's count of them.
`MetadataDrift`: `LoadPrior`, `Describe`, `SaveCurrent`, `SurfaceTask`, `EndDriftPoll`.
Signatures are numbered, so that an object may change again while a task is open.
`surface_task` returns an open task as it is: what that task does not say is in `hidden`,
what people were told of in `shown`, what nobody filed in `missed`.

### SuppressionCache, LeadPipeline, LeadRouting, ClayBudget

Four modules that share no variable, because the code calls one from the other for an
answer only; `LeadPipeline` takes those answers as it finds them.

| Module | Code | Actions |
|---|---|---|
| `SuppressionCache` | `is_suppressed`: lookup / Salesforce / write | `Lookup` / `AskSalesforce` / `CacheWrite`, then `Answered` |
| | `add_manual`, `clear_expired`, an opt-out in the org | `AddManual`, `ClearExpired`, `Block` |
| `LeadPipeline` | `run_pipeline` | `StartRun`, `Gather` (suppress, score, route), `Buffer`, `OpenGate`, `CreateLead` per row, `MarkWritten`, `CloseRun` |
| | `send_daily_briefing` | `StartBrief`, `Send` per SDR, `MarkBriefed` |
| `LeadRouting` | `_next_index`: SELECT / UPDATE | `SelectIndex` / `WriteIndex` |
| | the user cache, and a user who leaves | `Refresh`, `Leave` |
| `ClayBudget` | `spend`: SELECT / UPDATE / refusal / alerts | `SelectBudget` / `ApplySpend` / `RefuseSpend` / `Alert` |

The nightly writer runs in production with the MCP, which refuses its bulk gate, and in
the tests with an injected one that takes it (`injected`); both are behaviours.

### ProspectScores, DealForecast

Pure functions of a record, evaluated over bounded records; a state is one of them.
`ProspectScores` has `icp_scorer.score` and `cs/risk/scoring.py` with their caps and
bands. `DealForecast` has the five pillars, the weighted score, categories, risk flags
(`TakeDeal`), the roll-up by owner (`RollUp`) and the quota report
(`BuildQuotaReport`); a column of either is the `Sum` over the owners. Scores are integers in the common denominator of the code's
constants. The properties compare a record with its neighbour: a day later, one fact
unknown, one fact worse. A day later the deal is a day older and nearer its close date, and
any of its calls may have left the window of fourteen days (`DayLater`, `CallsLeft`).

### PipelineMovers, ForecastReplay

`PipelineMovers`: `FetchOpps` and `WriteSnapshot` are the morning job, `Brief` compares
two snapshots and prints the movers that are largest by their amount (`Top`), by kind and
amount and without the stage. `heard` is the stage that a deal had when a printed move of
stage last pointed the reader to it; `cut` are the deals whose last such move was left off
behind larger ones.

`ForecastReplay`: a deal's past is made by `EditAcv`, `EditClose`, `ChangeStage`,
`Touch` and `EndDay`, which also leave the change log that `RewindOpp` undoes;
`BacktestResult` grades the cohorts of a window, with the days of each deal's past
that its actuals cover. The other half is `forecast_history`:
`SetWeights`, `Propose`, `Promote`, `PersistBacktest`, with the version that each row
gets.

### CallGrades, DealWatch

`CallGrades`: `GradeCall` takes a transcript (what its title and talk match) and a
model's reply through classifier, rubric, clamps, caps, percentage and label to the
row. A rubric is what its sections weigh together, those with critical items and the
others. `LeaderboardWeekly` and `ScorecardsWeekly` read a week of rows. A rep may be without
a name in the transcript, and a call without a rep: the board counts the calls of one name
of each rep, board and cards none that are nobody's. `SkipTick` is a machine that was
asleep. Scheduling and budgets of grading are `SalesJobs`'.

`DealWatch`: `RiskSweep` with its detectors, and `HygieneSweep`; the deal's own changes are
actions, of which `Reprice` and `Reschedule` leave a row in the history (`moves`), and any
edit of a contact who left dates the leaving anew (`EditChampion`). A detector that raises
is in `errors`; two of them swallow the failure of their own queries and calls and answer
with nothing (`Swallowing`), which only the log knows. All limits are on the rows of every
deal together (500 and 200), so that of one deal's rows a query may answer any part, and a
hygiene query may stop before the deal (`beyond`). The previews in the Slack texts (5 per
rep, 20 per severity) are rendering.

---

## 3. What is checked

Every run finishes in about four minutes or less with two workers. Runs with
processes that differ in nothing but their names use symmetry over them and check no
liveness. All runs set `CHECK_DEADLOCK FALSE`, because time, ids, clicks and crashes are
bounded: the model stops when the bounds are used up, and the system is idle when
nobody does anything.

| Run | Instance | Shows |
|---|---|---|
| `gates_decide` | 2 deciders, 3 people, 1 gate that is dual, plain or self-approved, 3 entries in its list, 1 crash | `DualTwoPeople`: two racing clicks never let one person pass for two, and an approved dual gate has no rejection in its list; `DecisionsAreAudited`; `ImplementsLedger`; `TypeOK` |
| `gates_cooldown` | a delete gate, 2 overlapping polls, 1 decider, up to 3 confirmations, 1 crash, clock 0..3 with cooldown 2 | `ConfirmationFollowsCooldown`; `PrimaryIsElevated` (liveness) |
| `schema_changes` | 2 processes on a modifying bundle, or one at a time on a creating and a deleting one; 2 deploys a day, 3 gates, cooldown 1 day, 1 killed command | `OrgChangesAreApproved`: primary, cooldown and confirmation all behind each change; `BundlesInv`: what is deployed can be put back, stamps are audited |
| `closed_won_once` | 2 wins, one unowned, consecutive runs, 1 killed, 1 failed or timed-out call | `OneOnboardingPerWin`, `HandledIsSettled`, `UnownedIsAsked`, `PickedUpIsSettled` (liveness); the failing call may be the question who owns the record |
| `sales_jobs` | 2 processes, 2 calls, 1 opportunity, limits of one use an hour, hours 0..2, 3 jobs, 1 killed | `CappedUnlessRaced`, `NeverRefusedEarly`, `GradedOncePerRunner`, `ScanBriefsApart` |
| `top_of_funnel` | 2 addresses, 2 processes of each kind, 2 nights of Apollo, a rotation of 3 SDRs, 2 months of credits with a top-up, 1 kill | `SuppressionInv`, `LeadInv`, `RoutingInv`, `ClayInv` |
| `monitors` | 2 sweeps or pollers of each kind; 1 subject over 2 days, 1 integration, 1 onboarding with 2 stages over a weekend, 1 described object that changes three times | `SignalInv`, `HealthInv`, `StallInv`, `DriftInv` |
| `records` | 2 requests and their confirmations for an account and a lead, 2 workers; 1 contract whose end may move, 2 sweeps, 1 killed or unanswered behind its create; 2 jobs on 2 records and an absent id; 3 records to merge | `ChurnNeedsBoth` (a step property), `GatedInv`, `RenewalInv`, `BulkInv`, `DedupInv` |
| `revops` | 1 canary command and 1 poll; 2 stewards, 2 objects, 2 texts, 2 dates; 2 users, 2 records; 2 rules, 1 lead; 2 reads of each cache | `CanaryInv`, `KnowledgeInv`, `AccessInv`, `TasksInv`, `CachesInv` |
| `reviews` | 3 days of snapshots of 2 deals, one of which is edited, a briefing with room for 1 mover; slices of deals through the forecast; 3 days of a deal's history with 4 weight rows; 2 calls over 3 weeks; 1 deal watched for 3 days; prospects and customers at the thresholds | `MoversInv`, `ForecastInv`, `ReplayInv`, `CallsInv`, `WatchInv`, `ScoresInv` |
| `schema_snapshot`, `closed_won_missed` | as small as shows it | a statement of the repository that the code does not keep (section 6) |

The last five of the passing runs are **suites**. Their modules share no variable, so
the initial state chooses which of them moves (`part`), and TLC sees the sum of their
state spaces and not the product. What a suite checks of a module is one conjunction
per module, made of these parts and the module's type invariant:

| Conjunction | Parts |
|---|---|
| `SuppressionInv` | `ManualHolds`: a manual opt-out holds for its week. `OptOutIsSeen`: an opt-out in the org is hidden no longer than an answer lives |
| `LeadInv` | `BriefedOnce`, `SuppressedStaysOut`, `OneLeadPerAddress` |
| `RoutingInv` | `RotationIsFair`: shares differ by one at most. `LeaversGetNothing` a day after leaving |
| `ClayInv` | `ThresholdsAnnounced`: the ledger is what was spent, and each threshold is told once a month |
| `SignalInv` | `EachSignalOnce`, `NothingMarkedUnsaid` |
| `HealthInv` | `UnhealthyIsTold`: a status that turned bad was spoken of, unless its poll died, overlapped another or could not send |
| `StallInv` | `AlertsKeepApart`: no second alert inside a window or a snooze |
| `DriftInv` | `DriftIsTold`: each change that the baseline has taken in was told in a task, or is in `hidden` or `missed`. `HiddenBehindAnother`: `hidden` only has changes of objects that people were told of before |
| `GatedInv` | `OneConfirmation` per request, `CarriedOutIsAudited` |
| `RenewalInv` | `RenewedOnce` per contract's end, `FallbackIsProvisional` |
| `BulkInv` | `RevertibleFromAudit`: the audit rows hold what each record held, after any failed chunk |
| `DedupInv` | `MergesHangTogether`: nothing is merged away that was not linked to what is left |
| `CanaryInv` | `DriftIsHeardOnce`, `CheckedAgainstItsOwn`, `RolledBackIsGone` |
| `KnowledgeInv` | `CanonicalIsCommitted`, `CorpusIsTheCanonical`, `MergedAsShown` |
| `AccessInv` | `DeactivatedOwnsNothing`, `DeactivationIsFollowedUp`, `NewUserIsWhole` |
| `TasksInv` | `AskedOnceAtATime`, `FindingsAreAsked`, `NoOrphanUnread` |
| `CachesInv` | `BustIsFollowed`, `BilledOnce` |
| `MoversInv` | `NoMoveIsLost`: whoever read each briefing was shown each deal's last move of stage, or it was cut off. `ReportSpeaksOfBoth` |
| `ForecastInv` | `SilenceNeverHelps`, `StrongNeedsASignal`, `FlagsTellTheScore`, `BonusAndPenaltyAreLost`, `VerdictIsATiebreak`, `TeamRiskHasAnOwner`, `TotalsAreTheOwners` |
| `ReplayInv` | `ReplayedAsItStood`: the replayed deal is the deal of that day. `ActualsAreOfTheCohort`, `LastSaveIsInForce`, `OwnWeightsAreKept` |
| `CallsInv` | `PercentageTellsTheLabel`, `MarksAreBounded`, `OneBoardPerGrading`, `CardsMissNothing` |
| `WatchInv` | `SlipsAreSeen`, `OthersAreStillTold`, `CutOffOnlyHides`, `QuietDealIsReported` |
| `ScoresInv` | `UnknownNeverHelps`, `NoHealthNoAlarm`, `AlertsRestOnThree`, `WorseIsNoBetter` |

### What excuses a property

Many of these hold only when two processes did not overlap at one spot, or nobody was
killed there; the code has no lock and no retry that could make them hold otherwise.
Each exception is a history variable that is set by exactly that event
(`overtaken`, `raced`, `crossed`, `mixed`, `muted`, `died`, `lost`, `doubled`, `torn`,
`blurred`, `unasked`, `withdrawn`, `hidden`, `cut`, ...), for exactly the row, month or
subject it happened to. So the property says what the documents say, and names the one way
in which it fails. Sets of excused things start empty, and nothing else adds to them. Where a part of a message has no room
(`cut` of the digest and of the briefings) or a query stops at its limit (`partial`,
`beyond`), the excuse is for what was left off and not for the message.

### Why the bounds are enough

* **Deciders.** Each races on one row; the UPDATE is guarded by `pending`, so what a
  decider does depends on its own reading and on whether somebody was faster. Two
  deciders give every overlap of SELECT and UPDATE, and three people the case where
  the overwritten vote was the one needed. The proofs cover any number of each.
* **Polls.** Two overlapping polls elevate the same primary twice; the crash gives an
  orphan confirmation, and the next poll a third.
* **Commands.** Two processes give every pair of commands on one bundle, and one
  killed command every prefix of one. A bundle that creates or deletes differs in its
  rollback and its gates, not in its races, so one process at a time is enough there.
* **Wins.** Candidates of a run interact only through the run's end, so a second win
  gives the half-finished run; `MaxBatch` 2 does not overflow there.
* **Jobs.** Two processes give each overlap of two checks, and of a batch with a
  command; three jobs let one of them start again over the same calls. A limit of one
  is reached and refused within one batch. `BriefWindow` is one hour of three, so that
  a brief is inside and outside of it.
* **Sweeps, polls, readers.** They race on one row, subject or file at a time, and
  between subjects nothing is shared, so two processes on one subject give each
  overlap. Where rows of one process depend on each other (chunks, clusters, shares
  of a rotation) there are two or three of them.
* **Room.** A briefing that prints one mover of two deals, and a digest that breaks off
  after any of two sections, cut off and do not; amounts are 0 and 10, so that a larger
  mover and an amount that moves both occur (`MCSeen`: what one of the deals becomes).
  While a digest stands nothing has been ingested (`MCApart`), since digest and corpus
  have only the canonical file in common. In the risk sweep one detector at a time
  fails or is quiet (`MaxMishaps`), and no three of two moves, a contact who left and a
  call come together: detectors read one of these each.
* **Changes.** An object of the drift poll changes three times: before the first look,
  with a task, and again while that task is open or after it was closed.
* **Days.** One more than each window (a cache's life, a snooze, a dedup window, a
  week), so that both sides of each comparison happen; the stall scan's days include
  a weekend.
* **Scores.** The values next to each threshold of the code, and one in each band. A
  property that compares neighbours gets both. The forecast takes one group of fields
  at a time with the others fixed, since a pillar reads only its own.

Names that begin with `Max`, and `Written`, `Answers`, `Edited` and the slices of the MC
modules, bound the state space and correspond to nothing in the code. Limits, windows,
thresholds and periods are the code's own constants; where they are made small (`LimitOf`, `BriefWindow`, `DeployLimit`,
`MaxBatch`, `Cooldown`, `CacheHours`, `Chunk`, ...) their order is kept.

### Mutants

Every property of a passing run has, in its module, a named variant of a definition
with a plausible bug (`DecidedStatus_CountsClicks`, `ApplyDecision_Blind`,
`AuditRow_After`, `NextIndex_Unfiltered`, ...). They are used by no specification;
`PROJECT.json` ("mutants") says which property each one breaks when it takes the
definition's place. For a conjunction that is a
variant or more, each of which breaks one of its parts.

---

## 4. Fairness

* `ApprovalGates!FairSpec`: weak fairness of the three steps of each poller. launchd
  starts it every 15 minutes however its last run ended. Nothing makes people click
  or agents request, so no property needs them to.
* `SchemaChange!FairSpec`: time passes, the poller runs, a command that was started
  goes on, and the operator runs `execute` again until it has run. It serves only
  `ApprovedRollbackRuns`, which no run checks because the code cannot keep it
  (section 6), and makes it as easy to satisfy as can be.
* `ClosedWonPoller!FairSpec`: each run goes on unless it is killed, and is started
  again. launchd does not start a job that is still running, so the scheduled runs
  follow one another (one element of `Polls`); a run by hand may overlap (two).
* All other modules have no fairness: they are about what may not happen, in whatever
  order processes take their steps or stop taking them. `SalesJobs`: a run that is
  refused leaves its calls to a later tick, which looks only at the transcripts of the
  day. The sweeps: each poll that runs to its end leaves things as stated, and nothing
  makes a killed one be repeated.

---

## 5. What is proved

The proofs hold for **every** value of the constants: any number of approvers,
processes, records, callers, buckets, runs and kills, any cooldown, window, cap and time
to live, and any bounds. The only assumptions are those named next to the constants, and
TLC evaluates them in the passing runs. They say what the code's own values are:
`CooldownAssumption` and `PeriodAssumption` (positive), `SystemAssumption` (no person has
the id `system`), `BulkAssumption` (chunks and jobs are numbered, a chunk is not empty),
`RotationAssumption` (nobody is in a rotation twice), `AnswersAssumption` (some search
returns something), `CapsAssumption`, `StallAssumption`, `CanaryAssumption`,
`CacheAssumption`, `KnowledgeAssumption` and `ReviewAssumption` (finitely many objects,
rules and leads), `ForecastAssumption` (finitely many owners, the deals are records with
the fields of a deal), `ScoresAssumption`, `MoversAssumption`, `ReplayAssumption`,
`DedupAssumption` (finitely many records, numbered as the query answers), and so on.

Every argument has the same shape. The property alone is not inductive, because processes
act on what they have read earlier; the inductive invariant (`IInv`, `BundlesIInv`,
`GatedIInv`, ...) adds what may be known of such readings, and the exceptions of section 3
say when nothing may. A lemma for each action shows that it keeps each part, mostly over a
lemma that says which steps leave the part alone. The proof modules of a suite hold one
chapter per component.

### ApprovalGates_proofs

| Theorem | Statement |
|---|---|
| `TypeCorrect` | `Spec => []TypeOK` |
| `Inductive` | `Spec => []IInv` |
| `DualApproval` | `Spec => []DualTwoPeople` |
| `NoEarlyConfirmation` | `Spec => []ConfirmationFollowsCooldown` |
| `DecisionsAudited` | `Spec => []DecisionsAreAudited` |
| `Refinement` | `Spec => ImplementsLedger` |

None of the properties is inductive alone, because processes act on what they have
read earlier. `IInv` says what may be known of such readings:

* `Numbered`: ids above `lastId` are unused, so an INSERT never overwrites a row;
* `PollsCooled`: each primary a poller still has to elevate is `approved_primary` with
  its cooldown over *now*, although it was read then. This holds because a row that
  left `pending` is never written again but for a confirmation's parent
  (`NextSteady`, `CooledStays`), which is what the UPDATE's guard buys;
* `OnClicks`: every entry in a row's list, and in the list a decider is about to
  write, was asked for by a click on that gate;
* `DualRows`: an approved dual row has two different people in its list and no
  rejection; `DualDecision` shows the status computed from a *read* list has that
  property, and the UPDATE stores list and status together.

The refinement proof has a lemma per kind of step: an INSERT is a `Request`, a click
a `Cast`, an UPDATE a `Settle` or a stutter, the parent link a stutter.

### SchemaChange_proofs

| Theorem | Statement |
|---|---|
| `BundlesInductive` | `Spec => []BundlesIInv` |
| `BundlesHold` | `Spec => []BundlesInv` |
| `OrgChangesHold` | `Spec => OrgChangesAreApproved` (a step property) |

`BundlesIInv` adds to the types what a manifest can be trusted for, however old the copy
(`Tracks`: its gates are gates of its bundle, what it calls tested passed the sandbox, its
stamps have their audit rows), what a command has verified by the time it is where it is
(`Works`: before it calls the org the test was passed, the revert package is there and the
gates stand approved), that a confirmation is of a primary whose cooldown is over, for the
same bundle (`GatesLinked`), and that whatever the org or a revert package holds can be put
back in its turn (`Restorable`). A copy stays good because what it speaks of only grows
(`Grows`: passed tests, audit rows, revert packages). The org therefore changes only behind
its gates (`OrgChangesHold`): a command that is about to call it has read them approved, and
a settled gate is never written again (`GatesStay`).

### SalesJobs_proofs

| Theorem | Statement |
|---|---|
| `RateTypes` | `RateSpec => []RateTypeOK` |
| `RefusalsAreDue` | `RateSpec => []NeverRefusedEarly` |
| `LimitsCap` | `RateSpec => []CappedUnlessRaced` |
| `JobsCheckLimits` | `Spec => RateSpec`, for the jobs |
| `JobsAreCapped`, `JobsAreNotRefusedEarly` | the two properties, for the jobs |
| `TypeCorrect` | `Spec => []TypeOK` |
| `BatchesAreIdempotent` | `Spec => []GradedOncePerRunner` |
| `ScansKeepApart` | `Spec => []ScanBriefsApart` |
| `CallsHold` | `CallSpec => []CallsInv` |
| `WatchHolds` | `WatchSpec => []WatchInv` |

The code calls the increment atomic, and across processes it is not. The two theorems
about limits say what is left. `TableLags`: a lost increment makes the table count
less than was let through, never more, so a refusal is always due. `Exact`: as long
as no two callers have held a read count of one window, the reader's count is the
table's, the table's is what was let through, and a hard limit holds; a caller that is
killed between SELECT and UPDATE does not disturb that. When two have, the limit may
be passed; the model does not say by how much.

`JobsCheckLimits` makes the composition: each step of a job is a step of `RateLimits`
or leaves its variables alone, so both theorems hold of the jobs without being proved
again. `Graded` says that a call whose grade a process has stored is in the table, and
that while a process waits for a slot or for the model it has not stored that call's
grade before: another process may overtake it, itself it cannot. `Apart` says that a
scan that composes a brief has no scan's brief of that opportunity in its window. It
stays true until the row is written because only scans' briefs are counted, scans do
not overlap, and the window only moves forward.

`CallsIInv` says where a grade is on its way. `CallTypes`: a grade's label is that of its
rounded percentage, for each rubric and each pair of section scores (the one place where
the code's weights are computed with). `CardsFollow`: while no Friday was skipped, a call
graded once is on the cards of the first Friday 17:00 after it (`Friday`) and of no other,
before that tick on none.

`WatchIInv` is about the history. `SlipsAddUp`: from any push on, as long as none reached
the threshold, the close date is less than the threshold times the number of pushes away
from where that one found it. This is the sum of the pushes, followed as the history
grows, so that no induction over the history is needed; with `InOrder` (rows are by day,
so the recent ones are its end) it gives `SlipsAreSeen`.

### Records_proofs

| Theorem | Statement |
|---|---|
| `GatedInductive`, `GatedHolds` | `GatedSpec => []GatedIInv`, `GatedSpec => []GatedInv` |
| `ChurnHolds` | `GatedSpec => ChurnNeedsBoth` (a step property) |
| `RenewalHolds` | `RenewalSpec => []RenewalInv` |
| `BulkHolds` | `BulkSpec => []BulkInv` |
| `DedupHolds` | `DedupSpec => []DedupInv` |

* **Gated writes.** A request's confirmation is found by a query and linked after it was
  created. `ClaimsPointBack`, `LinksKnown` and `UnlinkedKnown` say who knows of a
  confirmation that has no link yet: the handler that created it, or it died. `OneHandler`
  and `NothingThere` say that a handler which has looked and found none is alone with its
  request, unless the request is in `doubled`. Hence `AtMostOne`. `ChecksKnown`
  says what the handler that marks an account Churned still knows of its two gates when it
  writes: the confirmation is approved, since settled gates are not written again, and the
  request is approved or in `withdrawn` (`OverBoth`). That the request came before its
  confirmation is `ClaimsPointBack`.
* **Renewals.** `NoneYet`: who is about to create has looked, and nobody has created
  since, because `OneAtWork` holds of a renewal that is not `crossed`. `RowIsComing`
  accounts for the create whose row is not yet written.
* **Bulk.** `SnapshotStands`: what a job is about to overwrite is as its snapshot says or
  was written by somebody else since; `ChunkIsFiled`: the chunk being written has its
  audit row and is written once. The audit row is therefore what the rows held.
* **Merges.** `Kin` are the pairs that were clustered together and hang together by
  something shared. `DedupIInv` adds to the property that every proposal, also one
  that an overlapping poll made stale, takes its duplicates from the kin of its master,
  each once and never the master (`Proposed`). Three things carry it: the ranks of a
  finite order are 1 to n (`EachPlace`, `OrderLists`), so a ranked cluster is listed
  without loss or repetition; chains of shared values compose (`HangOn`), so what `Place`
  joins hangs together (`PlaceKeeps`, `PlacedIs`); and what was ever kin stays kin
  (`KinStay`), since a merge changes neither fields nor history.

### TopOfFunnel_proofs

| Theorem | Statement |
|---|---|
| `SuppressionInductive`, `SuppressionHolds` | `SuppressionSpec => []SuppressionIInv`, `... => []SuppressionInv` |
| `ClayHolds` | `ClaySpec => []ClayInv` |
| `LeadHolds` | `LeadSpec => []LeadInv` |
| `RoutingHolds` | `RoutingSpec => []RoutingInv` |

* **Suppression.** `RowInWeek`: in the week of a manual opt-out there is a row at least as
  young, since `clear_expired` and later checks replace it by younger ones only; `OnTime`:
  a check that no opt-out met on its way looked the address up when no such week ran.
  `ClearRows` and `ClearStores` date the answers that clear an address.
* **Clay.** `ReadsStand`: in a month without overlap one request reads at a time and what
  it has read still stands. `MarksFollow` ties ledger and marks to what was spent, and
  `Announced80`, `Announced100` count a mark as announced, owed by one process, or lost
  with it.
* **Leads.** `RunsOwned`, `RowsFound` (a run is its runner's, with the rows it found),
  `PipesClean`, `BarredOut` (nothing that is barred is on its way to Salesforce or to an
  SDR), `BriefsSound`, `ToldOver`, `ToldOnce` (a row that was told of and may be selected
  again is being marked by the briefing that told), `OneLeadPerAddress`.
* **Routing.** `RoundRobin`: while no two routers overlap, there is a slot at which the turn
  began, those from there to the next index have had one lead more than the others, and
  `TurnMoves` takes that around the end of the slots. `Alone`: a router that writes is the
  only one and wrote down the index and the slots that there are. `Seen`: what the cache
  says of an active user dates from before the user left. That the slots name each member
  once (`FilteredIsSlots`) needs that the file does (`RotationAssumption`).

### Monitors_proofs

| Theorem | Statement |
|---|---|
| `SignalHolds` | `MonitorSpec => []SignalInv`, for each of the five orders of mark, task and alert |
| `StallHolds` | `StallSpec => []StallInv` |
| `DriftHolds` | `DriftSpec => []DriftInv` |
| `HealthHolds` | `HealthSpec => []HealthInv` |
| `PollerTypes` | `Spec => []TypeOK`, of `ClosedWonPoller` |
| `CandidatesSettled` | `Spec => []HandledIsSettled`, also for overlapping runs |
| `UnownedAsked` | `Spec => []UnownedIsAsked`, also for overlapping runs |
| `OneRecordAlone` | with a single element in `Polls`, `Spec => []OneOnboardingPerWin` |

* **Sweeps.** `Place` says which levels reach which step of a sweep. For a subject that no
  two sweeps have worked on at once, `Kept` says that one sweep works on it (`Alone`), that
  what its look found still holds (`Fresh`), that what was said has left the mark that the
  next look finds (`Backed`), and that it was said once (`Once`); `NoneOwed`, that a mark
  without its message has a sweep on the way to it, unless one died there.
* **Stalls.** `WindowKept`: the row of the window is as late as the alert and the promise,
  but for the scan that has just posted, which is alone.
* **Drift.** `TakenIn`: each change up to what the file says, or up to what a poll under way
  compares with, is `Accounted` for: it is in one of the three histories, or `Owed` by a
  poll that has saved and not filed. `NotAhead`: nothing holds a signature that the org has
  not had. `TasksTell`: an open task was filed for something, which gives
  `HiddenBehindAnother`. Polls may overlap.
* **Health.** `OnePoll`: the poll knows the row that it replaces, and a row that nobody
  spoke of yet is its own.
* **Closed Won.** `TakenInv` follows one run: a candidate it has taken is still to do, is
  the one at hand, or is settled. `AloneInv` says that whenever the only run is about to
  create, there is no record yet, which is what an overlapping run takes away (section 6).

### RevOps_proofs

| Theorem | Statement |
|---|---|
| `CanaryInductive`, `CanaryHolds` | `CanarySpec => []CanaryIInv`, `... => []CanaryInv` |
| `KnowledgeInductive`, `KnowledgeHolds` | `KnowledgeInit` and each step keep `KnowledgeIInv`; `KnowledgeSpec => []KnowledgeInv` |
| `AccessInductive`, `AccessHolds` | `AccessSpec => []AccessIInv`, `... => []AccessInv` |
| `TasksInductive`, `TasksHold` | `ReviewSpec => []ReviewIInv`, `... => []TasksInv` |
| `CachesInductive`, `CachesHold` | `CacheSpec => []CachesIInv`, `... => []CachesInv` |

* **Canary.** `Sharp` holds until something is `blurred`: one command at a time calls the
  org and one poll runs (`Apart`); a deploy has written the membership that it hands over
  (`DeployTold`), a roll-back runs on a file that has none (`RollbackTold`), what a poll has
  yet to check stands unchecked and the drift it is about to tell has not been told
  (`PollTold`, `AlertsFollow`). The run has one command, the theorem any number.
* **Knowledge.** `CommitsStaged`: when a merge commits, the index is the canonical file,
  or another merge has still to add it, unless one was left half done. `Follows`: a
  re-ingest that ran alone has written its chunks up to the next, of the file unless that was
  copied over since; so when it has pruned, the collection is the file's chunks, as
  sequences. `DigestStands`: while neither of a digest's two files has been written, the
  sections it shows and those cut off together are what the files differ in.
* **Access.** `AtWork` says what a job at each step is on, `HandedOn` that an offboarding
  which may yet deactivate its user has every record that is not excused still to list or
  to move.
* **Tasks.** `RestFiled`: what a poll does not file is filed; `FilesUnasked`: what it is
  about to file nobody is asked, while polls do not overlap; `FindingsSound`: a poll's
  findings differ in their titles.
* **Caches.** `FloorKept`: a row or a fetch of the read org is not older than what a bust
  has made known; `ChargeKept`: a charge that was answered has its row, a reader about to
  store it, or is over; `SearchesApart`, `BillsApart`.

### Reviews_proofs

| Theorem | Statement |
|---|---|
| `MoversHold` | `MoversSpec => []MoversInv` |
| `ReplayHolds` | `ReplaySpec => []ReplayInv` |
| `ScoresHold` | `ScoresSpec => []ScoresInv` |
| `ForecastHolds` | `ForecastSpec => []ForecastInv` |

* **Movers.** `MoversIInv` is the property with its types. `DiffTells`: a deal whose stage
  differs between two snapshots, or which only the later holds, is among the deals that
  their movers speak of; `LeftOutIsCrowded`: such a mover is left off only when as many
  others as are printed are at least as large. `MergedRows`, `WriteKeeps`: a re-run keeps the
  rows that are there and changes none that a briefing has compared.
* **Replay.** `LogTells`: on each day that is over, undoing the log as far as that day gives
  the fields that the deal had then. Every edit adds to the log what it overwrites
  (`ChangeKeeps`, `UndoneGrows`), and a day's end adds a day since which nothing changed.
  `ClosedStays` ties the closed days of a deal left alone to the day it was closed.
  `WeighingInv` is the history of weights: its last row of weights holds what was last saved
  (`LastRowSaved`), which is the row that the code's query for the latest finds, since rows
  are in the order of their days. While O sets them all the versions grow
  (`OwnVersionsGrow`), so that no row of O's counts as a copy of an earlier one.
* **Scores.** One state is one record, so the argument is about the formulas. Rounding and
  capped shares keep an order (`RoundedKeepsOrder`, `ShareKeepsOrder`); a fact that is
  missing is worth nothing (`UnknownIsWorthNothing`); two factors never reach an alert or
  the first tier (`CoveredByTwo`, `TierAStandsOnThree`, `SeventyHasThree`).
* **Forecast.** `Counted`: the roll-up so far is that of the deals rolled up, owner by owner.
  That `Sum` exists and adds up over any finite set of owners (`SumsExist`, `SumsTake`) is
  shown by the smallest set for which it does not (`BySize`), since induction over data
  needs a theorem with an operator parameter. `LessIsNoBetter` compares two deals of which
  one has less in every pillar, `DayLaterIs` and `QuietDays` a deal and itself a day
  later; `FewerCallsScoreLess` and `CallsLiftLittle` say that a call which leaves the window
  costs or, if it had a negative word, lifts no more than the penalty; `NoSignalNoCommit`
  bounds the score of a deal that nobody was heard of.

The proofs set three of these properties straight, which a bounded instance cannot. That
tier A stands on three signals holds from six points each on, and not from eight, as a
prospect with the stack `{pos_toast, delivery}` shows (`UnknownNeverHelps`). A worse count of
cases is one case more, not a fixed number that some customers already exceed
(`WorseIsNoBetter`). And `StrongNeedsASignal` rests on the weights, which are O's to set: it
holds as long as `Weights.icp + 2 * Weights.call > 41`, and the seeded ones give 55.

### How the terms are read

`tlapm` reads `SUBSET S \ T` and `UNION S \union T` with the prefix operator outermost,
SANY with the infix one. Such terms have their parentheses, so that what is proved is what
TLC evaluates.

### Only model-checked

Every invariant and step property that a passing run checks is a theorem. What is left to
TLC are the two liveness properties (`PrimaryIsElevated`, `PickedUpIsSettled`): liveness
under fairness, and the ENABLED in it, is outside what TLAPS is used for here.

---

## 6. Disagreements between the code and its documents

### Shown by a run

`PROJECT.json` ("findings") quotes the lines; each run's counterexample is the story.

1. `schema_snapshot`. A deploy run again on the same gate overwrites the pre-deploy
   snapshot with what the first one deployed. The rollback then redeploys the change
   and stamps the bundle `rolled_back`.
2. `closed_won_missed`. The watermark is the time a run *ended*; a win between its
   query and its end is seen by no run.

### Stated in a module, checked by no run

Each of these is a definition next to the properties that hold, preceded by the line it
comes from. The code does not keep it, and what it does instead is part of the model: TLC
refutes each on an instance of the size of the module's run (`ExpiredConfirmationStaysShut`
with a cooldown and a time to live of 1 and a clock up to 4, `ApprovedRollbackRuns` with one
creating bundle under `FairSpec`, `SlowSlipsAreSeen` with close dates one day apart).

| Definition | The document says | The code does |
|---|---|---|
| `ApprovalGates!ExpiredConfirmationStaysShut` | an unanswered confirmation expires after 24 h (`cooldown_poller.py:8`) | `expires_at` is read by nothing; a later click approves |
| `SchemaChange!ApprovedRollbackRuns` | `execute` after the rollback's gate is approved (`RUNBOOK.md:132`) | the gate of a rolled-back `create` is a delete's, whose approval is `approved_primary`; `execute` wants `approved` |
| `GatedWrites!ApprovedIsCarriedOut` | approval of a reassignment writes the owner, approval of a sequence enrolls | `update_record` and `create_record` take a gate of `single_record_update` only; in production each is refused |
| `SalesJobs!BoardCountsEveryCall` | the board's counts are per rep (`leaderboards.py:75`) | the query has a row for each name a rep goes by, the dictionary one for each rep |
| `BulkUpdate!RowsWithinCap` | 500 rows a day (`bulk_updater.py:10`) | line 197 counts a batch |
| `RecordDedup!OnlyDuplicatesCluster` | domain or city must match (`dedup_accounts.py:9`) | two accounts with neither cluster, and clusters are transitive |
| `IntegrationHealth!SilentBreakIsSeen` | a silent break is detected | no Momentum task in the window counts as healthy |
| `PipelineMovers!WonIsReported` | a won deal is a mover (`movers.py:6`) | it leaves the open pipeline, and so its row; a deal without a row is a mover only if the last row it had was closed already |
| `ReviewTasks!OrphansAreReal` | the field no longer exists | a failed describe gives an empty list of fields, and each rule of the object is an orphan |
| `ReadCaches!OwnOrgIsServed` | no describe of another org is served | an intent other than `read` keys by its alias and fetches from `read` |
| `CallGrades!BoardsMissNothing` | the board is the week's (`leaderboards.py:3`) | a call graded between Friday 16:00 and Sunday is on no posted board |
| `DealWatch!SlowSlipsAreSeen` | repeated pushes are a risk | only pushes of a size count, and small ones never add up |
| `ForecastReplay!ActivityIsOfTheDay`, `GradedInsideTheWindow` | the replay is of the day, outcomes inside the window | last activity is today's, and any later outcome grades |

Two Closed Won runs that overlap make two records for one win, though the docstring says
that they cannot since the gate carries the opportunity's id: no code reads it.
`OneOnboardingPerWin` is therefore checked and proved for runs that follow one another.

### Met while modelling

What the models take as it is, and a maintainer may want to know:

* **Two statements called atomic**: `governance.check_rate_limit`, `routing._next_index`
  and the Clay budget's `spend` each read and then write.
* **Refused in production, taken in the tests**: the nightly enrichment opens a `bulk_*`
  gate for writes that want `single_record_update`; offboarding somebody with two or more
  records needs a bulk gate for the move and a single one for the deactivation, and takes one.
* **Lost alerts**: churn risk writes its row before it alerts, and the row keeps the next
  sweep silent; a first unhealthy poll has no earlier status to differ from; a canary's
  verdict is saved before Slack is called; the board monitor swallows Slack's failure.
* **Snooze**: the button promises three days, the window is counted from the moved date,
  so the alert stays away three days longer (`stall_actions.py:64`).
* **Morning briefings**: a nightly run that ends before 03:55 is always called stale at
  07:55 (`daily_briefing.py:75`); the Monday diff, with a period of one day, does not
  see Friday's snapshot (`schedule.py:154`).
* **Terms without effect**: the activity pillar's recency bonus and silence penalty, and
  the churn sweep's guard of two factors (`BonusAndPenaltyAreLost`, `AlertsRestOnThree`).
* **Stale write-backs**: a suppression check that began before a manual opt-out may
  replace it; a describe that began before a bust may put the old one back for a day.
* **Same name, different thing**: a tuner's proposals of one day share a version, so the
  second is dropped; two clusters with one name share a review title; `Commit` is 60 and
  above in one file and 80 in another.
* **Grades**: a reply of the model that is not JSON is stored as 20 % and never redone;
  grading a call again moves it to this week's board. A rep whose name is found in one
  transcript and not in another is counted for one of the two groups only
  (`leaderboards.py:90-109`).
* **Who owns it**: a question that fails is asked by nothing later; `csm_enforcer.sweep`
  would, and no schedule runs it.
* **Drift behind a drift**: a change found while a task of its object is open goes into
  the baseline and into no task (`_task_surface.py:33-40`).
* **Cut off in silence**: the digest that O decides from ends at 2800 characters and does not
  say so (`knowledge_refresh/scheduler.py:69`); a risk sweep that could not ask about
  champions or calls reads as one that found none (`deal_risk.py:191`, `:228`).
* **Mark churned**: gate A may be rolled back between `finalize_mark_churned`'s check and
  the write, which nothing notices.
* **Overlaps that nothing checks**: two processes at work on one call grade it twice, and
  nothing makes a due canary verification run; the hazards say so.

---

## 7. What is not modelled, and what is left

Not modelled for good: rendering, Slack and knowledge I/O, report and workbook layouts,
the OO agent's parsing of commands, the Fireflies client, file ingest, the legacy revenue
model, infra scripts, the XML of metadata. `PROJECT.json` ("components") gives the
reason for each, and for each part that is modelled in part, what is missing.

Left, in the order in which it would add most:

1. An abstract *change request* (asked, approved, applied, undone) that `SchemaChange` and
   `BulkUpdate` both implement.
2. Liveness of sweeps that are not killed (a signal that stays is told), under the
   fairness of launchd.
3. The alert on a health score that drops, QBR and adoption reports, whose state is one
   table each.
