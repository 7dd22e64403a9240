--------------------------- MODULE ApprovalGates ---------------------------
(***************************************************************************)
(* The table approval_gates and the processes that write it: agents that   *)
(* request gates, the processes that decide them (the Slack daemon and the *)
(* jobs and command lines that approve their own gates) and the runs of    *)
(* the cooldown poller.  They share one database and nothing else.  Each   *)
(* SELECT and each writing transaction is one step: a process that has     *)
(* read a row may find it changed when it writes, and may die in between,  *)
(* losing what it had read.                                                *)
(***************************************************************************)
EXTENDS Governance

CONSTANTS
  MaxGates,      \* ids the table may use: bounds the rows
  MaxRequests,   \* bounds the gates agents request
  MaxBallots,    \* bounds the approvals list of a gate that takes more clicks
  MaxClock,      \* bounds time, in units of Cooldown and Ttl
  MaxCrashes,    \* bounds the crashes
  Deciders,      \* processes that call decide_approval_gate
  Pollers,       \* runs of the cooldown poller: scheduled, or by hand
  Requests       \* action types agents ask for

ASSUME BoundsAssumption == MaxGates \in Nat /\ MaxClock \in Nat
ASSUME RequestsAssumption == Requests \subseteq ActionTypes \ {ConfirmType}

GateIds == 1 .. MaxGates

\* Tiers whose gates the requesting agent itself decides, right after it has
\* created them.
SelfApproved == AutoApproveTypes \cup {"single_record_update"}

VARIABLES
  gates,     \* approval_gates, by id
  lastId,    \* the last id the table has handed out
  clock,
  decider,   \* per process: where it is in decide_approval_gate
  poller,    \* per process: the primaries poll() has still to elevate
  audit,     \* the gate_decided rows of audit_log
  clicks,    \* the decisions people and agents have asked for on each gate
  lost,      \* gates whose decider died between its UPDATE and its audit row
  crashes

vars == <<gates, lastId, clock, decider, poller, audit, clicks, lost, crashes>>

\* What a process holds of the decision it is taking: the gate, the entry to
\* append, the approvals list as read with the entry appended, the time it
\* read and the status it computed.
Decision ==
  [pc : {"idle", "select", "update", "audit"}, gate : GateIds \cup {0},
   ballot : Approval, seen : Seq(Approval), at : Nat, final : Statuses]

Decision_(pc, gate, ballot, seen, at, final) ==
  [pc |-> pc, gate |-> gate, ballot |-> ballot, seen |-> seen, at |-> at, final |-> final]

Idle ==
  Decision_("idle", 0, [approver |-> "system", approved |-> FALSE], << >>, 0, "none")

\* child is the confirmation gate created and not linked yet.
Poll == [todo : SUBSET GateIds, child : GateIds \cup {0}]
NoPoll == [todo |-> {}, child |-> 0]

AuditRow == [gate : GateIds, ballot : Approval, final : Statuses]

TypeOK ==
  /\ gates \in [GateIds -> Row(GateIds)]
  /\ lastId \in 0 .. MaxGates
  /\ clock \in Nat
  /\ decider \in [Deciders -> Decision]
  /\ \A d \in Deciders : decider[d].pc # "idle" => decider[d].gate # 0
  /\ poller \in [Pollers -> Poll]
  /\ audit \subseteq AuditRow
  /\ clicks \in [GateIds -> SUBSET Approval]
  /\ lost \subseteq GateIds
  /\ crashes \in Nat

Init ==
  /\ gates = [g \in GateIds |-> NoRow]
  /\ lastId = 0
  /\ clock = 0
  /\ decider = [d \in Deciders |-> Idle]
  /\ poller = [p \in Pollers |-> NoPoll]
  /\ audit = {}
  /\ clicks = [g \in GateIds |-> {}]
  /\ lost = {}
  /\ crashes = 0

-----------------------------------------------------------------------------
Requested == {g \in GateIds : gates[g].status # "none" /\ gates[g].action # ConfirmType}

\* create_approval_gate: one INSERT.
Insert(action, subject) ==
  /\ lastId < MaxGates
  /\ lastId' = lastId + 1
  /\ gates' = [gates EXCEPT ![lastId + 1] = NewRow(action, clock, subject)]

\* An agent asks for a gate.
Create(action) ==
  /\ Cardinality(Requested) < MaxRequests
  /\ Insert(action, 0)
  /\ UNCHANGED <<clock, decider, poller, audit, clicks, lost, crashes>>

-----------------------------------------------------------------------------
\* Call decide_approval_gate(g, approved=b.approved, approver=b.approver).
Call(d, g, b) ==
  /\ decider[d].pc = "idle"
  /\ gates[g].status # "none"
  /\ Len(gates[g].approvals) < MaxBallots
  /\ decider' = [decider EXCEPT ![d] = Decision_("select", g, b, << >>, 0, "none")]
  /\ clicks' = [clicks EXCEPT ![g] = @ \cup {b}]
  /\ UNCHANGED <<gates, lastId, clock, poller, audit, lost, crashes>>

\* handle_gate_decision refuses to forward an approval of a gate whose parent
\* is still cooling.
ParentCooling(g) ==
  /\ gates[g].parent # 0
  /\ clock < gates[gates[g].parent].cooldownUntil

Click(d, g, who, approved) ==
  /\ ~(approved /\ ParentCooling(g))
  /\ Call(d, g, [approver |-> who, approved |-> approved])

\* An agent approves the gate it has just created, without a person.
SelfApprove(d, g) ==
  /\ gates[g].action \in SelfApproved
  /\ Call(d, g, [approver |-> "system", approved |-> TRUE])

\* decide_approval_gate, its SELECT: nothing happens to a gate already decided.
SelectGate(d) ==
  LET dec == decider[d]
      row == gates[dec.gate]
  IN
  /\ dec.pc = "select"
  /\ decider' = [decider EXCEPT ![d] =
       IF row.status # "pending" THEN Idle
       ELSE Decision_("update", dec.gate, dec.ballot,
                      Append(row.approvals, dec.ballot), clock, "none")]
  /\ UNCHANGED <<gates, lastId, clock, poller, audit, clicks, lost, crashes>>

\* A bug it could have: only approvals get their audit row.
UpdateGate_AuditsApprovals(d) ==
  LET dec == decider[d]
      status == DecidedStatus(gates[dec.gate].action, dec.seen, dec.ballot.approved)
  IN
  /\ dec.pc = "update"
  /\ gates' = [gates EXCEPT ![dec.gate] = ApplyDecision(@, dec.seen, status, dec.at)]
  /\ decider' = [decider EXCEPT ![d] =
       IF status = "rejected" THEN Idle
       ELSE Decision_("audit", dec.gate, dec.ballot, dec.seen, dec.at, status)]
  /\ UNCHANGED <<lastId, clock, poller, audit, clicks, lost, crashes>>

\* Its UPDATE, which leaves alone a gate that was decided since the SELECT; the
\* number of rows it changed is not looked at.
UpdateGate(d) ==
  LET dec == decider[d]
      status == DecidedStatus(gates[dec.gate].action, dec.seen, dec.ballot.approved)
  IN
  /\ dec.pc = "update"
  /\ gates' = [gates EXCEPT ![dec.gate] = ApplyDecision(@, dec.seen, status, dec.at)]
  /\ decider' = [decider EXCEPT ![d] =
       Decision_("audit", dec.gate, dec.ballot, dec.seen, dec.at, status)]
  /\ UNCHANGED <<lastId, clock, poller, audit, clicks, lost, crashes>>

\* write_audit("gate_decided"), a transaction of its own.
AuditDecision(d) ==
  LET dec == decider[d] IN
  /\ dec.pc = "audit"
  /\ audit' = audit \cup {[gate |-> dec.gate, ballot |-> dec.ballot, final |-> dec.final]}
  /\ decider' = [decider EXCEPT ![d] = Idle]
  /\ UNCHANGED <<gates, lastId, clock, poller, clicks, lost, crashes>>

-----------------------------------------------------------------------------
Ready == ReadyPrimaries(gates, clock)

\* poll() reads the primaries that are ready ...
PollScan(p) ==
  /\ poller[p] = NoPoll
  /\ Ready # {}
  /\ poller' = [poller EXCEPT ![p] = [todo |-> Ready, child |-> 0]]
  /\ UNCHANGED <<gates, lastId, clock, decider, audit, clicks, lost, crashes>>

\* ... and for each, in the order of their ids, creates a confirmation gate ...
PollCreate(p) ==
  /\ poller[p].child = 0
  /\ \E g \in poller[p].todo :
       /\ \A other \in poller[p].todo : g <= other
       /\ Insert(ConfirmType, g)
  /\ poller' = [poller EXCEPT ![p] = [todo |-> @.todo, child |-> lastId + 1]]
  /\ UNCHANGED <<clock, decider, audit, clicks, lost, crashes>>

\* ... and then sets its parent_gate_id.
PollLink(p) ==
  LET child == poller[p].child
      g == gates[child].subject
  IN
  /\ child # 0
  /\ gates' = [gates EXCEPT ![child].parent = g]
  /\ poller' = [poller EXCEPT ![p] = [todo |-> @.todo \ {g}, child |-> 0]]
  /\ UNCHANGED <<lastId, clock, decider, audit, clicks, lost, crashes>>

-----------------------------------------------------------------------------
\* A process dies (a daemon restart, a killed job): what it had read is gone.
CrashDecider(d) ==
  /\ crashes < MaxCrashes /\ crashes' = crashes + 1
  /\ decider[d].pc # "idle"
  /\ lost' = IF decider[d].pc = "audit" THEN lost \cup {decider[d].gate} ELSE lost
  /\ decider' = [decider EXCEPT ![d] = Idle]
  /\ UNCHANGED <<gates, lastId, clock, poller, audit, clicks>>

CrashPoller(p) ==
  /\ crashes < MaxCrashes /\ crashes' = crashes + 1
  /\ poller[p] # NoPoll
  /\ poller' = [poller EXCEPT ![p] = NoPoll]
  /\ UNCHANGED <<gates, lastId, clock, decider, audit, clicks, lost>>

Tick ==
  /\ clock < MaxClock
  /\ clock' = clock + 1
  /\ UNCHANGED <<gates, lastId, decider, poller, audit, clicks, lost, crashes>>

Next ==
  \/ \E action \in Requests : Create(action)
  \/ \E d \in Deciders, g \in GateIds :
       \/ \E who \in Approvers, approved \in BOOLEAN : Click(d, g, who, approved)
       \/ SelfApprove(d, g)
  \/ \E d \in Deciders :
       SelectGate(d) \/ UpdateGate(d) \/ AuditDecision(d) \/ CrashDecider(d)
  \/ \E p \in Pollers :
       PollScan(p) \/ PollCreate(p) \/ PollLink(p) \/ CrashPoller(p)
  \/ Tick

Spec == Init /\ [][Next]_vars

\* launchd starts the poller every 15 minutes, whether or not its last run
\* ended well, and a run that is started goes on.  Nothing makes people click.
FairSpec ==
  /\ Spec
  /\ \A p \in Pollers :
       WF_vars(PollScan(p)) /\ WF_vars(PollCreate(p)) /\ WF_vars(PollLink(p))

-----------------------------------------------------------------------------
(* Properties *)

\* What a gate's tier asks for, and what its status means, in GateLedger's terms.
Kind(action) ==
  IF action = ConfirmType THEN "confirm"
  ELSE IF action \in DualTypes THEN "dual"
  ELSE IF action \in CooldownTypes THEN "cooldown"
  ELSE "single"

Outcome(status) ==
  CASE status = "none" -> "none"
    [] status = "pending" -> "open"
    [] status = "approved" -> "granted"
    [] status = "approved_primary" -> "cooling"
    [] status = "rejected" -> "refused"

Ledger == INSTANCE GateLedger WITH
  Gates <- GateIds,
  People <- Deciding,
  kind <- [g \in GateIds |-> Kind(gates[g].action)],
  about <- [g \in GateIds |-> gates[g].subject],
  ballots <- clicks,
  outcome <- [g \in GateIds |-> Outcome(gates[g].status)]

\* The table implements the ledger: whatever the interleaving of the SELECTs,
\* UPDATEs and INSERTs of deciders and pollers and whoever crashes, a gate is
\* settled at most once, on ballots really cast on that very gate, and a
\* confirmation is only ever opened for a gate whose own approval is cooling.
ImplementsLedger == Ledger!Spec

\* decide_approval_gate's promise for the jackie_and_o tier: an approved gate
\* was approved by two different people, and its list holds no rejection.
DualTwoPeople ==
  \A g \in GateIds :
    gates[g].action \in DualTypes /\ gates[g].status = "approved" =>
      /\ ~AnyReject(gates[g].approvals)
      /\ \E a, b \in YesVoters(gates[g].approvals) :
           /\ a # b
           /\ \A who \in {a, b} :
                [approver |-> who, approved |-> TRUE] \in clicks[g]

\* A delete cannot be confirmed early: a confirmation gate exists only for a
\* primary that was approved and whose cooldown has run out, although the
\* poller acts on rows it read earlier and two polls may overlap.
ConfirmationFollowsCooldown ==
  \A child \in GateIds :
    gates[child].status # "none" /\ gates[child].action = ConfirmType =>
      LET g == gates[child].subject IN
      /\ g # 0
      /\ gates[g].status = "approved_primary"
      /\ gates[g].cooldownUntil # 0
      /\ gates[g].cooldownUntil <= clock
      /\ gates[child].parent \in {0, g}

\* Every decision a gate shows is in audit_log with the status it led to, or its
\* decider is about to write it, or died before it could.
DecisionsAreAudited ==
  \A g \in GateIds :
    gates[g].status \in Decided =>
      \/ \E row \in audit : row.gate = g /\ row.final = gates[g].status
      \/ \E d \in Deciders :
           decider[d].pc = "audit" /\ decider[d].gate = g
             /\ decider[d].final = gates[g].status
      \/ g \in lost

\* cooldown_poller.py: a confirmation gate O has not answered in its time to live
\* "expires silently".  (Not so: nothing reads expires_at.)
ExpiredConfirmationStaysShut ==
  [][\A g \in GateIds :
       /\ gates[g].action = ConfirmType
       /\ gates[g].status = "pending" /\ gates'[g].status = "approved"
       => \E d \in Deciders : /\ decider[d].pc = "update" /\ decider[d].gate = g
                               /\ decider[d].at <= gates[g].expires]_vars

\* A primary whose cooldown is over gets a confirmation gate that the
\* dispatcher can trace back to it, however often the poller dies half-way.
PrimaryIsElevated ==
  \A g \in GateIds :
    (gates[g].status = "approved_primary" /\ gates[g].cooldownUntil <= clock)
      ~> (\E child \in GateIds : Confirms(gates, child, g))
=============================================================================
