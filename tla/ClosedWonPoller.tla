--------------------------- MODULE ClosedWonPoller ---------------------------
(***************************************************************************)
(* agents/onboarding: the poller that gives every Closed Won opportunity   *)
(* an Onboarding__c record.  It runs from launchd every five minutes and   *)
(* by hand; the runs share the Salesforce org and the tables agent_runs    *)
(* and audit_log.  Each query, each write to the org and each transaction  *)
(* is one step.  The gate a run opens and approves for itself on the way   *)
(* is ApprovalGates' SelfApprove; its row plays no part here, and neither  *)
(* does the task that asks for the checkbox strategy A needs.              *)
(***************************************************************************)
EXTENDS Naturals, FiniteSets

CONSTANTS
  Opps,          \* the opportunities that may be won
  Owned,         \* those that have an OwnerId
  None,          \* no opportunity
  Polls,         \* runs of the poller that may overlap: scheduled, or by hand
  MaxBatch,      \* _MAX_BATCH
  Lookback,      \* _DEFAULT_LOOKBACK
  MaxClock,      \* bounds time
  MaxCrashes,    \* bounds the killed runs
  MaxFailures    \* bounds the calls to the org that fail or time out

ASSUME OppsAssumption == Owned \subseteq Opps /\ None \notin Opps
ASSUME BatchAssumption == MaxBatch \in Nat \ {0} /\ Lookback \in Nat

VARIABLES
  modified,   \* LastModifiedDate of an opportunity that is won, else 0
  records,    \* how many Onboarding__c records point to it
  lastDone,   \* completed_at of the last completed run in agent_runs, else 0
  audit,      \* the rows of audit_log about creates
  asked,      \* opportunities Jackie has a csm_reassignment gate about
  unasked,    \* history: opportunities whose question was lost on its way
  poll,       \* per process: where it is in poll()
  handled,    \* the candidates of the runs that completed
  clock, crashes, failures

vars == <<modified, records, lastDone, audit, asked, unasked, poll, handled, clock,
          crashes, failures>>

AuditRow == [opp : Opps, action : {"sf_create", "sf_create_failed"}]

\* taken are the candidates of the run, todo those it has not come to yet.
Run == [pc : {"idle", "select", "loop", "create", "created", "failed", "notify"},
        since : Nat, taken : SUBSET Opps, todo : SUBSET Opps, opp : Opps \cup {None}]

Run_(pc, since, taken, todo, opp) ==
  [pc |-> pc, since |-> since, taken |-> taken, todo |-> todo, opp |-> opp]

Idle == Run_("idle", 0, {}, {}, None)

TypeOK ==
  /\ modified \in [Opps -> Nat]
  /\ records \in [Opps -> Nat]
  /\ lastDone \in Nat
  /\ audit \subseteq AuditRow
  /\ asked \subseteq Opps /\ unasked \subseteq Opps
  /\ poll \in [Polls -> Run]
  /\ \A p \in Polls :
       poll[p].pc \in {"create", "created", "failed", "notify"} => poll[p].opp # None
  /\ handled \subseteq Opps
  /\ clock \in Nat /\ crashes \in Nat /\ failures \in Nat

Init ==
  /\ modified = [o \in Opps |-> 0]
  /\ records = [o \in Opps |-> 0]
  /\ lastDone = 0
  /\ audit = {}
  /\ asked = {} /\ unasked = {}
  /\ poll = [p \in Polls |-> Idle]
  /\ handled = {}
  /\ clock = 1 /\ crashes = 0 /\ failures = 0

-----------------------------------------------------------------------------
\* An opportunity is won, or one that is won is edited.
Touch(o) ==
  /\ modified[o] < clock
  /\ modified' = [modified EXCEPT ![o] = clock]
  /\ UNCHANGED <<records, lastDone, audit, asked, unasked, poll, handled, clock,
                 crashes, failures>>

Tick ==
  /\ clock < MaxClock
  /\ clock' = clock + 1
  /\ UNCHANGED <<modified, records, lastDone, audit, asked, unasked, poll, handled,
                 crashes, failures>>

Fail == failures < MaxFailures /\ failures' = failures + 1

\* _last_poll_time: a deployment that has completed no run looks back.
Since ==
  IF lastDone # 0 THEN lastDone
  ELSE IF clock > Lookback THEN clock - Lookback ELSE 0

\* A bug the watermark could have: it is set when a run starts.
Start_Marks(p) ==
  /\ poll[p].pc = "idle"
  /\ poll' = [poll EXCEPT ![p] = Run_("select", Since, {}, {}, None)]
  /\ lastDone' = clock
  /\ UNCHANGED <<modified, records, audit, asked, unasked, handled, clock, crashes,
                 failures>>

\* _start_run, the strategy, and the watermark.
Start(p) ==
  /\ poll[p].pc = "idle"
  /\ poll' = [poll EXCEPT ![p] = Run_("select", Since, {}, {}, None)]
  /\ UNCHANGED <<modified, records, lastDone, audit, asked, unasked, handled, clock,
                 crashes, failures>>

\* _select_candidates: at most MaxBatch, in no order, of the wins modified since
\* the watermark.  Strategy A leaves out those whose checkbox says they have a
\* record (nothing in this repository ticks it), strategy B those that have one.
Select(p) ==
  LET matching == {o \in Opps : modified[o] # 0 /\ modified[o] >= poll[p].since}
      existing == {o \in Opps : records[o] # 0}
  IN
  /\ poll[p].pc = "select"
  /\ \E batch \in SUBSET matching, out \in SUBSET existing :
       /\ Cardinality(batch) <= MaxBatch
       /\ Cardinality(batch) < MaxBatch => batch = matching
       /\ poll' = [poll EXCEPT ![p] =
                     Run_("loop", poll[p].since, batch \ out, batch \ out, None)]
  /\ UNCHANGED <<modified, records, lastDone, audit, asked, unasked, handled, clock,
                 crashes, failures>>

\* A query raises before the loop: the run is closed as failed.
SelectFails(p) ==
  /\ poll[p].pc = "select"
  /\ Fail
  /\ poll' = [poll EXCEPT ![p] = Idle]
  /\ UNCHANGED <<modified, records, lastDone, audit, asked, unasked, handled, clock,
                 crashes>>

Goto(p, pc, opp) ==
  poll' = [poll EXCEPT ![p] =
             Run_(pc, poll[p].since, poll[p].taken, poll[p].todo \ {opp}, opp)]

\* A bug it could have: the candidates are trusted, the pre-create query dropped.
Check_Trusts(p) ==
  /\ poll[p].pc = "loop"
  /\ \E o \in poll[p].todo : Goto(p, "create", o)
  /\ UNCHANGED <<modified, records, lastDone, audit, asked, unasked, handled, clock,
                 crashes, failures>>

\* _onboarding_already_exists, asked of the next candidate; it may raise.
Check(p) ==
  /\ poll[p].pc = "loop"
  /\ \E o \in poll[p].todo :
       \/ Goto(p, IF records[o] # 0 THEN "loop" ELSE "create", o) /\ UNCHANGED failures
       \/ Goto(p, "failed", o) /\ Fail
  /\ UNCHANGED <<modified, records, lastDone, audit, asked, unasked, handled, clock,
                 crashes>>

\* create_record: the org makes the record, or the call fails or times out, the
\* org having made the record or not.
CreateRecord(p) ==
  LET o == poll[p].opp
      made == [records EXCEPT ![o] = @ + 1]
  IN
  /\ poll[p].pc = "create"
  /\ \/ records' = made /\ Goto(p, "created", o) /\ UNCHANGED failures
     \/ records' \in {records, made} /\ Goto(p, "failed", o) /\ Fail
  /\ UNCHANGED <<modified, lastDone, audit, asked, unasked, handled, clock, crashes>>

\* A bug it could have: the loop goes on without handle_created.
AuditCreate_Unasked(p) ==
  LET o == poll[p].opp IN
  /\ poll[p].pc = "created"
  /\ audit' = audit \cup {[opp |-> o, action |-> "sf_create"]}
  /\ Goto(p, "loop", o)
  /\ UNCHANGED <<modified, records, lastDone, asked, unasked, handled, clock, crashes,
                 failures>>

\* Its write_audit("sf_create") ...
AuditCreate(p) ==
  LET o == poll[p].opp IN
  /\ poll[p].pc = "created"
  /\ audit' = audit \cup {[opp |-> o, action |-> "sf_create"]}
  /\ Goto(p, "notify", o)
  /\ UNCHANGED <<modified, records, lastDone, asked, unasked, handled, clock, crashes,
                 failures>>

\* ... and csm_enforcer.handle_created, if nobody owns the opportunity: its gate
\* and its message to Jackie.  It is left out when the org's answer has no id, and
\* what it raises, of either write, is logged and forgotten.
Notify(p) ==
  LET o == poll[p].opp IN
  /\ poll[p].pc = "notify"
  /\ Goto(p, "loop", o)
  /\ \/ o \in Owned /\ UNCHANGED <<asked, unasked, failures>>
     \/ o \notin Owned /\ asked' = asked \cup {o} /\ UNCHANGED <<unasked, failures>>
     \/ o \notin Owned /\ Fail /\ unasked' = unasked \cup {o} /\ UNCHANGED asked
  /\ UNCHANGED <<modified, records, lastDone, audit, handled, clock, crashes>>

\* A bug it could have: the error is logged and no row is written.
AuditFailure_Silent(p) ==
  /\ poll[p].pc = "failed"
  /\ Goto(p, "loop", poll[p].opp)
  /\ UNCHANGED <<modified, records, lastDone, audit, asked, unasked, handled, clock,
                 crashes, failures>>

\* Whatever an opportunity raised is recorded, and the loop goes on.
AuditFailure(p) ==
  LET o == poll[p].opp IN
  /\ poll[p].pc = "failed"
  /\ audit' = audit \cup {[opp |-> o, action |-> "sf_create_failed"]}
  /\ Goto(p, "loop", o)
  /\ UNCHANGED <<modified, records, lastDone, asked, unasked, handled, clock, crashes,
                 failures>>

\* _finish_run(status="completed") moves the watermark to now.
Finish(p) ==
  /\ poll[p].pc = "loop" /\ poll[p].todo = {}
  /\ lastDone' = clock
  /\ handled' = handled \cup poll[p].taken
  /\ poll' = [poll EXCEPT ![p] = Idle]
  /\ UNCHANGED <<modified, records, audit, asked, unasked, clock, crashes, failures>>

\* A run is killed; its row of agent_runs stays in_progress.
Crash(p) ==
  /\ crashes < MaxCrashes /\ crashes' = crashes + 1
  /\ poll[p].pc # "idle"
  /\ poll' = [poll EXCEPT ![p] = Idle]
  /\ unasked' = IF poll[p].pc \in {"created", "failed", "notify"}
                THEN unasked \cup {poll[p].opp} ELSE unasked
  /\ UNCHANGED <<modified, records, lastDone, audit, asked, handled, clock, failures>>

Step(p) ==
  \/ Start(p) \/ Select(p) \/ SelectFails(p) \/ Check(p) \/ CreateRecord(p)
  \/ AuditCreate(p) \/ Notify(p) \/ AuditFailure(p) \/ Finish(p)

Next ==
  \/ \E o \in Opps : Touch(o)
  \/ Tick
  \/ \E p \in Polls : Step(p) \/ Crash(p)

Spec == Init /\ [][Next]_vars

\* launchd starts a run every five minutes, and a run that is not killed ends.
FairSpec == Spec /\ \A p \in Polls : WF_vars(Step(p))

-----------------------------------------------------------------------------
(* Properties *)

\* Idempotency: no opportunity gets a second Onboarding__c, whichever create
\* timed out and whichever run was killed.  It holds of runs that follow one
\* another, and not of runs that overlap.
OneOnboardingPerWin == \A o \in Opps : records[o] <= 1

FailureAudited(o) == [opp |-> o, action |-> "sf_create_failed"] \in audit

\* What the watermark has moved past is settled: each candidate of a completed
\* run has its record, or the row sf_create_failed that RUNBOOK.md says to look
\* for when records are missing.
HandledIsSettled == \A o \in handled : records[o] # 0 \/ FailureAudited(o)

\* A record made without an owner is one that somebody is asked to own, or its
\* create was taken for a failure and has that row, or the question was lost with
\* the call that should have asked it or with the run.  Nothing else loses one,
\* and no run finds it again: the poller skips an opportunity that has a record,
\* and csm_enforcer.sweep, which would ask, is scheduled by nothing.
UnownedIsAsked ==
  \A o \in Opps \ Owned :
    records[o] # 0 =>
      \/ o \in asked \/ FailureAudited(o) \/ o \in unasked
      \/ \E p \in Polls : poll[p].opp = o /\ poll[p].pc \in {"created", "failed", "notify"}

\* A win that a run has picked up is not forgotten when the run is killed or its
\* queries fail: a later run takes it up again.
PickedUpIsSettled ==
  \A o \in Opps :
    (\E p \in Polls : o \in poll[p].todo)
      ~> (records[o] # 0 \/ FailureAudited(o))

\* The poller's purpose: every win gets its record.  (Not so for a win that
\* comes between a run's query and the run's end: the watermark moves past it.)
EveryWinIsOnboarded == \A o \in Opps : modified[o] # 0 ~> records[o] # 0
=============================================================================
