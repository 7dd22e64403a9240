----------------------- MODULE ApprovalGates_proofs -----------------------
(***************************************************************************)
(* Proofs about ApprovalGates, for any number of gates, people, deciding   *)
(* processes and polls, and any bounds.  The invariant is built in layers: *)
(* types, then what a row may hold given what was clicked, then what a     *)
(* poll may rely on although the rows it read are old.                     *)
(***************************************************************************)
EXTENDS ApprovalGates, FiniteSetTheorems, TLAPS

-----------------------------------------------------------------------------
(* Lemmas about the operators of Governance. *)

\* A decision leads to one of the four statuses the code writes.
LEMMA DecidedStatusType ==
  ASSUME NEW action, NEW approvals, NEW approved \in BOOLEAN
  PROVE  DecidedStatus(action, approvals, approved)
           \in {"rejected", "pending", "approved", "approved_primary"}
BY DEF DecidedStatus

\* The UPDATE keeps a row a row, and touches neither what the gate is for nor
\* what it is linked to.
LEMMA ApplyDecisionType ==
  ASSUME NEW row \in Row(GateIds), NEW approvals \in Seq(Approval),
         NEW status \in Statuses, NEW now \in Nat
  PROVE  /\ ApplyDecision(row, approvals, status, now) \in Row(GateIds)
         /\ ApplyDecision(row, approvals, status, now).action = row.action
         /\ ApplyDecision(row, approvals, status, now).parent = row.parent
         /\ ApplyDecision(row, approvals, status, now).subject = row.subject
<1>1. Cooldown \in Nat
  BY CooldownAssumption
<1>2. ApplyDecision(row, approvals, status, now) \in Row(GateIds)
  BY <1>1 DEF ApplyDecision, Row
<1>. QED
  BY <1>2 DEF ApplyDecision, Row

\* A decided row is not touched by a later UPDATE.
LEMMA ApplyDecisionFinal ==
  ASSUME NEW row, NEW approvals, NEW status, NEW now, row.status # "pending"
  PROVE  ApplyDecision(row, approvals, status, now) = row
BY DEF ApplyDecision

\* The row of an id the table does not hold is a row like any other.
LEMMA NoRowType == NoRow \in Row(GateIds)
BY DEF NoRow, Row, ActionTypes, Statuses

\* A new row is a pending row of the type asked for.
LEMMA NewRowType ==
  ASSUME NEW action \in ActionTypes, NEW now \in Nat, NEW subject \in GateIds \cup {0}
  PROVE  /\ NewRow(action, now, subject) \in Row(GateIds)
         /\ NewRow(action, now, subject).action = action
         /\ NewRow(action, now, subject).status = "pending"
         /\ NewRow(action, now, subject).approvals = << >>
         /\ NewRow(action, now, subject).parent = 0
         /\ NewRow(action, now, subject).subject = subject
<1>1. Ttl \in Nat
  BY TtlAssumption
<1>2. NoRow \in Row(GateIds)
  BY NoRowType
<1>. QED
  BY <1>1, <1>2 DEF NewRow, NoRow, Row, Statuses

\* The type the poller asks for is a key of APPROVAL_TIERS.
LEMMA ConfirmIsAction == ConfirmType \in ActionTypes
BY DEF ConfirmType, ActionTypes

-----------------------------------------------------------------------------
(* Type correctness. *)

\* The empty table is well typed.
LEMMA InitType == Init => TypeOK
<1>. SUFFICES ASSUME Init PROVE TypeOK
  OBVIOUS
<1>1. Idle \in Decision
  BY DEF Idle, Decision_, Decision, Approval, Deciding, Statuses
<1>2. NoPoll \in Poll
  BY DEF NoPoll, Poll
<1>. QED
  BY <1>1, <1>2, NoRowType, BoundsAssumption DEF Init, TypeOK, Idle, Decision_

\* Every step of a decider or a poller keeps the table well typed.
LEMMA NextType == TypeOK /\ [Next]_vars => TypeOK'
<1>. SUFFICES ASSUME TypeOK, [Next]_vars PROVE TypeOK'
  OBVIOUS
<1>. USE DEF TypeOK
<1>idle. Idle \in Decision
  BY DEF Idle, Decision_, Decision, Approval, Deciding, Statuses
<1>idlepc. Idle.pc = "idle" /\ 0 \notin GateIds
  BY DEF Idle, Decision_, GateIds
<1>none. NoPoll \in Poll
  BY DEF NoPoll, Poll
<1>ins. ASSUME NEW action \in ActionTypes, NEW subject \in GateIds \cup {0},
               Insert(action, subject)
        PROVE  gates' \in [GateIds -> Row(GateIds)] /\ lastId' \in 0 .. MaxGates
                 /\ lastId + 1 \in GateIds
  BY <1>ins, NewRowType, BoundsAssumption DEF Insert, GateIds
<1>1. ASSUME NEW action \in Requests, Create(action) PROVE TypeOK'
  BY <1>1, <1>ins, RequestsAssumption DEF Create
<1>call. ASSUME NEW d \in Deciders, NEW g \in GateIds, NEW b \in Approval, Call(d, g, b)
         PROVE  TypeOK'
  <2>1. Decision_("select", g, b, << >>, 0, "none") \in Decision
    BY DEF Decision_, Decision, Statuses
  <2>. QED
    BY <1>call, <1>idlepc, <2>1 DEF Call, Decision_
<1>2. ASSUME NEW d \in Deciders, NEW g \in GateIds, NEW who \in Approvers,
             NEW approved \in BOOLEAN, Click(d, g, who, approved)
      PROVE  TypeOK'
  BY <1>2, <1>call DEF Click, Approval, Deciding
<1>3. ASSUME NEW d \in Deciders, NEW g \in GateIds, SelfApprove(d, g) PROVE TypeOK'
  BY <1>3, <1>call DEF SelfApprove, Approval, Deciding
<1>4. ASSUME NEW d \in Deciders, SelectGate(d) PROVE TypeOK'
  <2>1. CASE gates[decider[d].gate].status # "pending"
    BY <1>4, <2>1, <1>idle, <1>idlepc DEF SelectGate
  <2>2. CASE gates[decider[d].gate].status = "pending"
    <3>1. decider[d].gate \in GateIds
      BY <1>4, <2>2 DEF SelectGate, Decision
    <3>2. /\ gates[decider[d].gate].approvals \in Seq(Approval)
          /\ decider[d].ballot \in Approval
      BY <3>1 DEF Row, Decision
    <3>3. Decision_("update", decider[d].gate, decider[d].ballot,
             Append(gates[decider[d].gate].approvals, decider[d].ballot), clock, "none")
            \in Decision
      BY <3>1, <3>2 DEF Decision_, Decision, Statuses
    <3>. QED
      BY <1>4, <2>2, <3>1, <3>3 DEF SelectGate, Decision_
  <2>. QED
    BY <2>1, <2>2
<1>5. ASSUME NEW d \in Deciders, UpdateGate(d) PROVE TypeOK'
  <2> DEFINE dec == decider[d]
             status == DecidedStatus(gates[dec.gate].action, dec.seen, dec.ballot.approved)
  <2>1. dec \in Decision /\ dec.gate \in GateIds
    BY <1>5 DEF UpdateGate, Decision
  <2>2. dec.ballot.approved \in BOOLEAN
    BY <2>1 DEF Decision, Approval
  <2>3. status \in Statuses
    BY <2>2, DecidedStatusType DEF Statuses
  <2>4. ApplyDecision(gates[dec.gate], dec.seen, status, dec.at) \in Row(GateIds)
    BY <2>1, <2>3, ApplyDecisionType DEF Decision
  <2>5. Decision_("audit", dec.gate, dec.ballot, dec.seen, dec.at, status) \in Decision
    BY <2>1, <2>3 DEF Decision_, Decision
  <2>. HIDE DEF status
  <2>. QED
    BY <1>5, <1>idlepc, <2>1, <2>4, <2>5 DEF UpdateGate, Decision_, status
<1>6. ASSUME NEW d \in Deciders, AuditDecision(d) PROVE TypeOK'
  BY <1>6, <1>idle, <1>idlepc DEF AuditDecision, Decision, AuditRow
<1>7. ASSUME NEW d \in Deciders, CrashDecider(d) PROVE TypeOK'
  BY <1>7, <1>idle, <1>idlepc DEF CrashDecider, Decision
<1>8. ASSUME NEW p \in Pollers, PollScan(p) PROVE TypeOK'
  BY <1>8 DEF PollScan, Poll, Ready, ReadyPrimaries
<1>9. ASSUME NEW p \in Pollers, PollCreate(p) PROVE TypeOK'
  BY <1>9, <1>ins, ConfirmIsAction DEF PollCreate, Poll
<1>10. ASSUME NEW p \in Pollers, PollLink(p) PROVE TypeOK'
  BY <1>10 DEF PollLink, Poll, Row
<1>11. ASSUME NEW p \in Pollers, CrashPoller(p) PROVE TypeOK'
  BY <1>11, <1>none DEF CrashPoller
<1>12. CASE Tick
  BY <1>12 DEF Tick
<1>13. CASE UNCHANGED vars
  BY <1>13 DEF vars
<1>. QED
  BY <1>1, <1>2, <1>3, <1>4, <1>5, <1>6, <1>7, <1>8, <1>9, <1>10, <1>11, <1>12, <1>13
  DEF Next

\* Every variable keeps its type, and a process that is taking a decision always
\* has a gate in hand.
THEOREM TypeCorrect == Spec => []TypeOK
BY InitType, NextType, PTL DEF Spec

-----------------------------------------------------------------------------
(* What a step may do to the rows. *)

\* Ids are handed out in order: the rows beyond lastId are not there.
Numbered == \A g \in GateIds : g > lastId => gates[g].status = "none"

\* The table changes in three ways only.
LEMMA GateSteps ==
  ASSUME TypeOK, [Next]_vars
  PROVE  \/ gates' = gates /\ lastId' = lastId
         \/ \E action \in ActionTypes, s \in GateIds \cup {0} :
              /\ Insert(action, s) /\ UNCHANGED <<clock, clicks>>
              /\ action = ConfirmType => \E p \in Pollers : s \in poller[p].todo
         \/ \E d \in Deciders : UpdateGate(d)
         \/ \E p \in Pollers : PollLink(p)
<1>1. ASSUME NEW action \in Requests, Create(action)
      PROVE  /\ action \in ActionTypes \ {ConfirmType}
             /\ Insert(action, 0) /\ UNCHANGED <<clock, clicks>>
  BY <1>1, RequestsAssumption DEF Create
<1>2. ASSUME NEW p \in Pollers, PollCreate(p)
      PROVE  \E s \in GateIds : /\ Insert(ConfirmType, s) /\ UNCHANGED <<clock, clicks>>
                               /\ s \in poller[p].todo
  BY <1>2 DEF PollCreate, TypeOK, Poll
<1>. QED
  BY <1>1, <1>2, ConfirmIsAction
  DEF Next, Click, SelfApprove, Call, SelectGate, AuditDecision, CrashDecider, PollScan,
      CrashPoller, Tick, vars

\* A row, once there, stays the request it was; once decided it stays decided
\* so; clicks and time only grow.
Steady(g) ==
  /\ gates[g].status # "none" =>
       /\ gates'[g].status # "none"
       /\ gates'[g].action = gates[g].action
       /\ gates'[g].subject = gates[g].subject
  /\ gates[g].status \in Decided =>
       /\ gates'[g].status = gates[g].status
       /\ gates'[g].approvals = gates[g].approvals
       /\ gates'[g].cooldownUntil = gates[g].cooldownUntil

\* No step takes a row back: what a gate is about stays, and a decision stays.
LEMMA NextSteady ==
  ASSUME TypeOK, Numbered, [Next]_vars, NEW g \in GateIds
  PROVE  Steady(g)
<1>1. CASE gates' = gates
  BY <1>1 DEF Steady
<1>2. ASSUME NEW action \in ActionTypes, NEW s \in GateIds \cup {0}, Insert(action, s)
      PROVE  Steady(g)
  <2>1. CASE g = lastId + 1
    <3>1. gates[g].status = "none"
      BY <2>1 DEF Numbered, TypeOK
    <3>. QED
      BY <3>1 DEF Steady, Decided
  <2>2. CASE g # lastId + 1
    BY <1>2, <2>2 DEF Insert, Steady, TypeOK
  <2>. QED
    BY <2>1, <2>2
<1>3. ASSUME NEW d \in Deciders, UpdateGate(d) PROVE Steady(g)
  <2> DEFINE dec == decider[d]
             status == DecidedStatus(gates[dec.gate].action, dec.seen, dec.ballot.approved)
  <2>1. dec.ballot.approved \in BOOLEAN
    BY DEF TypeOK, Decision, Approval
  <2>2. status \in Statuses \ {"none"}
    BY <2>1, DecidedStatusType DEF Statuses
  <2>. HIDE DEF status
  <2>3. CASE g = dec.gate /\ gates[g].status = "pending"
    <3>1. gates'[g] = ApplyDecision(gates[g], dec.seen, status, dec.at)
      BY <1>3, <2>3 DEF UpdateGate, TypeOK, status
    <3>2. gates'[g].status = status /\ gates'[g].action = gates[g].action
            /\ gates'[g].subject = gates[g].subject
      BY <3>1, <2>3 DEF ApplyDecision
    <3>. QED
      BY <3>2, <2>2, <2>3 DEF Steady, Decided
  <2>4. CASE ~(g = dec.gate /\ gates[g].status = "pending")
    <3>1. gates'[g] = gates[g]
      BY <1>3, <2>4, ApplyDecisionFinal DEF UpdateGate, TypeOK, status
    <3>. QED
      BY <3>1 DEF Steady
  <2>. QED
    BY <2>3, <2>4
<1>4. ASSUME NEW p \in Pollers, PollLink(p) PROVE Steady(g)
  BY <1>4 DEF PollLink, Steady, TypeOK, Row
<1>. QED
  BY <1>1, <1>2, <1>3, <1>4, GateSteps

\* Ids are handed out in order: the table holds no row beyond lastId.
LEMMA NextNumbered ==
  ASSUME TypeOK, Numbered, [Next]_vars
  PROVE  Numbered'
<1>. SUFFICES ASSUME NEW g \in GateIds, (g > lastId)'
              PROVE  gates'[g].status = "none"
  BY DEF Numbered
<1>1. CASE gates' = gates /\ lastId' = lastId
  BY <1>1 DEF Numbered
<1>2. ASSUME NEW action \in ActionTypes, NEW s \in GateIds \cup {0}, Insert(action, s)
      PROVE  gates'[g].status = "none"
  BY <1>2 DEF Insert, Numbered, TypeOK, GateIds
<1>3. ASSUME NEW d \in Deciders, UpdateGate(d) PROVE gates'[g].status = "none"
  <2>1. gates[g].status = "none"
    BY <1>3 DEF UpdateGate, Numbered
  <2>. QED
    BY <1>3, <2>1, ApplyDecisionFinal DEF UpdateGate, TypeOK
<1>4. ASSUME NEW p \in Pollers, PollLink(p) PROVE gates'[g].status = "none"
  BY <1>4 DEF PollLink, Numbered, TypeOK, Row
<1>. QED
  BY <1>1, <1>2, <1>3, <1>4, GateSteps

-----------------------------------------------------------------------------
(* A delete cannot be confirmed early. *)

\* A primary a poll may elevate.  Once it is one it stays one, which is why the
\* age of the rows a poll has read does no harm.
Cooled(g) ==
  /\ g \in GateIds
  /\ gates[g].status = "approved_primary"
  /\ gates[g].cooldownUntil # 0
  /\ gates[g].cooldownUntil <= clock

\* A primary whose cooldown is over stays one: nothing decides it again, and
\* the clock does not go back.
LEMMA CooledStays ==
  ASSUME TypeOK, Numbered, [Next]_vars, NEW g, Cooled(g)
  PROVE  Cooled(g)'
<1>1. clock \in Nat /\ clock' \in Nat /\ clock <= clock'
  <2>1. clock' = clock \/ Tick
    BY DEF Next, Create, Click, SelfApprove, Call, SelectGate, UpdateGate, AuditDecision,
           CrashDecider, PollScan, PollCreate, PollLink, CrashPoller, vars
  <2>2. clock \in Nat
    BY DEF TypeOK
  <2>. QED
    BY <2>1, <2>2 DEF Tick
<1>2. Steady(g)
  BY NextSteady DEF Cooled
<1>3. gates[g].cooldownUntil \in Nat
  BY DEF Cooled, TypeOK, Row
<1>4. /\ gates'[g].status = "approved_primary"
      /\ gates'[g].cooldownUntil = gates[g].cooldownUntil
  BY <1>2 DEF Steady, Cooled, Decided
<1>5. gates[g].cooldownUntil # 0 /\ gates[g].cooldownUntil <= clock /\ g \in GateIds
  BY DEF Cooled
<1>6. gates[g].cooldownUntil <= clock'
  BY <1>1, <1>3, <1>5
<1>. QED
  BY <1>4, <1>5, <1>6 DEF Cooled

PollsCooled ==
  \A p \in Pollers : \A g \in poller[p].todo : Cooled(g)

\* Only a scan adds to what a poll has still to elevate.
LEMMA PollSteps ==
  ASSUME TypeOK, [Next]_vars, NEW p \in Pollers
  PROVE  PollScan(p) \/ poller'[p].todo \subseteq poller[p].todo
<1>1. ASSUME NEW q \in Pollers, PollScan(q)
      PROVE  PollScan(p) \/ poller'[p].todo \subseteq poller[p].todo
  BY <1>1 DEF PollScan, TypeOK
<1>2. ASSUME NEW q \in Pollers, PollCreate(q) PROVE poller'[p].todo \subseteq poller[p].todo
  BY <1>2 DEF PollCreate, TypeOK
<1>3. ASSUME NEW q \in Pollers, PollLink(q) PROVE poller'[p].todo \subseteq poller[p].todo
  BY <1>3 DEF PollLink, TypeOK
<1>4. ASSUME NEW q \in Pollers, CrashPoller(q) PROVE poller'[p].todo \subseteq poller[p].todo
  BY <1>4 DEF CrashPoller, TypeOK, NoPoll
<1>. QED
  BY <1>1, <1>2, <1>3, <1>4
  DEF Next, Create, Click, SelfApprove, Call, SelectGate, UpdateGate, AuditDecision,
      CrashDecider, Tick, vars

\* What poll() has read stays true while it works through its list.
LEMMA NextPollsCooled ==
  ASSUME TypeOK, Numbered, PollsCooled, [Next]_vars
  PROVE  PollsCooled'
<1>. SUFFICES ASSUME NEW p \in Pollers, NEW g \in poller'[p].todo
              PROVE  Cooled(g)'
  BY DEF PollsCooled
<1>1. CASE g \in poller[p].todo
  BY <1>1, CooledStays DEF PollsCooled
<1>2. CASE PollScan(p)
  <2>1. g \in Ready
    BY <1>2 DEF PollScan, TypeOK
  <2>2. Cooled(g)
    BY <2>1 DEF Ready, ReadyPrimaries, Cooled, TypeOK
  <2>. QED
    BY <2>2, CooledStays
<1>. QED
  BY <1>1, <1>2, PollSteps

\* A step opens a confirmation only for a primary that is ready, and leaves the
\* ones there are attached to theirs.
LEMMA NextConfirmation ==
  ASSUME TypeOK, Numbered, PollsCooled, ConfirmationFollowsCooldown, [Next]_vars
  PROVE  ConfirmationFollowsCooldown'
<1>. SUFFICES ASSUME NEW child \in GateIds, gates'[child].status # "none",
                     gates'[child].action = ConfirmType,
                     NEW s, s = gates'[child].subject
              PROVE  Cooled(s)' /\ gates'[child].parent \in {0, s}
  BY DEF ConfirmationFollowsCooldown, Cooled, GateIds
<1>old. ASSUME gates[child].status # "none"
        PROVE  Cooled(s)' /\ gates[child].subject = s /\ gates[child].parent \in {0, s}
  <2>1. Steady(child)
    BY NextSteady
  <2>2. /\ gates[child].action = ConfirmType
        /\ gates[child].subject = s
    BY <1>old, <2>1 DEF Steady
  <2>3. s \in GateIds \cup {0}
    BY <2>2 DEF TypeOK, Row
  <2>4. Cooled(s) /\ gates[child].parent \in {0, s}
    BY <1>old, <2>2, <2>3 DEF ConfirmationFollowsCooldown, Cooled
  <2>. QED
    BY <2>2, <2>4, CooledStays
<1>1. CASE gates' = gates
  BY <1>1, <1>old
<1>2. ASSUME NEW action \in ActionTypes, NEW g \in GateIds \cup {0}, Insert(action, g),
             action = ConfirmType => \E p \in Pollers : g \in poller[p].todo
      PROVE  Cooled(s)' /\ gates'[child].parent \in {0, s}
  <2>1. CASE child = lastId + 1
    <3>1. gates'[child] = NewRow(action, clock, g)
      BY <1>2, <2>1 DEF Insert, TypeOK
    <3>2. action = ConfirmType /\ s = g /\ gates'[child].parent = 0
      BY <3>1, NewRowType DEF TypeOK
    <3>3. Cooled(s)
      BY <1>2, <3>2 DEF PollsCooled
    <3>. QED
      BY <3>2, <3>3, CooledStays
  <2>2. CASE child # lastId + 1
    <3>1. gates'[child] = gates[child]
      BY <1>2, <2>2 DEF Insert, TypeOK
    <3>. QED
      BY <3>1, <1>old
  <2>. QED
    BY <2>1, <2>2
<1>3. ASSUME NEW d \in Deciders, UpdateGate(d)
      PROVE  Cooled(s)' /\ gates'[child].parent \in {0, s}
  <2>1. gates'[child].status = gates[child].status \/ gates[child].status = "pending"
    BY <1>3, ApplyDecisionFinal DEF UpdateGate, TypeOK
  <2>2. gates[child].status # "none"
    BY <2>1
  <2>3. gates'[child].parent = gates[child].parent
    BY <1>3 DEF UpdateGate, TypeOK, ApplyDecision
  <2>. QED
    BY <2>2, <2>3, <1>old
<1>4. ASSUME NEW p \in Pollers, PollLink(p)
      PROVE  Cooled(s)' /\ gates'[child].parent \in {0, s}
  <2>1. /\ gates'[child].status = gates[child].status
        /\ gates'[child].parent \in {gates[child].parent, gates[child].subject}
    BY <1>4 DEF PollLink, TypeOK, Row
  <2>. QED
    BY <2>1, <1>old
<1>. QED
  BY <1>1, <1>2, <1>3, <1>4, GateSteps

-----------------------------------------------------------------------------
(* Decisions rest on clicks. *)

Backed(list, g) == \A i \in DOMAIN list : list[i] \in clicks[g]

\* What a decider holds and what a row lists was clicked, on that gate.
OnClicks ==
  /\ \A d \in Deciders :
       decider[d].pc # "idle" =>
         /\ gates[decider[d].gate].status # "none"
         /\ decider[d].ballot \in clicks[decider[d].gate]
         /\ Backed(decider[d].seen, decider[d].gate)
  /\ \A g \in GateIds : Backed(gates[g].approvals, g)

\* A list whose entries lie in C still does with one more entry of C.
LEMMA AppendBacked ==
  ASSUME NEW list \in Seq(Approval), NEW b \in Approval, NEW C,
         \A i \in DOMAIN list : list[i] \in C, b \in C
  PROVE  \A i \in DOMAIN Append(list, b) : Append(list, b)[i] \in C
OBVIOUS

\* No step forgets a click.
LEMMA ClicksGrow ==
  ASSUME TypeOK, [Next]_vars, NEW g \in GateIds
  PROVE  clicks[g] \subseteq clicks'[g]
<1>1. ASSUME NEW d \in Deciders, NEW h \in GateIds, NEW b, Call(d, h, b)
      PROVE  clicks[g] \subseteq clicks'[g]
  BY <1>1 DEF Call, TypeOK
<1>. QED
  BY <1>1 DEF Next, Create, Click, SelfApprove, SelectGate, UpdateGate, AuditDecision,
       CrashDecider, PollScan, PollCreate, PollLink, CrashPoller, Tick, vars

\* How the record of one decider may change.
LEMMA DeciderSteps ==
  ASSUME TypeOK, [Next]_vars, NEW d \in Deciders
  PROVE  \/ decider'[d] = decider[d]
         \/ decider'[d].pc = "idle"
         \/ \E g \in GateIds, b \in Approval : Call(d, g, b)
         \/ SelectGate(d) /\ gates[decider[d].gate].status = "pending"
         \/ UpdateGate(d)
<1>call. ASSUME NEW e \in Deciders, NEW g \in GateIds, NEW b \in Approval, Call(e, g, b)
         PROVE  decider'[d] = decider[d] \/ e = d
  BY <1>call DEF Call, TypeOK
<1>1. ASSUME NEW e \in Deciders, NEW g \in GateIds, NEW who \in Approvers,
             NEW approved \in BOOLEAN, Click(e, g, who, approved)
      PROVE  decider'[d] = decider[d] \/ \E b \in Approval : Call(d, g, b)
  <2>1. [approver |-> who, approved |-> approved] \in Approval
    BY DEF Approval, Deciding
  <2>. QED
    BY <1>1, <2>1, <1>call DEF Click
<1>2. ASSUME NEW e \in Deciders, NEW g \in GateIds, SelfApprove(e, g)
      PROVE  decider'[d] = decider[d] \/ \E b \in Approval : Call(d, g, b)
  <2>1. [approver |-> "system", approved |-> TRUE] \in Approval
    BY DEF Approval, Deciding
  <2>. QED
    BY <1>2, <2>1, <1>call DEF SelfApprove
<1>3. ASSUME NEW e \in Deciders, SelectGate(e)
      PROVE  \/ decider'[d] = decider[d] \/ decider'[d].pc = "idle"
             \/ SelectGate(d) /\ gates[decider[d].gate].status = "pending"
  BY <1>3 DEF SelectGate, TypeOK, Idle, Decision_
<1>4. ASSUME NEW e \in Deciders, UpdateGate(e)
      PROVE  decider'[d] = decider[d] \/ UpdateGate(d)
  BY <1>4 DEF UpdateGate, TypeOK
<1>5. ASSUME NEW e \in Deciders, AuditDecision(e) \/ CrashDecider(e)
      PROVE  decider'[d] = decider[d] \/ decider'[d].pc = "idle"
  BY <1>5 DEF AuditDecision, CrashDecider, TypeOK, Idle, Decision_
<1>. QED
  BY <1>1, <1>2, <1>3, <1>4, <1>5
  DEF Next, Create, PollScan, PollCreate, PollLink, CrashPoller, Tick, vars

\* What a decider holds, and what a gate's list holds, was clicked on that gate.
LEMMA NextOnClicks ==
  ASSUME TypeOK, Numbered, OnClicks, [Next]_vars
  PROVE  OnClicks'
<1>1. ASSUME NEW d \in Deciders, decider'[d].pc # "idle"
      PROVE  /\ gates'[decider'[d].gate].status # "none"
             /\ decider'[d].ballot \in clicks'[decider'[d].gate]
             /\ Backed(decider[d].seen, decider[d].gate)'
  <2>1. CASE decider'[d] = decider[d]
    <3>1. decider[d].gate \in GateIds
      BY <1>1, <2>1 DEF TypeOK, Decision
    <3>. QED
      BY <1>1, <2>1, <3>1, ClicksGrow, NextSteady DEF OnClicks, Backed, Steady
  <2>2. ASSUME NEW g \in GateIds, NEW b \in Approval, Call(d, g, b)
        PROVE  /\ gates'[decider'[d].gate].status # "none"
               /\ decider'[d].ballot \in clicks'[decider'[d].gate]
               /\ Backed(decider[d].seen, decider[d].gate)'
    BY <2>2 DEF Call, TypeOK, Decision_, Backed
  <2>3. CASE SelectGate(d) /\ gates[decider[d].gate].status = "pending"
    <3>1. decider[d].gate \in GateIds /\ decider[d].ballot \in Approval
      BY <2>3 DEF SelectGate, TypeOK, Decision
    <3>2. gates[decider[d].gate].approvals \in Seq(Approval)
      BY <3>1 DEF TypeOK, Row
    <3>3. Backed(Append(gates[decider[d].gate].approvals, decider[d].ballot), decider[d].gate)
      BY <2>3, <3>1, <3>2, AppendBacked DEF OnClicks, Backed, SelectGate
    <3>4. decider'[d] = Decision_("update", decider[d].gate, decider[d].ballot,
                  Append(gates[decider[d].gate].approvals, decider[d].ballot), clock, "none")
      BY <2>3 DEF SelectGate, TypeOK
    <3>. QED
      BY <2>3, <3>3, <3>4 DEF SelectGate, OnClicks, Backed, Decision_
  <2>4. CASE UpdateGate(d)
    <3>1. /\ decider'[d].gate = decider[d].gate
          /\ decider'[d].ballot = decider[d].ballot
          /\ decider'[d].seen = decider[d].seen
          /\ decider[d].pc = "update"
          /\ clicks' = clicks
      BY <2>4 DEF UpdateGate, TypeOK, Decision_
    <3>2. decider[d].gate \in GateIds
      BY <3>1 DEF TypeOK, Decision
    <3>. QED
      BY <3>1, <3>2, NextSteady DEF OnClicks, Backed, Steady
  <2>. QED
    BY <1>1, <2>1, <2>2, <2>3, <2>4, DeciderSteps
<1>2. ASSUME NEW g \in GateIds PROVE Backed(gates[g].approvals, g)'
  <2>1. ASSUME gates'[g].approvals = gates[g].approvals PROVE Backed(gates[g].approvals, g)'
    BY <2>1, ClicksGrow DEF OnClicks, Backed
  <2>2. ASSUME NEW action \in ActionTypes, NEW s \in GateIds \cup {0}, Insert(action, s)
        PROVE  Backed(gates[g].approvals, g)'
    <3>1. gates'[g] = gates[g] \/ gates'[g].approvals = << >>
      BY <2>2, NewRowType DEF Insert, TypeOK
    <3>. QED
      BY <3>1, <2>1 DEF Backed
  <2>3. ASSUME NEW d \in Deciders, UpdateGate(d) PROVE Backed(gates[g].approvals, g)'
    <3>1. \/ gates'[g].approvals = gates[g].approvals
          \/ g = decider[d].gate /\ gates'[g].approvals = decider[d].seen
      BY <2>3 DEF UpdateGate, TypeOK, ApplyDecision
    <3>2. decider[d].pc # "idle" /\ clicks' = clicks
      BY <2>3 DEF UpdateGate
    <3>. QED
      BY <3>1, <3>2, <2>1 DEF OnClicks, Backed
  <2>4. ASSUME NEW p \in Pollers, PollLink(p) PROVE Backed(gates[g].approvals, g)'
    <3>1. gates'[g].approvals = gates[g].approvals
      BY <2>4 DEF PollLink, TypeOK, Row
    <3>. QED
      BY <3>1, <2>1
  <2>. QED
    BY <2>1, <2>2, <2>3, <2>4, GateSteps
<1>. QED
  BY <1>1, <1>2 DEF OnClicks

-----------------------------------------------------------------------------
(* Two people for a dual gate. *)

\* A set that counts two or more has two different members.
LEMMA TwoMembers ==
  ASSUME NEW S, Cardinality(S) >= 2
  PROVE  \E a, b \in S : a # b
<1>. SUFFICES ASSUME \A a, b \in S : a = b PROVE FALSE
  OBVIOUS
<1>1. CASE S = {}
  BY <1>1, FS_EmptySet
<1>2. ASSUME NEW a \in S PROVE FALSE
  <2>1. S = {a}
    BY <1>2
  <2>. QED
    BY <2>1, FS_Singleton
<1>. QED
  BY <1>1, <1>2

\* The part of DualTwoPeople that speaks of the row alone.
DualRows ==
  \A g \in GateIds :
    gates[g].action \in DualTypes /\ gates[g].status = "approved" =>
      /\ ~AnyReject(gates[g].approvals)
      /\ \E a, b \in YesVoters(gates[g].approvals) : a # b

\* A dual gate is settled in favour only by a list without a rejection and with
\* two names.
LEMMA DualDecision ==
  ASSUME NEW action \in DualTypes, NEW list, NEW approved \in BOOLEAN,
         DecidedStatus(action, list, approved) = "approved"
  PROVE  ~AnyReject(list) /\ \E a, b \in YesVoters(list) : a # b
<1>1. ~AnyReject(list) /\ Cardinality(YesVoters(list)) >= 2
  BY DEF DecidedStatus
<1>. QED
  BY <1>1, TwoMembers

\* UPDATE approves a dual gate only with two yes-voters and no rejection.
LEMMA NextDualRows ==
  ASSUME TypeOK, Numbered, DualRows, [Next]_vars
  PROVE  DualRows'
<1>. SUFFICES ASSUME NEW g \in GateIds, gates'[g].action \in DualTypes,
                     gates'[g].status = "approved"
              PROVE  /\ ~AnyReject(gates'[g].approvals)
                     /\ \E a, b \in YesVoters(gates'[g].approvals) : a # b
  BY DEF DualRows, AnyReject, YesVoters
<1>1. CASE gates[g].status = "approved"
  BY <1>1, NextSteady DEF Steady, Decided, DualRows
<1>2. CASE gates[g].status # "approved"
  <2>1. ASSUME NEW action \in ActionTypes, NEW s \in GateIds \cup {0}, Insert(action, s)
        PROVE  FALSE
    BY <2>1, <1>2, NewRowType DEF Insert, TypeOK
  <2>2. ASSUME NEW p \in Pollers, PollLink(p) PROVE FALSE
    BY <2>2, <1>2 DEF PollLink, TypeOK, Row
  <2>3. ASSUME NEW d \in Deciders, UpdateGate(d)
        PROVE  /\ ~AnyReject(gates'[g].approvals)
               /\ \E a, b \in YesVoters(gates'[g].approvals) : a # b
    <3> DEFINE dec == decider[d]
               status == DecidedStatus(gates[dec.gate].action, dec.seen, dec.ballot.approved)
    <3>1. /\ g = dec.gate /\ status = "approved"
          /\ gates'[g].approvals = dec.seen /\ gates'[g].action = gates[g].action
      BY <2>3, <1>2 DEF UpdateGate, TypeOK, ApplyDecision
    <3>2. dec.ballot.approved \in BOOLEAN
      BY DEF TypeOK, Decision, Approval
    <3>. QED
      BY <3>1, <3>2, DualDecision
  <2>. QED
    BY <1>2, <2>1, <2>2, <2>3, GateSteps
<1>. QED
  BY <1>1, <1>2

\* The two people a dual gate's list names really clicked on that gate.
LEMMA DualFromRows ==
  ASSUME TypeOK, OnClicks, DualRows
  PROVE  DualTwoPeople
<1>. SUFFICES ASSUME NEW g \in GateIds, NEW who \in YesVoters(gates[g].approvals)
              PROVE  [approver |-> who, approved |-> TRUE] \in clicks[g]
  BY DEF DualRows, DualTwoPeople
<1>1. PICK i \in DOMAIN gates[g].approvals :
        gates[g].approvals[i].approved /\ gates[g].approvals[i].approver = who
  BY DEF YesVoters
<1>2. gates[g].approvals[i] \in clicks[g] /\ clicks[g] \subseteq Approval
  BY <1>1 DEF OnClicks, Backed, TypeOK
<1>3. gates[g].approvals[i] = [approver |-> who, approved |-> TRUE]
  BY <1>1, <1>2 DEF Approval
<1>. QED
  BY <1>2, <1>3

-----------------------------------------------------------------------------
(* Decisions are audited. *)

\* A decision is covered by its audit row, by the decider about to write it, or
\* by the crash that lost it, and stays so.
LEMMA NextAudited ==
  ASSUME TypeOK, Numbered, DecisionsAreAudited, [Next]_vars
  PROVE  DecisionsAreAudited'
<1> DEFINE Covered(g, status) ==
      \/ \E row \in audit : row.gate = g /\ row.final = status
      \/ \E d \in Deciders :
           decider[d].pc = "audit" /\ decider[d].gate = g /\ decider[d].final = status
      \/ g \in lost
<1>stay. ASSUME NEW g \in GateIds, NEW status, Covered(g, status) PROVE Covered(g, status)'
  <2>1. CASE \E row \in audit : row.gate = g /\ row.final = status
    <3>1. audit \subseteq audit'
      BY DEF Next, Create, Click, SelfApprove, Call, SelectGate, UpdateGate, AuditDecision,
         CrashDecider, PollScan, PollCreate, PollLink, CrashPoller, Tick, vars
    <3>. QED
      BY <2>1, <3>1
  <2>2. ASSUME NEW d \in Deciders, decider[d].pc = "audit", decider[d].gate = g,
               decider[d].final = status
        PROVE  Covered(g, status)'
    <3>1. CASE AuditDecision(d)
      <4>1. [gate |-> g, ballot |-> decider[d].ballot, final |-> status] \in audit'
        BY <3>1, <2>2 DEF AuditDecision
      <4>. QED
        BY <4>1
    <3>2. CASE CrashDecider(d)
      BY <3>2, <2>2 DEF CrashDecider
    <3>3. CASE ~AuditDecision(d) /\ ~CrashDecider(d)
      <4>1. ASSUME NEW e \in Deciders, NEW h \in GateIds, NEW b, Call(e, h, b)
            PROVE  decider'[d] = decider[d]
        BY <4>1, <2>2 DEF Call, TypeOK
      <4>2. ASSUME NEW e \in Deciders,
                   SelectGate(e) \/ UpdateGate(e) \/ AuditDecision(e) \/ CrashDecider(e)
            PROVE  decider'[d] = decider[d]
        BY <4>2, <3>3, <2>2 DEF SelectGate, UpdateGate, AuditDecision, CrashDecider, TypeOK
      <4>3. decider'[d] = decider[d]
        BY <4>1, <4>2 DEF Next, Create, Click, SelfApprove, PollScan, PollCreate, PollLink,
           CrashPoller, Tick, vars
      <4>. QED
        BY <2>2, <4>3
    <3>. QED
      BY <3>1, <3>2, <3>3
  <2>3. CASE g \in lost
    BY <2>3 DEF Next, Create, Click, SelfApprove, Call, SelectGate, UpdateGate, AuditDecision,
       CrashDecider, PollScan, PollCreate, PollLink, CrashPoller, Tick, vars
  <2>. QED
    BY <1>stay, <2>1, <2>2, <2>3
<1>. SUFFICES ASSUME NEW g \in GateIds, gates'[g].status \in Decided
              PROVE  Covered(g, gates[g].status)'
  BY DEF DecisionsAreAudited
<1>1. CASE gates[g].status \in Decided
  <2>1. Covered(g, gates[g].status)
    BY <1>1 DEF DecisionsAreAudited
  <2>2. gates'[g].status = gates[g].status
    BY <1>1, NextSteady DEF Steady
  <2>3. PICK status : status = gates[g].status
    OBVIOUS
  <2>4. Covered(g, status)
    BY <2>1, <2>3
  <2>5. Covered(g, status)'
    BY <2>4, <1>stay
  <2>. QED
    BY <2>5, <2>2, <2>3
<1>2. CASE gates[g].status \notin Decided
  <2>1. PICK d \in Deciders : UpdateGate(d)
    <3>1. ASSUME NEW action \in ActionTypes, NEW s \in GateIds \cup {0}, Insert(action, s)
          PROVE  FALSE
      BY <3>1, <1>2, NewRowType DEF Insert, TypeOK, Decided
    <3>2. ASSUME NEW p \in Pollers, PollLink(p) PROVE FALSE
      BY <3>2, <1>2 DEF PollLink, TypeOK, Row
    <3>. QED
      BY <1>2, <3>1, <3>2, GateSteps
  <2>2. /\ decider'[d].pc = "audit" /\ decider'[d].gate = g
        /\ decider'[d].final = gates'[g].status
    BY <1>2, <2>1 DEF UpdateGate, TypeOK, ApplyDecision, Decision_
  <2>. QED
    BY <2>2
<1>. QED
  BY <1>1, <1>2

-----------------------------------------------------------------------------
(* The invariant, and the theorems. *)

\* DualTwoPeople, ConfirmationFollowsCooldown and DecisionsAreAudited are not
\* inductive: what a step writes depends on what a process read earlier, so the
\* invariant also says what deciders and polls hold.
IInv ==
  /\ TypeOK /\ Numbered
  /\ OnClicks /\ DualRows
  /\ PollsCooled /\ ConfirmationFollowsCooldown
  /\ DecisionsAreAudited

\* The inductive invariant of the table: the parts above are kept together.
THEOREM Inductive == Spec => []IInv
<1>1. Init => IInv
  <2>. SUFFICES ASSUME Init PROVE IInv
    OBVIOUS
  <2>1. /\ \A g \in GateIds : gates[g] = NoRow
        /\ \A d \in Deciders : decider[d].pc = "idle"
        /\ \A p \in Pollers : poller[p].todo = {}
    BY DEF Init, Idle, Decision_, NoPoll
  <2>2. NoRow.status = "none" /\ NoRow.approvals = << >>
    BY DEF NoRow
  <2>3. OnClicks
    BY <2>1, <2>2 DEF OnClicks, Backed
  <2>4. PollsCooled /\ Numbered
    BY <2>1, <2>2 DEF PollsCooled, Numbered
  <2>5. ConfirmationFollowsCooldown /\ DecisionsAreAudited /\ DualRows
    BY <2>1, <2>2 DEF ConfirmationFollowsCooldown, DecisionsAreAudited, DualRows, Decided
  <2>. QED
    BY <2>3, <2>4, <2>5, InitType DEF IInv
<1>2. IInv /\ [Next]_vars => IInv'
  BY NextType, NextNumbered, NextOnClicks, NextDualRows, NextPollsCooled,
     NextConfirmation, NextAudited DEF IInv
<1>. QED
  BY <1>1, <1>2, PTL DEF Spec

\* decide_approval_gate, jackie_and_o tier: approved means that two different
\* people clicked approve on that gate and that its list holds no rejection,
\* although two processes may have read the list before either wrote it.
THEOREM DualApproval == Spec => []DualTwoPeople
<1>1. IInv => DualTwoPeople
  BY DualFromRows DEF IInv
<1>. QED
  BY <1>1, Inductive, PTL

\* cooldown_poller.poll: a confirmation gate exists only for a primary that is
\* approved and whose cooldown has run out, however many polls overlap and
\* wherever they die.
THEOREM NoEarlyConfirmation == Spec => []ConfirmationFollowsCooldown
<1>1. IInv => ConfirmationFollowsCooldown
  BY DEF IInv
<1>. QED
  BY <1>1, Inductive, PTL

\* decide_approval_gate: a decision a gate shows is in the audit log, or its
\* decider is about to put it there, or died between its two transactions.
THEOREM DecisionsAudited == Spec => []DecisionsAreAudited
<1>1. IInv => DecisionsAreAudited
  BY DEF IInv
<1>. QED
  BY <1>1, Inductive, PTL

-----------------------------------------------------------------------------
(* ApprovalGates implements GateLedger. *)

kindBar == [g \in GateIds |-> Kind(gates[g].action)]
aboutBar == [g \in GateIds |-> gates[g].subject]
outcomeBar == [g \in GateIds |-> Outcome(gates[g].status)]

\* The empty table is the empty ledger.
LEMMA InitRefines == Init => Ledger!Init
<1>. SUFFICES ASSUME Init PROVE Ledger!Init
  OBVIOUS
<1>1. Kind(NoRow.action) = "single" /\ NoRow.subject = 0 /\ Outcome(NoRow.status) = "none"
  BY DEF NoRow, Kind, Outcome, ConfirmType, DualTypes, CooldownTypes
<1>2. \A g \in GateIds : /\ Kind(gates[g].action) = "single"
                         /\ gates[g].subject = 0
                         /\ Outcome(gates[g].status) = "none"
  BY <1>1 DEF Init
<1>3. clicks = [g \in GateIds |-> {}]
  BY DEF Init
<1>. QED
  BY <1>2, <1>3 DEF Ledger!Init

\* Inserting a row opens a request; the poller's confirms a gate that is cooling.
LEMMA InsertRefines ==
  ASSUME IInv, NEW action \in ActionTypes, NEW s \in GateIds \cup {0}, Insert(action, s),
         UNCHANGED clicks,
         action = ConfirmType => \E p \in Pollers : s \in poller[p].todo,
         action # ConfirmType => s = 0
  PROVE  Ledger!Next
<1> DEFINE g == lastId + 1
<1>1. g \in GateIds /\ gates[g].status = "none"
  <2>1. lastId \in Nat /\ lastId < MaxGates /\ MaxGates \in Nat
    BY BoundsAssumption DEF IInv, TypeOK, Insert
  <2>2. g \in GateIds /\ g > lastId
    BY <2>1 DEF GateIds
  <2>. QED
    BY <2>2 DEF IInv, Numbered
<1>2. gates' = [gates EXCEPT ![g] = NewRow(action, clock, s)]
  BY DEF Insert
<1>3. /\ NewRow(action, clock, s).action = action
      /\ NewRow(action, clock, s).subject = s
      /\ NewRow(action, clock, s).status = "pending"
  BY NewRowType DEF IInv, TypeOK
<1>4. /\ kindBar' = [kindBar EXCEPT ![g] = Kind(action)]
      /\ aboutBar' = [aboutBar EXCEPT ![g] = s]
      /\ outcomeBar' = [outcomeBar EXCEPT ![g] = "open"]
  <2>1. Outcome("pending") = "open"
    BY DEF Outcome
  <2>2. gates \in [GateIds -> Row(GateIds)]
    BY DEF IInv, TypeOK
  <2>. HIDE DEF g
  <2>. QED
    BY <1>1, <1>2, <1>3, <2>1, <2>2 DEF kindBar, aboutBar, outcomeBar
<1>5. outcomeBar[g] = "none"
  BY <1>1 DEF outcomeBar, Outcome
<1>6. IF Kind(action) = "confirm" THEN s \in GateIds /\ outcomeBar[s] = "cooling" ELSE s = 0
  <2>1. CASE action = ConfirmType
    <3>1. Cooled(s)
      BY <2>1 DEF IInv, PollsCooled
    <3>. QED
      BY <3>1, <2>1 DEF Cooled, outcomeBar, Outcome, Kind
  <2>2. CASE action # ConfirmType
    BY <2>2 DEF Kind
  <2>. QED
    BY <2>1, <2>2
<1>7. Kind(action) \in Ledger!Kinds
  BY DEF Kind, Ledger!Kinds
<1>8. Ledger!Request(g, Kind(action), s)
  BY <1>4, <1>5, <1>6 DEF Ledger!Request, kindBar, aboutBar, outcomeBar
<1>. QED
  BY <1>1, <1>7, <1>8 DEF Ledger!Next

\* A call of decide_approval_gate casts a ballot in the ledger.
LEMMA CallRefines ==
  ASSUME IInv, NEW d \in Deciders, NEW g \in GateIds, NEW b \in Approval, Call(d, g, b)
  PROVE  Ledger!Next
<1>1. gates[g].status # "none" => Outcome(gates[g].status) # "none"
  BY DEF IInv, TypeOK, Row, Statuses, Outcome
<1>2. Ledger!Cast(g, b)
  BY <1>1 DEF Call, Ledger!Cast
<1>3. b \in Ledger!Ballots
  BY DEF Approval, Ledger!Ballots
<1>. QED
  BY <1>2, <1>3 DEF Ledger!Next

\* An UPDATE that decides a gate settles it on ballots that were cast on it.
LEMMA UpdateRefines ==
  ASSUME IInv, NEW d \in Deciders, UpdateGate(d)
  PROVE  Ledger!Next \/ UNCHANGED Ledger!ledgerVars
<1> DEFINE dec == decider[d]
           g == dec.gate
           status == DecidedStatus(gates[g].action, dec.seen, dec.ballot.approved)
<1>1. /\ g \in GateIds /\ dec.ballot \in clicks[g] /\ Backed(dec.seen, g)
      /\ dec.ballot \in Approval /\ clicks[g] \subseteq Approval
      /\ gates[g] \in Row(GateIds)
  BY DEF IInv, OnClicks, TypeOK, Decision, UpdateGate
<1>2. gates' = [gates EXCEPT ![g] = ApplyDecision(gates[g], dec.seen, status, dec.at)]
      /\ clicks' = clicks
  BY DEF UpdateGate
<1>3. CASE gates[g].status # "pending"
  <2>1. gates' = gates
    BY <1>1, <1>2, <1>3, ApplyDecisionFinal DEF IInv, TypeOK
  <2>. QED
    BY <2>1, <1>2 DEF Ledger!ledgerVars
<1>4. CASE gates[g].status = "pending"
  <2>1. /\ gates'[g].action = gates[g].action /\ gates'[g].subject = gates[g].subject
        /\ gates'[g].status = status
        /\ \A h \in GateIds \ {g} : gates'[h] = gates[h]
    BY <1>1, <1>2, <1>4 DEF ApplyDecision, IInv, TypeOK
  <2>2. kindBar' = kindBar /\ aboutBar' = aboutBar
    BY <2>1 DEF kindBar, aboutBar
  <2>3. outcomeBar' = [outcomeBar EXCEPT ![g] = Outcome(status)]
    BY <1>1, <2>1 DEF outcomeBar
  <2>4. CASE status = "pending"
    <3>1. outcomeBar' = outcomeBar
      BY <2>3, <2>4, <1>4, <1>1 DEF outcomeBar
    <3>. QED
      BY <3>1, <2>2, <1>2 DEF Ledger!ledgerVars, kindBar, aboutBar, outcomeBar
  <2>5. CASE status # "pending"
    <3>1. \A b \in clicks[g] : b.approver \in Deciding
                  /\ b = [approver |-> b.approver, approved |-> b.approved]
      BY <1>1 DEF Approval
    <3>2. /\ \A b \in clicks[g] : b.approved => b.approver \in Ledger!Yes(g)
          /\ \A b \in clicks[g] : ~b.approved => b.approver \in Ledger!No(g)
      BY <3>1, <1>1 DEF Ledger!Yes, Ledger!No, Approval
    <3>3. YesVoters(dec.seen) \subseteq Ledger!Yes(g)
      BY <3>2, <1>1 DEF YesVoters, Backed
    <3>4. AnyReject(dec.seen) => Ledger!No(g) # {}
      BY <3>2, <1>1 DEF AnyReject, Backed
    <3>5. dec.ballot.approved \in BOOLEAN
      BY <1>1 DEF Approval
    <3>6. ASSUME status = "rejected" PROVE Outcome(status) \in Ledger!Justified(g)
      <4>1. ~dec.ballot.approved \/ AnyReject(dec.seen)
        BY <3>6, <3>5 DEF DecidedStatus
      <4>2. "refused" \in Ledger!Justified(g)
        BY <4>1, <3>2, <3>4, <1>1 DEF Ledger!Justified
      <4>. QED
        BY <4>2, <3>6 DEF Outcome
    <3>7. ASSUME status = "approved_primary" PROVE Outcome(status) \in Ledger!Justified(g)
      <4>1. dec.ballot.approved /\ gates[g].action \in CooldownTypes
        BY <3>7, <3>5 DEF DecidedStatus
      <4>2. kindBar[g] = "cooldown"
        BY <4>1, <1>1 DEF kindBar, Kind, CooldownTypes, DualTypes, ConfirmType
      <4>3. "cooling" \in Ledger!Justified(g)
        BY <4>1, <4>2, <3>2, <1>1 DEF Ledger!Justified, kindBar
      <4>. QED
        BY <4>3, <3>7 DEF Outcome
    <3>8. ASSUME status = "approved" /\ gates[g].action \in DualTypes
         PROVE  Outcome(status) \in Ledger!Justified(g)
      <4>1. \E a, b \in YesVoters(dec.seen) : a # b
        BY <3>8, <3>5, DualDecision
      <4>2. kindBar[g] = "dual"
        BY <3>8, <1>1 DEF kindBar, Kind, DualTypes, ConfirmType
      <4>3. "granted" \in Ledger!Justified(g)
        BY <4>1, <4>2, <3>3 DEF Ledger!Justified, kindBar
      <4>. QED
        BY <4>3, <3>8 DEF Outcome
    <3>9. ASSUME status = "approved" /\ gates[g].action \notin DualTypes
         PROVE  Outcome(status) \in Ledger!Justified(g)
      <4>1. dec.ballot.approved /\ gates[g].action \notin CooldownTypes
        BY <3>9, <3>5 DEF DecidedStatus
      <4>2. kindBar[g] \in {"single", "confirm"}
        BY <4>1, <3>9, <1>1 DEF kindBar, Kind
      <4>3. "granted" \in Ledger!Justified(g)
        BY <4>1, <4>2, <3>2, <1>1 DEF Ledger!Justified, kindBar
      <4>. QED
        BY <4>3, <3>9 DEF Outcome
    <3>10. Outcome(status) \in Ledger!Justified(g)
      <4>1. Outcome("rejected") = "refused" /\ Outcome("approved") = "granted"
              /\ Outcome("approved_primary") = "cooling"
        BY DEF Outcome
      <4>. QED
        BY <4>1, <2>5, <3>5, <3>6, <3>7, <3>8, <3>9, DecidedStatusType
    <3>11. outcomeBar[g] = "open"
      BY <1>4, <1>1 DEF outcomeBar, Outcome
    <3>12. Ledger!Settle(g)
      BY <3>10, <3>11, <2>2, <2>3, <1>2 DEF Ledger!Settle, kindBar, aboutBar, outcomeBar
    <3>. QED
      BY <3>12, <1>1 DEF Ledger!Next
  <2>. QED
    BY <2>4, <2>5
<1>. QED
  BY <1>3, <1>4

\* Setting parent_gate_id is nothing the ledger sees.
LEMMA LinkRefines ==
  ASSUME IInv, NEW p \in Pollers, PollLink(p)
  PROVE  UNCHANGED Ledger!ledgerVars
<1>1. \A g \in GateIds : /\ gates'[g].action = gates[g].action
                         /\ gates'[g].status = gates[g].status
                         /\ gates'[g].subject = gates[g].subject
  BY DEF PollLink, IInv, TypeOK, Row
<1>. QED
  BY <1>1 DEF Ledger!ledgerVars, PollLink

\* The table keeps the ledger's promise, for any number of gates, people,
\* processes and polls: gates are settled at most once, on ballots really cast on
\* them, and only a cooling gate is ever confirmed.
THEOREM Refinement == Spec => ImplementsLedger
<1>1. IInv /\ [Next]_vars => [Ledger!Next]_(Ledger!ledgerVars)
  <2>. SUFFICES ASSUME IInv, [Next]_vars
                PROVE  Ledger!Next \/ UNCHANGED Ledger!ledgerVars
    OBVIOUS
  <2>1. ASSUME NEW action \in Requests, Create(action) PROVE Ledger!Next
    BY <2>1, InsertRefines, RequestsAssumption DEF Create
  <2>2. ASSUME NEW d \in Deciders, NEW g \in GateIds, NEW who \in Approvers,
               NEW approved \in BOOLEAN, Click(d, g, who, approved)
        PROVE  Ledger!Next
    <3>1. [approver |-> who, approved |-> approved] \in Approval
      BY DEF Approval, Deciding
    <3>. QED
      BY <2>2, <3>1, CallRefines DEF Click
  <2>3. ASSUME NEW d \in Deciders, NEW g \in GateIds, SelfApprove(d, g) PROVE Ledger!Next
    <3>1. [approver |-> "system", approved |-> TRUE] \in Approval
      BY DEF Approval, Deciding
    <3>. QED
      BY <2>3, <3>1, CallRefines DEF SelfApprove
  <2>4. ASSUME NEW p \in Pollers, PollCreate(p) PROVE Ledger!Next
    <3>1. PICK s \in poller[p].todo : Insert(ConfirmType, s)
      BY <2>4 DEF PollCreate
    <3>2. s \in GateIds
      BY <3>1 DEF IInv, TypeOK, Poll
    <3>. QED
      BY <2>4, <3>1, <3>2, InsertRefines, ConfirmIsAction DEF PollCreate
  <2>5. CASE gates' = gates /\ clicks' = clicks
    BY <2>5 DEF Ledger!ledgerVars
  <2>. QED
    BY <2>1, <2>2, <2>3, <2>4, <2>5, UpdateRefines, LinkRefines
    DEF Next, SelectGate, AuditDecision, CrashDecider, PollScan, CrashPoller, Tick, vars
<1>. QED
  BY <1>1, InitRefines, Inductive, PTL DEF Spec, ImplementsLedger, Ledger!Spec
=============================================================================
