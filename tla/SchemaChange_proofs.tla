------------------------ MODULE SchemaChange_proofs ------------------------
(***************************************************************************)
(* Proofs about SchemaChange, for any number of bundles, commands and      *)
(* gates and any bounds.  A command verifies when it starts and acts       *)
(* later, on a copy of a manifest that others have overwritten since; so   *)
(* the invariant says of a manifest, and of a copy of it in a process,     *)
(* what it can be trusted for (Tracks), and of a command what it has       *)
(* verified (Works).  Both only look at what no step takes back (Grows).   *)
(***************************************************************************)
EXTENDS SchemaChange, TLAPS

-----------------------------------------------------------------------------
(* The invariant. *)

\* Gate g was opened for bundle b, to deploy it or to undo it.
GateFor(g, b, undo) ==
  g \in GateIds /\ g <= lastId /\ about[g] = [bundle |-> b, undo |-> undo]

Deployed(b, g) == [what |-> "sf_schema_deploy", bundle |-> b, gate |-> g, ok |-> TRUE]
Undone(b, g) == [what |-> "sf_schema_rollback", bundle |-> b, gate |-> g, ok |-> TRUE]

\* What a manifest of bundle b can be trusted for, however old the copy is: its
\* gates are gates of b, its test was passed, and its stamps are audited.
Tracks(b, m) ==
  /\ m.gate # 0 => GateFor(m.gate, b, FALSE)
  /\ m.rollbackGate # 0 => GateFor(m.rollbackGate, b, TRUE)
  /\ m.sandbox = "passed" => b \in passed
  /\ m.status = "deployed" => Deployed(b, m.gate) \in audit
  /\ m.rollback = "deployed" => Undone(b, m.rollbackGate) \in audit

\* What a command has verified by the time it is where it is.
Works(c) ==
  c.pc # "idle" =>
    /\ c.bundle \in Bundles /\ Tracks(c.bundle, c.copy)
    /\ c.pc = "proposed" => GateFor(c.gate, c.bundle, FALSE)
    /\ c.pc = "prepared" => GateFor(c.gate, c.bundle, TRUE)
    /\ c.pc \in {"snapshot", "deploy"} => c.bundle \in passed /\ DeployApproved(c.bundle)
    /\ c.pc = "deploy" => revert[c.bundle] \in Versions
    /\ c.pc \in {"snapshot", "deploy", "deploy_audit", "deploy_save"} => c.copy.gate # 0
    /\ c.pc = "deploy_save" /\ c.ok => Deployed(c.bundle, c.copy.gate) \in audit
    /\ c.pc = "undo" => revert[c.bundle] # "none" /\ RollbackApproved(c.bundle)
    /\ c.pc \in {"undo", "undo_audit", "undo_save"} => c.copy.rollbackGate # 0
    /\ c.pc = "undo_save" /\ c.ok => Undone(c.bundle, c.copy.rollbackGate) \in audit

\* Ids are handed out in order, and a confirmation is of a primary whose
\* cooldown is over, for the same bundle.
GatesLinked ==
  /\ \A g \in GateIds : g > lastId => gates[g] = NoRow
  /\ \A g, c \in GateIds : Confirms(gates, c, g) =>
       /\ gates[g].status = "approved_primary" /\ gates[g].cooldownUntil <= clock
       /\ about[c] = about[g]

\* The org's field, and every field a revert package holds, is one that can be
\* put back in its turn.
CanGoBack(v) == v \in Bundles => v \in passed /\ revert[v] \in Versions
Restorable == CanGoBack(prod) /\ \A b \in Bundles : CanGoBack(revert[b])

BundlesIInv ==
  /\ TypeOK /\ GatesLinked /\ Restorable
  /\ \A b \in Bundles : Tracks(b, manifests[b])
  /\ \A p \in Procs : Works(proc[p])

-----------------------------------------------------------------------------
(* Types. *)

LEMMA NoManifestType == NoManifest \in Manifest
BY DEF NoManifest, Manifest

LEMMA IdleType == Idle \in Command /\ Idle.pc = "idle"
BY NoManifestType DEF Idle, Command

LEMMA NoRowType == NoRow \in Row(GateIds)
BY DEF NoRow, Row, ActionTypes, Statuses

\* A new row is a pending row that confirms nothing.
LEMMA NewRowType ==
  ASSUME NEW action \in ActionTypes, NEW now \in Nat, NEW subject \in GateIds \cup {0}
  PROVE  /\ NewRow(action, now, subject) \in Row(GateIds)
         /\ NewRow(action, now, subject).action = action
         /\ NewRow(action, now, subject).status = "pending"
         /\ NewRow(action, now, subject).parent = 0
<1>1. Ttl \in Nat
  BY TtlAssumption
<1>. QED
  BY <1>1 DEF NewRow, Row, Statuses

\* The tiers a bundle is deployed and rolled back under are keys of
\* APPROVAL_TIERS, and neither is that of a confirmation.
LEMMA TierType ==
  ASSUME NEW b \in Bundles
  PROVE  /\ Tier(b) \in ActionTypes /\ Tier(b) # ConfirmType
         /\ RollbackTier(b) \in ActionTypes /\ RollbackTier(b) # ConfirmType
<1>1. ActionOf[b] \in {"create", "modify", "delete"}
  BY ActionAssumption
<1>. QED
  BY <1>1 DEF Tier, RollbackTier, ActionTypes, ConfirmType

LEMMA TargetType ==
  ASSUME NEW b \in Bundles
  PROVE  Target(b) \in Versions
BY DEF Target, Versions

\* What a command's steps do to the table of processes.
LEMMA ProcTypes ==
  ASSUME TypeOK, NEW p \in Procs, NEW c \in Command, proc' = [proc EXCEPT ![p] = c]
  PROVE  /\ proc' \in [Procs -> Command] /\ proc'[p] = c
         /\ \A q \in Procs \ {p} : proc'[q] = proc[q]
BY DEF TypeOK

LEMMA StartCommand ==
  ASSUME TypeOK, NEW p \in Procs, NEW b \in Bundles, NEW id \in GateIds \cup {0},
         NEW pc \in {"proposed", "testing", "snapshot", "prepared", "undo"},
         Start(p, b, pc, id)
  PROVE  \E c \in Command :
           /\ c.pc = pc /\ c.bundle = b /\ c.copy = manifests[b] /\ c.gate = id
           /\ proc' = [proc EXCEPT ![p] = c]
<1> DEFINE c == [Idle EXCEPT !.pc = pc, !.bundle = b, !.copy = manifests[b], !.gate = id]
<1>1. Idle \in Command /\ manifests[b] \in Manifest
  BY IdleType DEF TypeOK
<1>2. c \in Command /\ c.pc = pc /\ c.bundle = b /\ c.copy = manifests[b] /\ c.gate = id
  BY <1>1 DEF Command
<1>3. proc' = [proc EXCEPT ![p] = c]
  BY DEF Start
<1>. QED
  BY <1>2, <1>3

LEMMA GotoCommand ==
  ASSUME TypeOK, NEW p \in Procs, NEW ok \in BOOLEAN,
         NEW pc \in {"deploy", "deploy_audit", "deploy_save", "undo_audit", "undo_save"},
         Goto(p, pc, ok)
  PROVE  \E c \in Command :
           /\ c.pc = pc /\ c.ok = ok /\ c.bundle = proc[p].bundle /\ c.copy = proc[p].copy
           /\ proc' = [proc EXCEPT ![p] = c]
<1> DEFINE c == [proc[p] EXCEPT !.pc = pc, !.ok = ok]
<1>1. proc[p] \in Command
  BY DEF TypeOK
<1>2. /\ c \in Command /\ c.pc = pc /\ c.ok = ok /\ c.bundle = proc[p].bundle
      /\ c.copy = proc[p].copy
  BY <1>1 DEF Command
<1>3. proc' = [proc EXCEPT ![p] = c]
  BY <1>1 DEF Goto, TypeOK
<1>. QED
  BY <1>2, <1>3

-----------------------------------------------------------------------------
(* What no step takes back. *)

\* Of the gates: what bundle each is for, and what has been approved.
GatesStay ==
  /\ \A g, b : \A undo : GateFor(g, b, undo) => GateFor(g, b, undo)'
  /\ \A b \in Bundles : /\ DeployApproved(b) => DeployApproved(b)'
                        /\ RollbackApproved(b) => RollbackApproved(b)'

\* And of the rest: passed tests, audit rows, and what a revert package holds.
Grows ==
  /\ passed \subseteq passed' /\ audit \subseteq audit'
  /\ GatesStay
  /\ \A b \in Bundles : /\ revert[b] # "none" => revert'[b] # "none"
                        /\ revert[b] \in Versions => revert'[b] \in Versions

LEMMA TracksStays ==
  ASSUME Grows, NEW b, NEW m, Tracks(b, m)
  PROVE  Tracks(b, m)'
BY DEF Grows, GatesStay, Tracks

LEMMA WorksStays ==
  ASSUME Grows, NEW c, Works(c)
  PROVE  Works(c)'
<1>. SUFFICES ASSUME c.pc # "idle" PROVE Works(c)'
  BY DEF Works
<1>1. Tracks(c.bundle, c.copy)'
  BY TracksStays DEF Works
<1>. QED
  BY <1>1 DEF Grows, GatesStay, Works

\* A manifest that one command replaces, a command that goes on, and all the
\* others as they were.
LEMMA AllTrack ==
  ASSUME BundlesIInv, Grows, NEW b \in Bundles, NEW m, Tracks(b, m)',
         manifests' = [manifests EXCEPT ![b] = m]
  PROVE  \A k \in Bundles : Tracks(k, manifests[k])'
<1>. SUFFICES ASSUME NEW k \in Bundles PROVE Tracks(k, manifests[k])'
  OBVIOUS
<1>1. CASE k = b
  <2>1. manifests'[k] = m
    BY <1>1 DEF BundlesIInv, TypeOK
  <2>. QED
    BY <1>1, <2>1 DEF Tracks
<1>2. CASE k # b
  <2>1. manifests'[k] = manifests[k]
    BY <1>2 DEF BundlesIInv, TypeOK
  <2>2. PICK n : n = manifests[k]
    OBVIOUS
  <2>3. Tracks(k, n)'
    BY <2>2, TracksStays DEF BundlesIInv
  <2>. QED
    BY <2>1, <2>2, <2>3 DEF Tracks
<1>. QED
  BY <1>1, <1>2

LEMMA NoneTrack ==
  ASSUME BundlesIInv, Grows, UNCHANGED manifests
  PROVE  \A k \in Bundles : Tracks(k, manifests[k])'
<1>. SUFFICES ASSUME NEW k \in Bundles PROVE Tracks(k, manifests[k])'
  OBVIOUS
<1>1. PICK n : n = manifests[k]
  OBVIOUS
<1>2. Tracks(k, n)'
  BY <1>1, TracksStays DEF BundlesIInv
<1>. QED
  BY <1>1, <1>2 DEF Tracks

LEMMA AllWork ==
  ASSUME BundlesIInv, Grows, NEW p \in Procs, NEW c \in Command, Works(c)',
         proc' = [proc EXCEPT ![p] = c]
  PROVE  \A q \in Procs : Works(proc[q])'
<1>. SUFFICES ASSUME NEW q \in Procs PROVE Works(proc[q])'
  OBVIOUS
<1>0. /\ proc'[p] = c
      /\ \A o \in Procs \ {p} : proc'[o] = proc[o]
  BY ProcTypes DEF BundlesIInv
<1>1. CASE q = p
  BY <1>0, <1>1 DEF Works, Tracks
<1>2. CASE q # p
  <2>1. PICK n : n = proc[q]
    OBVIOUS
  <2>2. Works(n)'
    BY <2>1, WorksStays DEF BundlesIInv
  <2>. QED
    BY <1>0, <1>2, <2>1, <2>2 DEF Works, Tracks
<1>. QED
  BY <1>1, <1>2

LEMMA NoneWork ==
  ASSUME BundlesIInv, Grows, UNCHANGED proc
  PROVE  \A q \in Procs : Works(proc[q])'
<1>. SUFFICES ASSUME NEW q \in Procs PROVE Works(proc[q])'
  OBVIOUS
<1>1. PICK n : n = proc[q]
  OBVIOUS
<1>2. Works(n)'
  BY <1>1, WorksStays DEF BundlesIInv
<1>. QED
  BY <1>1, <1>2 DEF Works, Tracks

\* A command that ends is an idle process.
LEMMA IdleWorks == Works(Idle)'
BY IdleType DEF Works

-----------------------------------------------------------------------------
(* The gates. *)

\* A row that is decided stays as it is, and stays what it is about.
Settled(g) ==
  /\ gates'[g].action = gates[g].action /\ gates'[g].parent = gates[g].parent
  /\ gates[g].status \in Decided => gates'[g] = gates[g]

\* Where rows settle and time goes on, what was approved stays approved.
LEMMA ApprovalsStay ==
  ASSUME TypeOK, lastId <= lastId', clock <= clock', lastId' \in Nat, clock' \in Nat,
         GatesLinked, \A g \in GateIds : g <= lastId => Settled(g) /\ about'[g] = about[g]
  PROVE  GatesStay
<1>1. lastId \in Nat /\ clock \in Nat /\ gates \in [GateIds -> Row(GateIds)]
  BY BoundsAssumption DEF TypeOK
<1>2. \A g \in GateIds : gates[g].status # "none" => g <= lastId
  <2>. SUFFICES ASSUME NEW g \in GateIds, gates[g].status # "none", ~ g <= lastId
                PROVE  FALSE
    OBVIOUS
  <2>1. g > lastId
    BY <1>1 DEF GateIds
  <2>. QED
    BY <2>1 DEF GatesLinked, NoRow
<1>3. \A g, b : \A undo : GateFor(g, b, undo) => GateFor(g, b, undo)'
  BY <1>1 DEF GateFor, GateIds
<1>4. \A g \in GateIds : gates[g].status \in Decided => gates'[g] = gates[g] /\ about'[g] = about[g]
  BY <1>2 DEF Settled, Decided
<1>5. ASSUME NEW b \in Bundles, DeployApproved(b) PROVE DeployApproved(b)'
  <2>1. PICK g \in GateIds :
          /\ about[g] = [bundle |-> b, undo |-> FALSE]
          /\ IF ActionOf[b] = "delete"
             THEN /\ gates[g].status = "approved_primary"
                  /\ gates[g].cooldownUntil <= clock
                  /\ \E c \in GateIds : /\ Confirms(gates, c, g)
                                        /\ gates[c].status = "approved"
                                        /\ about[c] = about[g]
             ELSE gates[g].status = "approved" /\ gates[g].action = Tier(b)
    BY <1>5 DEF DeployApproved
  <2>2. CASE ActionOf[b] = "delete"
    <3>1. PICK c \in GateIds : /\ Confirms(gates, c, g) /\ gates[c].status = "approved"
                               /\ about[c] = about[g]
      BY <2>1, <2>2
    <3>2. /\ gates'[g] = gates[g] /\ about'[g] = about[g] /\ gates'[c] = gates[c]
          /\ about'[c] = about[c]
      BY <1>4, <2>1, <2>2, <3>1 DEF Decided
    <3>3. gates[g].cooldownUntil \in Nat
      BY <1>1 DEF Row
    <3>4. gates'[g].cooldownUntil <= clock'
      BY <1>1, <2>1, <2>2, <3>2, <3>3
    <3>. QED
      BY <2>1, <2>2, <3>1, <3>2, <3>4 DEF DeployApproved, Confirms
  <2>3. CASE ActionOf[b] # "delete"
    <3>1. gates'[g] = gates[g] /\ about'[g] = about[g]
      BY <1>4, <2>1, <2>3 DEF Decided
    <3>. QED
      BY <2>1, <2>3, <3>1 DEF DeployApproved, Tier
  <2>. QED
    BY <2>2, <2>3
<1>6. ASSUME NEW b \in Bundles, RollbackApproved(b) PROVE RollbackApproved(b)'
  BY <1>4, <1>6 DEF RollbackApproved, Decided, RollbackTier
<1>. QED
  BY <1>3, <1>5, <1>6 DEF GatesStay

\* A row for the table that, if it confirms a gate, confirms a cooled primary
\* with the primary's own payload.
MayConfirm(row, payload) ==
  \A g \in GateIds : row.action = ConfirmType /\ row.parent = g =>
    /\ gates[g].status = "approved_primary" /\ gates[g].cooldownUntil <= clock
    /\ payload = about[g]

\* A new row: all that stood stands, if what it confirms may be confirmed.
LEMMA NewGate ==
  ASSUME TypeOK, GatesLinked, NEW id, id = lastId + 1, lastId < MaxGates, lastId' = id,
         NEW row \in Row(GateIds), gates' = [gates EXCEPT ![id] = row],
         NEW payload \in Payload, about' = [about EXCEPT ![id] = payload], UNCHANGED clock,
         MayConfirm(row, payload)
  PROVE  /\ gates' \in [GateIds -> Row(GateIds)] /\ lastId' \in 0 .. MaxGates
         /\ about' \in [GateIds -> Payload]
         /\ GatesLinked' /\ id \in GateIds /\ id <= lastId' /\ about'[id] = payload
         /\ GatesStay
<1>1. /\ lastId \in Nat /\ MaxGates \in Nat /\ id \in GateIds /\ clock \in Nat
      /\ lastId' \in 0 .. MaxGates
  BY BoundsAssumption DEF TypeOK, GateIds
<1>3. /\ gates' \in [GateIds -> Row(GateIds)] /\ gates'[id] = row
      /\ \A g \in GateIds \ {id} : gates'[g] = gates[g]
  BY <1>1 DEF TypeOK
<1>4. /\ about' \in [GateIds -> Payload] /\ about'[id] = payload
      /\ \A g \in GateIds \ {id} : about'[g] = about[g]
  BY <1>1 DEF TypeOK
<1>5. \A g \in GateIds : gates[g].status = "approved_primary" => g # id
  <2>1. id > lastId
    BY <1>1
  <2>. QED
    BY <1>1, <2>1 DEF GatesLinked, NoRow
<1>6. GatesLinked'
  <2>1. ASSUME NEW g \in GateIds, g > lastId' PROVE gates'[g] = NoRow
    <3>1. g # id /\ g > lastId
      BY <1>1, <2>1 DEF GateIds
    <3>. QED
      BY <1>3, <3>1 DEF GatesLinked
  <2>2. ASSUME NEW g \in GateIds, NEW c \in GateIds, Confirms(gates', c, g)
        PROVE  /\ gates'[g].status = "approved_primary" /\ gates'[g].cooldownUntil <= clock'
               /\ about'[c] = about'[g]
    <3>1. CASE c = id
      <4>1. /\ gates[g].status = "approved_primary" /\ gates[g].cooldownUntil <= clock
            /\ payload = about[g]
        BY <1>3, <2>2, <3>1 DEF Confirms, MayConfirm
      <4>. QED
        BY <1>3, <1>4, <1>5, <3>1, <4>1
    <3>2. CASE c # id
      <4>1. Confirms(gates, c, g)
        BY <1>3, <2>2, <3>2 DEF Confirms
      <4>. QED
        BY <1>3, <1>4, <1>5, <3>2, <4>1 DEF GatesLinked
    <3>. QED
      BY <3>1, <3>2
  <2>. QED
    BY <2>1, <2>2 DEF GatesLinked
<1>7. \A g \in GateIds : g <= lastId => Settled(g) /\ about'[g] = about[g]
  BY <1>1, <1>3, <1>4 DEF Settled, GateIds
<1>8. GatesStay
  BY <1>1, <1>7, ApprovalsStay
<1>. QED
  BY <1>1, <1>3, <1>4, <1>6, <1>8

\* The gate of a bundle, when it is opened.
LEMMA InsertStep ==
  ASSUME TypeOK, GatesLinked, NEW b \in Bundles, NEW undo \in BOOLEAN, UNCHANGED clock,
         NEW action \in ActionTypes \ {ConfirmType},
         Insert(action, 0, [bundle |-> b, undo |-> undo]), NEW id, id = lastId + 1
  PROVE  /\ gates' \in [GateIds -> Row(GateIds)] /\ lastId' \in 0 .. MaxGates
         /\ about' \in [GateIds -> Payload]
         /\ GatesLinked' /\ GateFor(id, b, undo)' /\ id \in GateIds
         /\ GatesStay
<1> DEFINE row == NewRow(action, clock, 0)
           payload == [bundle |-> b, undo |-> undo]
<1>1. /\ lastId < MaxGates /\ lastId' = id /\ gates' = [gates EXCEPT ![id] = row]
      /\ about' = [about EXCEPT ![id] = payload] /\ clock \in Nat
  BY DEF Insert, TypeOK
<1>2. row \in Row(GateIds) /\ row.action # ConfirmType
  BY <1>1, NewRowType
<1>3. payload \in Payload
  BY DEF Payload
<1>4. MayConfirm(row, payload)
  BY <1>2 DEF MayConfirm
<1>. HIDE DEF row, payload
<1>5. /\ gates' \in [GateIds -> Row(GateIds)] /\ lastId' \in 0 .. MaxGates
      /\ about' \in [GateIds -> Payload]
      /\ GatesLinked' /\ id \in GateIds /\ id <= lastId' /\ about'[id] = payload
      /\ GatesStay
  BY <1>1, <1>2, <1>3, <1>4, NewGate
<1>6. GateFor(id, b, undo)'
  BY <1>5 DEF GateFor, payload
<1>. QED
  BY <1>5, <1>6

\* The UPDATE of a decision keeps a row a row.
LEMMA ApplyDecisionType ==
  ASSUME NEW row \in Row(GateIds), row.status = "pending", NEW approvals \in Seq(Approval),
         NEW status \in Statuses, NEW now \in Nat
  PROVE  /\ ApplyDecision(row, approvals, status, now) \in Row(GateIds)
         /\ ApplyDecision(row, approvals, status, now).action = row.action
         /\ ApplyDecision(row, approvals, status, now).parent = row.parent
<1>1. Cooldown \in Nat
  BY CooldownAssumption
<1>2. ApplyDecision(row, approvals, status, now) \in Row(GateIds)
  BY <1>1 DEF ApplyDecision, Row
<1>. QED
  BY <1>2 DEF ApplyDecision, Row

\* What Grows asks of the steps that leave bundles, tests, audit rows and
\* revert packages alone.
LEMMA GateGrows ==
  ASSUME UNCHANGED <<passed, audit, revert>>, GatesStay
  PROVE  Grows
BY DEF Grows

LEMMA SameRestorable ==
  ASSUME Restorable, UNCHANGED <<prod, revert>>, passed \subseteq passed'
  PROVE  Restorable'
BY DEF Restorable, CanGoBack

LEMMA DecideStep ==
  ASSUME BundlesIInv, NEW g \in GateIds, NEW who \in Approvers, NEW approved \in BOOLEAN,
         Decide(g, who, approved)
  PROVE  BundlesIInv'
<1> DEFINE seen == Append(gates[g].approvals, [approver |-> who, approved |-> approved])
           status == DecidedStatus(gates[g].action, seen, approved)
           row == ApplyDecision(gates[g], seen, status, clock)
<1>1. /\ gates[g].status = "pending" /\ gates' = [gates EXCEPT ![g] = row]
      /\ UNCHANGED <<lastId, about, clock, bundles, manifests, revert, passed, prod,
                     deploysToday, audit, proc, crashes>>
  BY DEF Decide
<1>2. /\ TypeOK /\ GatesLinked /\ gates \in [GateIds -> Row(GateIds)] /\ clock \in Nat
      /\ gates[g] \in Row(GateIds)
  BY DEF BundlesIInv, TypeOK
<1>3. seen \in Seq(Approval)
  BY <1>2 DEF Row, Approval, Deciding
<1>4. status \in Statuses
  BY DEF DecidedStatus, Statuses
<1>. HIDE DEF seen, status
<1>5. row \in Row(GateIds) /\ row.action = gates[g].action /\ row.parent = gates[g].parent
  BY <1>1, <1>2, <1>3, <1>4, ApplyDecisionType
<1>. HIDE DEF row
<1>6. /\ gates' \in [GateIds -> Row(GateIds)] /\ gates'[g] = row
      /\ \A k \in GateIds \ {g} : gates'[k] = gates[k]
  BY <1>1, <1>2, <1>5
<1>7. \A k \in GateIds : Settled(k) /\ about'[k] = about[k]
  BY <1>1, <1>5, <1>6 DEF Settled, Decided
<1>8. GatesStay
  <2>1. lastId \in Nat /\ lastId' \in Nat /\ clock' \in Nat /\ lastId <= lastId' /\ clock <= clock'
    BY <1>1, <1>2, BoundsAssumption DEF TypeOK
  <2>. QED
    BY <1>2, <1>7, <2>1, ApprovalsStay
<1>9. GatesLinked'
  <2>1. \A k \in GateIds : k > lastId => k # g
    BY <1>1 DEF BundlesIInv, GatesLinked, NoRow
  <2>2. \A k, c \in GateIds : Confirms(gates', c, k) => Confirms(gates, c, k)
    BY <1>7 DEF Confirms, Settled
  <2>3. \A k \in GateIds : gates[k].status = "approved_primary" => gates'[k] = gates[k]
    BY <1>7 DEF Settled, Decided
  <2>. QED
    BY <1>1, <1>2, <1>6, <2>1, <2>2, <2>3 DEF GatesLinked
<1>10. Grows
  BY <1>1, <1>8, GateGrows
<1>11. TypeOK'
  BY <1>1, <1>2, <1>6 DEF TypeOK
<1>12. Restorable'
  BY <1>1, SameRestorable DEF BundlesIInv
<1>. QED
  BY <1>1, <1>9, <1>10, <1>11, <1>12, NoneTrack, NoneWork DEF BundlesIInv

LEMMA ElevateStep ==
  ASSUME BundlesIInv, NEW g \in GateIds, Elevate(g)
  PROVE  BundlesIInv'
<1> DEFINE new == NewRow(ConfirmType, clock, g)
<1>1. PICK id : id = lastId + 1
  OBVIOUS
<1>2. /\ lastId < MaxGates /\ lastId' = id
      /\ gates' = [gates EXCEPT ![id] = [new EXCEPT !.parent = g]]
      /\ about' = [about EXCEPT ![id] = about[g]]
      /\ UNCHANGED <<clock, bundles, manifests, revert, passed, prod, deploysToday, audit,
                     proc, crashes>>
  BY <1>1 DEF Elevate
<1>3. gates[g].status = "approved_primary" /\ gates[g].cooldownUntil <= clock
  BY DEF Elevate, ReadyPrimaries
<1>4. TypeOK /\ GatesLinked /\ clock \in Nat /\ about[g] \in Payload
  BY DEF BundlesIInv, TypeOK
<1>5. ConfirmType \in ActionTypes
  BY DEF ConfirmType, ActionTypes
<1>6. new \in Row(GateIds)
  BY <1>4, <1>5, NewRowType
<1>. HIDE DEF new
<1>7. PICK row \in Row(GateIds) : row.parent = g /\ gates' = [gates EXCEPT ![id] = row]
  BY <1>2, <1>6 DEF Row
<1>8. /\ gates' \in [GateIds -> Row(GateIds)] /\ lastId' \in 0 .. MaxGates
      /\ about' \in [GateIds -> Payload] /\ GatesLinked'
      /\ GatesStay
  <2>1. PICK payload \in Payload : payload = about[g]
    BY <1>4
  <2>2. MayConfirm(row, payload)
    BY <1>3, <1>7, <2>1 DEF MayConfirm
  <2>3. about' = [about EXCEPT ![id] = payload] /\ UNCHANGED clock
    BY <1>2, <2>1
  <2>. QED
    BY <1>1, <1>2, <1>4, <1>7, <2>2, <2>3, NewGate
<1>9. Grows
  BY <1>2, <1>8, GateGrows
<1>10. TypeOK'
  BY <1>2, <1>4, <1>8 DEF TypeOK
<1>11. Restorable'
  BY <1>2, SameRestorable DEF BundlesIInv
<1>. QED
  BY <1>2, <1>8, <1>9, <1>10, <1>11, NoneTrack, NoneWork DEF BundlesIInv

\* Time, and whatever else leaves the gates as they are.
LEMMA SameGates ==
  ASSUME TypeOK, GatesLinked, UNCHANGED govVars, clock' \in Nat, clock <= clock'
  PROVE  /\ GatesLinked'
         /\ GatesStay
<1>1. UNCHANGED <<gates, lastId, about>>
  BY DEF govVars
<1>2. /\ lastId \in Nat /\ clock \in Nat /\ lastId' \in Nat /\ lastId <= lastId'
      /\ gates \in [GateIds -> Row(GateIds)]
  BY <1>1, BoundsAssumption DEF TypeOK
<1>3. \A g \in GateIds : Settled(g) /\ about'[g] = about[g]
  BY <1>1 DEF Settled
<1>4. \A g \in GateIds : gates[g].cooldownUntil <= clock => gates[g].cooldownUntil <= clock'
  <2>. SUFFICES ASSUME NEW g \in GateIds, gates[g].cooldownUntil <= clock
                PROVE  gates[g].cooldownUntil <= clock'
    OBVIOUS
  <2>1. gates[g].cooldownUntil \in Nat
    BY <1>2 DEF Row
  <2>. QED
    BY <1>2, <2>1
<1>5. GatesLinked'
  BY <1>1, <1>4 DEF GatesLinked, Confirms
<1>. QED
  BY <1>2, <1>3, <1>5, ApprovalsStay

LEMMA TickStep ==
  ASSUME BundlesIInv, Tick
  PROVE  BundlesIInv'
<1>1. /\ clock' = clock + 1 /\ clock \in Nat /\ deploysToday' = 0 /\ DeployLimit \in Nat
      /\ UNCHANGED govVars
      /\ UNCHANGED <<bundles, manifests, revert, passed, prod, audit, proc, crashes>>
  BY BoundsAssumption DEF Tick, BundlesIInv, TypeOK
<1>2. clock' \in Nat /\ clock <= clock'
  BY <1>1
<1>3. Grows /\ GatesLinked'
  BY <1>1, <1>2, SameGates, GateGrows DEF BundlesIInv
<1>4. TypeOK'
  BY <1>1, <1>2 DEF BundlesIInv, TypeOK, govVars
<1>5. Restorable'
  BY <1>1, SameRestorable DEF BundlesIInv
<1>. QED
  BY <1>1, <1>3, <1>4, <1>5, NoneTrack, NoneWork DEF BundlesIInv

-----------------------------------------------------------------------------
(* The commands. *)

\* A step of a command that leaves the gates alone and goes on as c.
LEMMA CommandStep ==
  ASSUME BundlesIInv, NEW p \in Procs, NEW c \in Command, proc' = [proc EXCEPT ![p] = c],
         UNCHANGED <<govVars, clock, bundles>>,
         deploysToday' \in 0 .. DeployLimit, crashes' \in Nat,
         passed \subseteq passed', passed' \subseteq Bundles,
         audit \subseteq audit', audit' \subseteq AuditRow,
         prod' \in Versions, Restorable',
         revert' \in [Bundles -> Versions \cup {"none", "empty"}],
         \A k \in Bundles : /\ revert[k] # "none" => revert'[k] # "none"
                            /\ revert[k] \in Versions => revert'[k] \in Versions,
         Grows => Works(c)', manifests' \in [Bundles -> Manifest],
         Grows => \A k \in Bundles : Tracks(k, manifests[k])'
  PROVE  BundlesIInv'
<1>1. TypeOK /\ GatesLinked /\ UNCHANGED <<gates, lastId, about>> /\ clock \in Nat
  BY DEF BundlesIInv, TypeOK, govVars
<1>2. /\ GatesLinked'
      /\ GatesStay
  BY <1>1, SameGates
<1>3. Grows
  BY <1>2 DEF Grows
<1>4. proc' \in [Procs -> Command]
  BY <1>1, ProcTypes
<1>5. \A q \in Procs : Works(proc[q])'
  BY <1>3, AllWork
<1>7. TypeOK'
  BY <1>1, <1>4 DEF TypeOK
<1>. QED
  BY <1>2, <1>3, <1>5, <1>7 DEF BundlesIInv

\* A step that only moves the command on.
LEMMA QuietStep ==
  ASSUME BundlesIInv, NEW p \in Procs, NEW c \in Command, proc' = [proc EXCEPT ![p] = c],
         UNCHANGED <<govVars, clock, bundles, manifests, revert, passed, prod, audit>>,
         deploysToday' \in 0 .. DeployLimit, crashes' \in Nat,
         Grows => Works(c)'
  PROVE  BundlesIInv'
<1>1. Restorable'
  BY SameRestorable DEF BundlesIInv
<1>2. /\ passed' \subseteq Bundles /\ audit' \subseteq AuditRow /\ prod' \in Versions
      /\ revert' \in [Bundles -> Versions \cup {"none", "empty"}]
  BY DEF BundlesIInv, TypeOK
<1>3. manifests' \in [Bundles -> Manifest]
  BY DEF BundlesIInv, TypeOK
<1>4. Grows => \A k \in Bundles : Tracks(k, manifests[k])'
  BY NoneTrack
<1>. QED
  BY <1>1, <1>2, <1>3, <1>4, CommandStep

\* The manifest a command reads, as its copy.
LEMMA CopyTracks ==
  ASSUME BundlesIInv, Grows, NEW b \in Bundles, NEW m, m = manifests[b]
  PROVE  Tracks(b, m)'
BY TracksStays DEF BundlesIInv

LEMMA ProposeOpenStep ==
  ASSUME BundlesIInv, NEW p \in Procs, NEW b \in Bundles, ProposeOpen(p, b)
  PROVE  BundlesIInv'
<1>1. TypeOK /\ GatesLinked /\ Restorable
  BY DEF BundlesIInv
<1>2. PICK id : id = lastId + 1
  OBVIOUS
<1>3. /\ Insert(Tier(b), 0, [bundle |-> b, undo |-> FALSE]) /\ Start(p, b, "proposed", id)
      /\ bundles' = bundles \cup {b}
      /\ UNCHANGED <<clock, manifests, revert, passed, prod, deploysToday, audit, crashes>>
  BY <1>2 DEF ProposeOpen
<1>4. Tier(b) \in ActionTypes \ {ConfirmType}
  BY TierType
<1>5. /\ gates' \in [GateIds -> Row(GateIds)] /\ lastId' \in 0 .. MaxGates
      /\ about' \in [GateIds -> Payload]
      /\ GatesLinked' /\ GateFor(id, b, FALSE)' /\ id \in GateIds
      /\ GatesStay
  BY <1>1, <1>2, <1>3, <1>4, InsertStep
<1>6. PICK c \in Command : /\ c.pc = "proposed" /\ c.bundle = b /\ c.copy = manifests[b]
                           /\ c.gate = id /\ proc' = [proc EXCEPT ![p] = c]
  BY <1>1, <1>3, <1>5, StartCommand
<1>7. Grows
  BY <1>3, <1>5, GateGrows
<1>8. Works(c)'
  <2>1. Tracks(b, c.copy)'
    BY <1>6, <1>7, CopyTracks
  <2>. QED
    BY <1>5, <1>6, <2>1 DEF Works
<1>9. TypeOK'
  <2>1. proc' \in [Procs -> Command]
    BY <1>1, <1>6, ProcTypes
  <2>. QED
    BY <1>1, <1>3, <1>5, <2>1 DEF TypeOK
<1>10. Restorable'
  BY <1>1, <1>3, SameRestorable
<1>11. \A q \in Procs : Works(proc[q])'
  BY <1>6, <1>7, <1>8, AllWork
<1>12. \A k \in Bundles : Tracks(k, manifests[k])'
  BY <1>3, <1>7, NoneTrack
<1>. QED
  BY <1>5, <1>9, <1>10, <1>11, <1>12 DEF BundlesIInv

LEMMA PrepareOpenStep ==
  ASSUME BundlesIInv, NEW p \in Procs, NEW b \in Bundles, PrepareOpen(p, b)
  PROVE  BundlesIInv'
<1>1. TypeOK /\ GatesLinked /\ Restorable
  BY DEF BundlesIInv
<1>2. PICK id : id = lastId + 1
  OBVIOUS
<1>3. /\ Insert(RollbackTier(b), 0, [bundle |-> b, undo |-> TRUE])
      /\ Start(p, b, "prepared", id)
      /\ UNCHANGED <<clock, bundles, manifests, revert, passed, prod, deploysToday, audit,
                     crashes>>
  BY <1>2 DEF PrepareOpen
<1>4. RollbackTier(b) \in ActionTypes \ {ConfirmType}
  BY TierType
<1>5. /\ gates' \in [GateIds -> Row(GateIds)] /\ lastId' \in 0 .. MaxGates
      /\ about' \in [GateIds -> Payload]
      /\ GatesLinked' /\ GateFor(id, b, TRUE)' /\ id \in GateIds
      /\ GatesStay
  BY <1>1, <1>2, <1>3, <1>4, InsertStep
<1>6. PICK c \in Command : /\ c.pc = "prepared" /\ c.bundle = b /\ c.copy = manifests[b]
                           /\ c.gate = id /\ proc' = [proc EXCEPT ![p] = c]
  BY <1>1, <1>3, <1>5, StartCommand
<1>7. Grows
  BY <1>3, <1>5, GateGrows
<1>8. Works(c)'
  <2>1. Tracks(b, c.copy)'
    BY <1>6, <1>7, CopyTracks
  <2>. QED
    BY <1>5, <1>6, <2>1 DEF Works
<1>9. TypeOK'
  <2>1. proc' \in [Procs -> Command]
    BY <1>1, <1>6, ProcTypes
  <2>. QED
    BY <1>1, <1>3, <1>5, <2>1 DEF TypeOK
<1>10. Restorable'
  BY <1>1, <1>3, SameRestorable
<1>11. \A q \in Procs : Works(proc[q])'
  BY <1>6, <1>7, <1>8, AllWork
<1>12. \A k \in Bundles : Tracks(k, manifests[k])'
  BY <1>3, <1>7, NoneTrack
<1>. QED
  BY <1>5, <1>9, <1>10, <1>11, <1>12 DEF BundlesIInv

LEMMA TestStartStep ==
  ASSUME BundlesIInv, NEW p \in Procs, NEW b \in Bundles, TestStart(p, b)
  PROVE  BundlesIInv'
<1>1. PICK c \in Command : /\ c.pc = "testing" /\ c.bundle = b /\ c.copy = manifests[b]
                           /\ proc' = [proc EXCEPT ![p] = c]
  BY StartCommand DEF BundlesIInv, TestStart
<1>2. Grows => Works(c)'
  <2>. SUFFICES ASSUME Grows PROVE Works(c)'
    OBVIOUS
  <2>1. Tracks(b, c.copy)'
    BY <1>1, CopyTracks
  <2>. QED
    BY <1>1, <2>1 DEF Works
<1>3. /\ UNCHANGED <<govVars, clock, bundles, manifests, revert, passed, prod, audit>>
      /\ deploysToday' \in 0 .. DeployLimit /\ crashes' \in Nat
  BY DEF TestStart, BundlesIInv, TypeOK
<1>. QED
  BY <1>1, <1>2, <1>3, QuietStep

\* _verify_gate and the refusals of deploy() let through what was approved: the
\* gate is the bundle's own, and what confirms it is about the same bundle.
LEMMA VerifiedApproved ==
  ASSUME BundlesIInv, NEW b \in Bundles, manifests[b].gate # 0, GateVerified(b, manifests[b])
  PROVE  DeployApproved(b)
<1> DEFINE g == manifests[b].gate
<1>1. g \in GateIds /\ about[g] = [bundle |-> b, undo |-> FALSE]
  BY DEF BundlesIInv, Tracks, GateFor
<1>2. CASE ActionOf[b] = "delete"
  <2>1. PICK c \in GateIds : Confirms(gates, c, g) /\ gates[c].status = "approved"
    BY <1>2 DEF GateVerified, ConfirmedBy
  <2>2. /\ gates[g].status = "approved_primary" /\ gates[g].cooldownUntil <= clock
        /\ about[c] = about[g]
    BY <1>1, <2>1 DEF BundlesIInv, GatesLinked
  <2>. QED
    BY <1>1, <1>2, <2>1, <2>2 DEF DeployApproved
<1>3. CASE ActionOf[b] # "delete"
  BY <1>1, <1>3 DEF GateVerified, IsApprovedGate, DeployApproved
<1>. QED
  BY <1>2, <1>3

LEMMA DeployStartStep ==
  ASSUME BundlesIInv, NEW p \in Procs, NEW b \in Bundles, DeployStart(p, b)
  PROVE  BundlesIInv'
<1>1. PICK c \in Command : /\ c.pc = "snapshot" /\ c.bundle = b /\ c.copy = manifests[b]
                           /\ proc' = [proc EXCEPT ![p] = c]
  BY StartCommand DEF BundlesIInv, DeployStart
<1>2. b \in passed /\ DeployApproved(b) /\ manifests[b].gate # 0
  BY VerifiedApproved DEF DeployStart, BundlesIInv, Tracks
<1>3. Grows => Works(c)'
  <2>. SUFFICES ASSUME Grows PROVE Works(c)'
    OBVIOUS
  <2>1. Tracks(b, c.copy)'
    BY <1>1, CopyTracks
  <2>. QED
    BY <1>1, <1>2, <2>1 DEF Works, Grows, GatesStay
<1>4. /\ UNCHANGED <<govVars, clock, bundles, manifests, revert, passed, prod, audit>>
      /\ deploysToday' \in 0 .. DeployLimit /\ crashes' \in Nat
  BY BoundsAssumption DEF DeployStart, BundlesIInv, TypeOK
<1>. QED
  BY <1>1, <1>3, <1>4, QuietStep

LEMMA ExecStartStep ==
  ASSUME BundlesIInv, NEW p \in Procs, NEW b \in Bundles, ExecStart(p, b)
  PROVE  BundlesIInv'
<1>1. PICK c \in Command : /\ c.pc = "undo" /\ c.bundle = b /\ c.copy = manifests[b]
                           /\ proc' = [proc EXCEPT ![p] = c]
  BY StartCommand DEF BundlesIInv, ExecStart
<1>2. RollbackApproved(b) /\ manifests[b].rollbackGate # 0 /\ revert[b] # "none"
  <2>1. GateFor(manifests[b].rollbackGate, b, TRUE)
    BY DEF ExecStart, BundlesIInv, Tracks
  <2>. QED
    BY <2>1 DEF ExecStart, GateFor, RollbackApproved, IsApprovedGate
<1>3. Grows => Works(c)'
  <2>. SUFFICES ASSUME Grows PROVE Works(c)'
    OBVIOUS
  <2>1. Tracks(b, c.copy)'
    BY <1>1, CopyTracks
  <2>. QED
    BY <1>1, <1>2, <2>1 DEF Works, Grows, GatesStay
<1>4. /\ UNCHANGED <<govVars, clock, bundles, manifests, revert, passed, prod, audit>>
      /\ deploysToday' \in 0 .. DeployLimit /\ crashes' \in Nat
  BY DEF ExecStart, BundlesIInv, TypeOK
<1>. QED
  BY <1>1, <1>3, <1>4, QuietStep

\* A command that ends without a trace: it is killed.
LEMMA CrashStep ==
  ASSUME BundlesIInv, NEW p \in Procs, Crash(p)
  PROVE  BundlesIInv'
<1>1. /\ proc' = [proc EXCEPT ![p] = Idle] /\ crashes' \in Nat
      /\ UNCHANGED <<govVars, clock, bundles, manifests, revert, passed, prod, audit>>
      /\ deploysToday' \in 0 .. DeployLimit
  BY DEF Crash, Finish, BundlesIInv, TypeOK
<1>. QED
  BY <1>1, IdleType, IdleWorks, QuietStep

\* A command at work: its bundle, and what it has verified.
LEMMA AtWork ==
  ASSUME BundlesIInv, NEW p \in Procs, proc[p].pc # "idle"
  PROVE  \E c \in Command : c = proc[p] /\ Works(c) /\ c.bundle \in Bundles
BY DEF BundlesIInv, TypeOK, Works

\* A command that ends by writing manifest m of bundle b.
LEMMA SaveStep ==
  ASSUME BundlesIInv, NEW p \in Procs, Finish(p), NEW b \in Bundles, NEW m \in Manifest,
         manifests' = [manifests EXCEPT ![b] = m],
         UNCHANGED <<govVars, clock, bundles, revert, prod, deploysToday, audit, crashes>>,
         passed \subseteq passed', passed' \subseteq Bundles,
         Grows => Tracks(b, m)'
  PROVE  BundlesIInv'
<1>1. TypeOK /\ Restorable'
  BY SameRestorable DEF BundlesIInv
<1>2. proc' = [proc EXCEPT ![p] = Idle]
  BY DEF Finish
<1>3. manifests' \in [Bundles -> Manifest]
  BY <1>1 DEF TypeOK
<1>4. Grows => \A k \in Bundles : Tracks(k, manifests[k])'
  BY AllTrack
<1>5. /\ deploysToday' \in 0 .. DeployLimit /\ crashes' \in Nat /\ audit' \subseteq AuditRow
      /\ prod' \in Versions /\ revert' \in [Bundles -> Versions \cup {"none", "empty"}]
  BY <1>1 DEF TypeOK
<1>. QED
  BY <1>1, <1>2, <1>3, <1>4, <1>5, IdleType, IdleWorks, CommandStep

LEMMA ProposeSaveStep ==
  ASSUME BundlesIInv, NEW p \in Procs, ProposeSave(p)
  PROVE  BundlesIInv'
<1>1. PICK c \in Command : c = proc[p] /\ Works(c) /\ c.bundle \in Bundles
  BY AtWork DEF ProposeSave
<1> DEFINE m == [NoManifest EXCEPT !.status = "proposed", !.gate = c.gate]
<1>2. m \in Manifest
  BY <1>1, NoManifestType DEF Manifest, Command
<1>3. Tracks(c.bundle, m)
  BY <1>1 DEF ProposeSave, Works, Tracks, NoManifest
<1>4. /\ manifests' = [manifests EXCEPT ![c.bundle] = m] /\ Finish(p)
      /\ UNCHANGED <<govVars, clock, bundles, revert, passed, prod, deploysToday, audit, crashes>>
  BY <1>1 DEF ProposeSave
<1>5. passed' \subseteq Bundles
  BY <1>4 DEF BundlesIInv, TypeOK
<1>. HIDE DEF m
<1>6. Grows => Tracks(c.bundle, m)'
  BY <1>3, TracksStays
<1>. QED
  BY <1>1, <1>2, <1>4, <1>5, <1>6, SaveStep

LEMMA TestSaveStep ==
  ASSUME BundlesIInv, NEW p \in Procs, NEW ok \in BOOLEAN, TestSave(p, ok)
  PROVE  BundlesIInv'
<1>1. PICK c \in Command : c = proc[p] /\ Works(c) /\ c.bundle \in Bundles
  BY AtWork DEF TestSave
<1>2. PICK old \in Manifest : old = manifests[c.bundle] /\ Tracks(c.bundle, old)
  BY <1>1 DEF BundlesIInv, TypeOK
<1> DEFINE m == [old EXCEPT !.sandbox = IF ok THEN "passed" ELSE "failed",
                            !.status = IF ok THEN "sandbox_passed" ELSE "sandbox_failed"]
<1>3. /\ m \in Manifest /\ m.gate = old.gate /\ m.rollbackGate = old.rollbackGate
      /\ m.rollback = old.rollback /\ m.status # "deployed" /\ (m.sandbox = "passed" => ok)
  BY DEF Manifest
<1>4. /\ manifests' = [manifests EXCEPT ![c.bundle] = m]
      /\ passed' = IF ok THEN passed \cup {c.bundle} ELSE passed
      /\ Finish(p)
      /\ UNCHANGED <<govVars, clock, bundles, revert, prod, deploysToday, audit, crashes>>
  BY <1>1, <1>2 DEF TestSave, BundlesIInv, TypeOK
<1>5. passed \subseteq passed' /\ passed' \subseteq Bundles /\ (ok => c.bundle \in passed')
  BY <1>1, <1>4 DEF BundlesIInv, TypeOK
<1>. HIDE DEF m
<1>6. Grows => Tracks(c.bundle, m)'
  <2>. SUFFICES ASSUME Grows PROVE Tracks(c.bundle, m)'
    OBVIOUS
  <2>1. Tracks(c.bundle, old)'
    BY <1>2, TracksStays
  <2>. QED
    BY <1>3, <1>5, <2>1 DEF Tracks
<1>. QED
  BY <1>1, <1>3, <1>4, <1>5, <1>6, SaveStep

LEMMA DeploySaveStep ==
  ASSUME BundlesIInv, NEW p \in Procs, DeploySave(p)
  PROVE  BundlesIInv'
<1>1. PICK c \in Command : c = proc[p] /\ Works(c) /\ c.bundle \in Bundles
  BY AtWork DEF DeploySave
<1> DEFINE m == [c.copy EXCEPT !.status = IF c.ok THEN "deployed" ELSE "deploy_failed"]
<1>2. /\ m \in Manifest /\ m.gate = c.copy.gate /\ m.rollbackGate = c.copy.rollbackGate
      /\ m.rollback = c.copy.rollback /\ m.sandbox = c.copy.sandbox
      /\ (m.status = "deployed" => c.ok)
  BY <1>1 DEF Manifest, Command
<1>3. /\ manifests' = [manifests EXCEPT ![c.bundle] = m] /\ Finish(p) /\ c.pc = "deploy_save"
      /\ UNCHANGED <<govVars, clock, bundles, revert, passed, prod, deploysToday, audit, crashes>>
  BY <1>1 DEF DeploySave
<1>4. passed' \subseteq Bundles
  BY <1>3 DEF BundlesIInv, TypeOK
<1>. HIDE DEF m
<1>5. Tracks(c.bundle, m)
  BY <1>1, <1>2, <1>3 DEF Works, Tracks
<1>6. Grows => Tracks(c.bundle, m)'
  BY <1>5, TracksStays
<1>. QED
  BY <1>1, <1>2, <1>3, <1>4, <1>6, SaveStep

LEMMA PrepareSaveStep ==
  ASSUME BundlesIInv, NEW p \in Procs, PrepareSave(p)
  PROVE  BundlesIInv'
<1>1. PICK c \in Command : c = proc[p] /\ Works(c) /\ c.bundle \in Bundles
  BY AtWork DEF PrepareSave
<1> DEFINE m == [c.copy EXCEPT !.rollbackGate = c.gate, !.rollback = "pending"]
<1>2. /\ m \in Manifest /\ m.gate = c.copy.gate /\ m.rollbackGate = c.gate
      /\ m.rollback = "pending" /\ m.sandbox = c.copy.sandbox /\ m.status = c.copy.status
  BY <1>1 DEF Manifest, Command
<1>3. /\ manifests' = [manifests EXCEPT ![c.bundle] = m] /\ Finish(p) /\ c.pc = "prepared"
      /\ UNCHANGED <<govVars, clock, bundles, revert, passed, prod, deploysToday, audit, crashes>>
  BY <1>1 DEF PrepareSave
<1>4. passed' \subseteq Bundles
  BY <1>3 DEF BundlesIInv, TypeOK
<1>. HIDE DEF m
<1>5. Tracks(c.bundle, m)
  BY <1>1, <1>2, <1>3 DEF Works, Tracks
<1>6. Grows => Tracks(c.bundle, m)'
  BY <1>5, TracksStays
<1>. QED
  BY <1>1, <1>2, <1>3, <1>4, <1>6, SaveStep

LEMMA ExecSaveStep ==
  ASSUME BundlesIInv, NEW p \in Procs, ExecSave(p)
  PROVE  BundlesIInv'
<1>1. PICK c \in Command : c = proc[p] /\ Works(c) /\ c.bundle \in Bundles
  BY AtWork DEF ExecSave
<1> DEFINE m == IF c.ok THEN [c.copy EXCEPT !.rollback = "deployed", !.status = "rolled_back"]
                ELSE [c.copy EXCEPT !.rollback = "failed"]
<1>2. /\ m \in Manifest /\ m.gate = c.copy.gate /\ m.rollbackGate = c.copy.rollbackGate
      /\ m.sandbox = c.copy.sandbox /\ (m.rollback = "deployed" => c.ok)
      /\ (m.status = "deployed" => c.copy.status = "deployed")
  <2>1. c.copy \in Manifest
    BY <1>1 DEF Command
  <2>2. CASE c.ok
    BY <2>1, <2>2 DEF Manifest
  <2>3. CASE ~ c.ok
    BY <2>1, <2>3 DEF Manifest
  <2>. QED
    BY <2>2, <2>3
<1>3. /\ manifests' = [manifests EXCEPT ![c.bundle] = m] /\ Finish(p) /\ c.pc = "undo_save"
      /\ UNCHANGED <<govVars, clock, bundles, revert, passed, prod, deploysToday, audit, crashes>>
  BY <1>1 DEF ExecSave
<1>4. passed' \subseteq Bundles
  BY <1>3 DEF BundlesIInv, TypeOK
<1>. HIDE DEF m
<1>5. Tracks(c.bundle, m)
  BY <1>1, <1>2, <1>3 DEF Works, Tracks
<1>6. Grows => Tracks(c.bundle, m)'
  BY <1>5, TracksStays
<1>. QED
  BY <1>1, <1>2, <1>3, <1>4, <1>6, SaveStep

\* The snapshot: what the org holds now can be put back, so the package can.
LEMMA DeploySnapshotStep ==
  ASSUME BundlesIInv, NEW p \in Procs, DeploySnapshot(p)
  PROVE  BundlesIInv'
<1>1. PICK c \in Command : c = proc[p] /\ Works(c) /\ c.bundle \in Bundles
  BY AtWork DEF DeploySnapshot
<1>2. TypeOK /\ Restorable
  BY DEF BundlesIInv
<1>3. PICK k \in Command : /\ k.pc = "deploy" /\ k.bundle = c.bundle /\ k.copy = c.copy
                           /\ proc' = [proc EXCEPT ![p] = k]
  <2>1. PICK no \in BOOLEAN : ~ no /\ no = FALSE
    OBVIOUS
  <2>2. Goto(p, "deploy", no)
    BY <2>1 DEF DeploySnapshot
  <2>. QED
    BY <1>1, <1>2, <2>2, GotoCommand
<1> DEFINE v == IF ActionOf[c.bundle] = "create" THEN "absent" ELSE prod
<1>4. /\ revert' = [revert EXCEPT ![c.bundle] = v] /\ c.pc = "snapshot"
      /\ UNCHANGED <<govVars, clock, bundles, manifests, passed, prod, deploysToday, audit, crashes>>
  BY <1>1 DEF DeploySnapshot
<1>5. v \in Versions /\ CanGoBack(v)
  BY <1>2, BundleAssumption DEF TypeOK, Versions, Restorable, CanGoBack
<1>. HIDE DEF v
<1>6. /\ revert' \in [Bundles -> Versions \cup {"none", "empty"}] /\ revert'[c.bundle] = v
      /\ \A b \in Bundles \ {c.bundle} : revert'[b] = revert[b]
  BY <1>1, <1>2, <1>4, <1>5 DEF TypeOK
<1>7. v # "none"
  BY <1>5, BundleAssumption DEF Versions
<1>8. \A b \in Bundles : /\ revert[b] # "none" => revert'[b] # "none"
                         /\ revert[b] \in Versions => revert'[b] \in Versions
  BY <1>5, <1>6, <1>7
<1>9. Restorable'
  BY <1>2, <1>4, <1>5, <1>6, <1>8 DEF Restorable, CanGoBack
<1>10. Grows => Works(k)'
  <2>. SUFFICES ASSUME Grows PROVE Works(k)'
    OBVIOUS
  <2>1. Works(c)'
    BY <1>1, WorksStays
  <2>. QED
    BY <1>3, <1>4, <1>5, <1>6, <2>1 DEF Works
<1>11. /\ manifests' \in [Bundles -> Manifest] /\ passed' \subseteq Bundles
       /\ audit' \subseteq AuditRow /\ prod' \in Versions /\ crashes' \in Nat
       /\ deploysToday' \in 0 .. DeployLimit
  BY <1>2, <1>4 DEF TypeOK
<1>12. Grows => \A b \in Bundles : Tracks(b, manifests[b])'
  BY <1>4, NoneTrack
<1>. QED
  BY <1>3, <1>4, <1>6, <1>8, <1>9, <1>10, <1>11, <1>12, CommandStep

\* The retrieve that fails: at worst the directory is there, and empty.
LEMMA SnapshotFailsStep ==
  ASSUME BundlesIInv, NEW p \in Procs, SnapshotFails(p)
  PROVE  BundlesIInv'
<1>1. PICK c \in Command : c = proc[p] /\ Works(c) /\ c.bundle \in Bundles
  BY AtWork DEF SnapshotFails
<1>2. TypeOK /\ Restorable
  BY DEF BundlesIInv
<1>3. /\ proc' = [proc EXCEPT ![p] = Idle]
      /\ revert' = [revert EXCEPT ![c.bundle] = IF revert[c.bundle] = "none" THEN "empty"
                                                ELSE revert[c.bundle]]
      /\ UNCHANGED <<govVars, clock, bundles, manifests, passed, prod, deploysToday, audit, crashes>>
  BY <1>1 DEF SnapshotFails, Finish
<1>4. /\ revert' \in [Bundles -> Versions \cup {"none", "empty"}]
      /\ \A b \in Bundles : revert'[b] = revert[b] \/ (revert[b] = "none" /\ revert'[b] = "empty")
  BY <1>1, <1>2, <1>3 DEF TypeOK
<1>5. "none" \notin Versions /\ "empty" \notin Bundles
  BY BundleAssumption DEF Versions
<1>6. \A b \in Bundles : /\ revert[b] # "none" => revert'[b] # "none"
                         /\ revert[b] \in Versions => revert'[b] \in Versions
  BY <1>4, <1>5
<1>7. Restorable'
  BY <1>2, <1>3, <1>4, <1>5, <1>6 DEF Restorable, CanGoBack
<1>8. /\ manifests' \in [Bundles -> Manifest] /\ passed' \subseteq Bundles
      /\ audit' \subseteq AuditRow /\ prod' \in Versions /\ crashes' \in Nat
      /\ deploysToday' \in 0 .. DeployLimit
  BY <1>2, <1>3 DEF TypeOK
<1>9. Grows => \A b \in Bundles : Tracks(b, manifests[b])'
  BY <1>3, NoneTrack
<1>. QED
  BY <1>3, <1>4, <1>6, <1>7, <1>8, <1>9, IdleType, IdleWorks, CommandStep

\* What the org answers, and where the command goes on.
LEMMA CallOrgCommand ==
  ASSUME TypeOK, NEW p \in Procs, NEW result \in Versions,
         NEW auditing \in {"deploy_audit", "undo_audit"},
         NEW saving \in {"deploy_save", "undo_save"},
         CallOrg(p, result, auditing, saving)
  PROVE  /\ prod' \in {prod, result}
         /\ \E k \in Command :
              /\ k.pc = auditing \/ (k.pc = saving /\ ~ k.ok)
              /\ k.bundle = proc[p].bundle /\ k.copy = proc[p].copy
              /\ proc' = [proc EXCEPT ![p] = k]
<1>1. PICK ok \in BOOLEAN, pc \in {auditing, saving} :
        Goto(p, pc, ok) /\ (pc = auditing \/ ~ ok)
  BY DEF CallOrg
<1>2. PICK k \in Command :
        /\ k.pc = pc /\ k.ok = ok /\ k.bundle = proc[p].bundle /\ k.copy = proc[p].copy
        /\ proc' = [proc EXCEPT ![p] = k]
  BY <1>1, GotoCommand
<1>3. prod' \in {prod, result}
  BY DEF CallOrg
<1>4. k.pc = auditing \/ (k.pc = saving /\ ~ k.ok)
  <2>1. CASE pc = auditing
    BY <1>2, <2>1
  <2>2. CASE pc # auditing
    <3>1. pc = saving /\ ~ ok
      BY <1>1, <2>2
    <3>2. ~ k.ok
      BY <1>2, <3>1
    <3>. QED
      BY <1>2, <3>1, <3>2
  <2>. QED
    BY <2>1, <2>2
<1>. QED
  BY <1>2, <1>3, <1>4

\* The org's answer, where what it may hold now can be put back.
LEMMA AnswerStep ==
  ASSUME BundlesIInv, NEW p \in Procs, NEW v \in Versions, prod' = v, CanGoBack(v),
         NEW k \in Command, proc' = [proc EXCEPT ![p] = k], Grows => Works(k)',
         UNCHANGED <<govVars, clock, bundles, manifests, revert, passed, deploysToday, audit,
                     crashes>>
  PROVE  BundlesIInv'
<1>1. TypeOK /\ Restorable
  BY DEF BundlesIInv
<1>2. Restorable'
  BY <1>1 DEF Restorable, CanGoBack
<1>3. /\ manifests' \in [Bundles -> Manifest] /\ passed' \subseteq Bundles
      /\ audit' \subseteq AuditRow /\ prod' \in Versions /\ crashes' \in Nat
      /\ deploysToday' \in 0 .. DeployLimit
      /\ revert' \in [Bundles -> Versions \cup {"none", "empty"}]
  BY <1>1 DEF TypeOK
<1>4. Grows => \A b \in Bundles : Tracks(b, manifests[b])'
  BY NoneTrack
<1>. QED
  BY <1>2, <1>3, <1>4, CommandStep

LEMMA DeployCallStep ==
  ASSUME BundlesIInv, NEW p \in Procs, DeployCall(p)
  PROVE  BundlesIInv'
<1>1. PICK c \in Command : c = proc[p] /\ Works(c) /\ c.bundle \in Bundles
  BY AtWork DEF DeployCall
<1>2. PICK result \in Versions : result = Target(c.bundle)
  BY <1>1, TargetType
<1>3. TypeOK /\ Restorable /\ c.pc = "deploy"
  BY <1>1 DEF BundlesIInv, DeployCall
<1>4. CallOrg(p, result, "deploy_audit", "deploy_save")
  BY <1>1, <1>2 DEF DeployCall
<1>5. prod' \in {prod, result}
  BY <1>3, <1>4, CallOrgCommand
<1>6. PICK k \in Command : /\ k.pc = "deploy_audit" \/ (k.pc = "deploy_save" /\ ~ k.ok)
                           /\ k.bundle = c.bundle /\ k.copy = c.copy
                           /\ proc' = [proc EXCEPT ![p] = k]
  BY <1>1, <1>3, <1>4, CallOrgCommand
<1>7. CanGoBack(result)
  BY <1>1, <1>2, <1>3, BundleAssumption DEF Works, Target, CanGoBack
<1>8. PICK v \in Versions : prod' = v /\ CanGoBack(v)
  BY <1>3, <1>5, <1>7 DEF TypeOK, Restorable
<1>9. Grows => Works(k)'
  <2>. SUFFICES ASSUME Grows PROVE Works(k)'
    OBVIOUS
  <2>1. Works(c)'
    BY <1>1, WorksStays
  <2>. QED
    BY <1>3, <1>6, <2>1 DEF Works
<1>. QED
  BY <1>6, <1>8, <1>9, AnswerStep DEF DeployCall

LEMMA ExecCallStep ==
  ASSUME BundlesIInv, NEW p \in Procs, ExecCall(p)
  PROVE  BundlesIInv'
<1>1. PICK c \in Command : c = proc[p] /\ Works(c) /\ c.bundle \in Bundles
  BY AtWork DEF ExecCall
<1>2. TypeOK /\ Restorable /\ c.pc = "undo"
  BY <1>1 DEF BundlesIInv, ExecCall
<1>3. revert[c.bundle] \in Versions \cup {"empty"}
  BY <1>1, <1>2 DEF Works, TypeOK
<1>4. PICK result \in Versions :
        result = IF revert[c.bundle] = "empty" THEN prod ELSE revert[c.bundle]
  BY <1>2, <1>3 DEF TypeOK
<1>5. CallOrg(p, result, "undo_audit", "undo_save")
  BY <1>1, <1>4 DEF ExecCall
<1>6. prod' \in {prod, result}
  BY <1>2, <1>5, CallOrgCommand
<1>7. PICK k \in Command : /\ k.pc = "undo_audit" \/ (k.pc = "undo_save" /\ ~ k.ok)
                           /\ k.bundle = c.bundle /\ k.copy = c.copy
                           /\ proc' = [proc EXCEPT ![p] = k]
  BY <1>1, <1>2, <1>5, CallOrgCommand
<1>8. PICK v \in Versions : prod' = v /\ CanGoBack(v)
  BY <1>1, <1>2, <1>4, <1>6 DEF TypeOK, Restorable
<1>9. Grows => Works(k)'
  <2>. SUFFICES ASSUME Grows PROVE Works(k)'
    OBVIOUS
  <2>1. Works(c)'
    BY <1>1, WorksStays
  <2>. QED
    BY <1>2, <1>7, <2>1 DEF Works
<1>. QED
  BY <1>7, <1>8, <1>9, AnswerStep DEF ExecCall

\* The audit row of a deploy or a rollback, under the gate of the copy.
LEMMA AuditStep ==
  ASSUME BundlesIInv, NEW p \in Procs, NEW k \in Command, proc' = [proc EXCEPT ![p] = k],
         NEW row \in AuditRow, audit' = audit \cup {row}, Grows => Works(k)',
         UNCHANGED <<govVars, clock, bundles, manifests, revert, passed, prod, deploysToday,
                     crashes>>
  PROVE  BundlesIInv'
<1>1. TypeOK /\ Restorable'
  BY SameRestorable DEF BundlesIInv
<1>2. /\ manifests' \in [Bundles -> Manifest] /\ passed' \subseteq Bundles
      /\ audit' \subseteq AuditRow /\ prod' \in Versions /\ crashes' \in Nat
      /\ deploysToday' \in 0 .. DeployLimit
      /\ revert' \in [Bundles -> Versions \cup {"none", "empty"}]
  BY <1>1 DEF TypeOK
<1>3. Grows => \A b \in Bundles : Tracks(b, manifests[b])'
  BY NoneTrack
<1>. QED
  BY <1>1, <1>2, <1>3, CommandStep

LEMMA DeployAuditStep ==
  ASSUME BundlesIInv, NEW p \in Procs, DeployAudit(p)
  PROVE  BundlesIInv'
<1>1. PICK c \in Command : c = proc[p] /\ Works(c) /\ c.bundle \in Bundles
  BY AtWork DEF DeployAudit
<1>2. TypeOK /\ c.pc = "deploy_audit" /\ c.ok \in BOOLEAN
  BY <1>1 DEF BundlesIInv, DeployAudit, Command
<1>3. Goto(p, "deploy_save", c.ok)
  BY <1>1 DEF DeployAudit
<1>4. PICK k \in Command : /\ k.pc = "deploy_save" /\ k.ok = c.ok /\ k.bundle = c.bundle
                           /\ k.copy = c.copy /\ proc' = [proc EXCEPT ![p] = k]
  BY <1>1, <1>2, <1>3, GotoCommand
<1>5. PICK row : row = [what |-> "sf_schema_deploy", bundle |-> c.bundle,
                        gate |-> c.copy.gate, ok |-> c.ok]
  OBVIOUS
<1>6. c.copy.gate \in GateIds
  BY <1>1, <1>2 DEF Works, Command, Manifest
<1>7. row \in AuditRow
  BY <1>1, <1>2, <1>5, <1>6 DEF AuditRow
<1>8. audit' = audit \cup {row}
  BY <1>1, <1>5 DEF DeployAudit, Record
<1>9. Grows => Works(k)'
  <2>. SUFFICES ASSUME Grows PROVE Works(k)'
    OBVIOUS
  <2>1. Works(c)'
    BY <1>1, WorksStays
  <2>2. k.ok => Deployed(k.bundle, k.copy.gate) \in audit'
    BY <1>4, <1>5, <1>8 DEF Deployed
  <2>. QED
    BY <1>2, <1>4, <2>1, <2>2 DEF Works
<1>. QED
  BY <1>4, <1>7, <1>8, <1>9, AuditStep DEF DeployAudit

LEMMA ExecAuditStep ==
  ASSUME BundlesIInv, NEW p \in Procs, ExecAudit(p)
  PROVE  BundlesIInv'
<1>1. PICK c \in Command : c = proc[p] /\ Works(c) /\ c.bundle \in Bundles
  BY AtWork DEF ExecAudit
<1>2. TypeOK /\ c.pc = "undo_audit" /\ c.ok \in BOOLEAN
  BY <1>1 DEF BundlesIInv, ExecAudit, Command
<1>3. Goto(p, "undo_save", c.ok)
  BY <1>1 DEF ExecAudit
<1>4. PICK k \in Command : /\ k.pc = "undo_save" /\ k.ok = c.ok /\ k.bundle = c.bundle
                           /\ k.copy = c.copy /\ proc' = [proc EXCEPT ![p] = k]
  BY <1>1, <1>2, <1>3, GotoCommand
<1>5. PICK row : row = [what |-> "sf_schema_rollback", bundle |-> c.bundle,
                        gate |-> c.copy.rollbackGate, ok |-> c.ok]
  OBVIOUS
<1>6. c.copy.rollbackGate \in GateIds
  BY <1>1, <1>2 DEF Works, Command, Manifest
<1>7. row \in AuditRow
  BY <1>1, <1>2, <1>5, <1>6 DEF AuditRow
<1>8. audit' = audit \cup {row}
  BY <1>1, <1>5 DEF ExecAudit, Record
<1>9. Grows => Works(k)'
  <2>. SUFFICES ASSUME Grows PROVE Works(k)'
    OBVIOUS
  <2>1. Works(c)'
    BY <1>1, WorksStays
  <2>2. k.ok => Undone(k.bundle, k.copy.rollbackGate) \in audit'
    BY <1>4, <1>5, <1>8 DEF Undone
  <2>. QED
    BY <1>2, <1>4, <2>1, <2>2 DEF Works
<1>. QED
  BY <1>4, <1>7, <1>8, <1>9, AuditStep DEF ExecAudit

-----------------------------------------------------------------------------
(* The theorems. *)

LEMMA InitBundles == Init => BundlesIInv
<1>. SUFFICES ASSUME Init PROVE BundlesIInv
  OBVIOUS
<1>1. MaxGates \in Nat /\ DeployLimit \in Nat /\ 0 \in 0 .. MaxGates /\ 0 \in 0 .. DeployLimit
  BY BoundsAssumption
<1>2. \A b \in Bundles : "absent" # b /\ "original" # b /\ "none" # b
  BY BundleAssumption
<1>3. TypeOK
  BY <1>1, NoRowType, NoManifestType, IdleType DEF Init, TypeOK, Payload, Versions
<1>4. GatesLinked
  <2>1. \A g, c \in GateIds : ~ Confirms(gates, c, g)
    BY DEF Init, Confirms, NoRow, ConfirmType, GateIds
  <2>. QED
    BY <2>1 DEF Init, GatesLinked
<1>5. Restorable
  BY <1>2 DEF Init, Restorable, CanGoBack
<1>6. \A b \in Bundles : Tracks(b, manifests[b])
  BY DEF Init, Tracks, NoManifest
<1>7. \A p \in Procs : Works(proc[p])
  BY IdleType DEF Init, Works
<1>. QED
  BY <1>3, <1>4, <1>5, <1>6, <1>7 DEF BundlesIInv

LEMMA NextBundles == BundlesIInv /\ [Next]_vars => BundlesIInv'
<1>. SUFFICES ASSUME BundlesIInv, [Next]_vars PROVE BundlesIInv'
  OBVIOUS
<1>1. ASSUME NEW p \in Procs, NEW b \in Bundles, Begin(p, b) PROVE BundlesIInv'
  BY <1>1, ProposeOpenStep, TestStartStep, DeployStartStep, PrepareOpenStep, ExecStartStep
  DEF Begin
<1>2. ASSUME NEW p \in Procs, Continue(p) PROVE BundlesIInv'
  BY <1>2, ProposeSaveStep, TestSaveStep, DeploySnapshotStep, SnapshotFailsStep, DeployCallStep,
     DeployAuditStep, DeploySaveStep, PrepareSaveStep, ExecCallStep, ExecAuditStep, ExecSaveStep
  DEF Continue
<1>3. ASSUME NEW p \in Procs, Crash(p) PROVE BundlesIInv'
  BY <1>3, CrashStep
<1>4. ASSUME NEW g \in GateIds, NEW who \in Approvers, NEW approved \in BOOLEAN,
             Decide(g, who, approved)
      PROVE  BundlesIInv'
  BY <1>4, DecideStep
<1>5. ASSUME NEW g \in GateIds, Elevate(g) PROVE BundlesIInv'
  BY <1>5, ElevateStep
<1>6. CASE Tick
  BY <1>6, TickStep
<1>7. CASE UNCHANGED vars
  <2>1. /\ UNCHANGED <<gates, lastId, about, clock, bundles, manifests, revert, passed, prod,
                       deploysToday, audit, proc, crashes>>
        /\ UNCHANGED govVars
    BY <1>7 DEF vars, govVars
  <2>2. TypeOK' /\ clock' \in Nat /\ clock <= clock'
    BY <2>1 DEF BundlesIInv, TypeOK
  <2>3. Grows /\ GatesLinked'
    BY <2>1, <2>2, SameGates, GateGrows DEF BundlesIInv
  <2>4. Restorable'
    BY <2>1, SameRestorable DEF BundlesIInv
  <2>. QED
    BY <2>1, <2>2, <2>3, <2>4, NoneTrack, NoneWork DEF BundlesIInv
<1>. QED
  BY <1>1, <1>2, <1>3, <1>4, <1>5, <1>6, <1>7 DEF Next

\* A command may rely on what it verified, and a manifest on what it says,
\* whatever other commands did meanwhile (propose_change, test, deploy,
\* prepare, execute).
THEOREM BundlesInductive == Spec => []BundlesIInv
BY InitBundles, NextBundles, PTL DEF Spec

\* What a bundle has put into the org has passed the sandbox and has its revert
\* package, and a stamp in a manifest has its audit row, however many commands
\* raced, timed out or were killed (metadata_deployer.py, rollback.py).
THEOREM BundlesHold == Spec => []BundlesInv
<1>1. BundlesIInv => BundlesInv
  BY DEF BundlesIInv, BundlesInv, Restorable, CanGoBack, DeployedCanBeReverted, Tracks,
         StampedIsAudited, Deployed, Undone
<1>. QED
  BY <1>1, BundlesInductive, PTL

\* An org that changes was changed by a bundle, on a gate approved for it.
ApprovedChange ==
  prod' # prod =>
    \E b \in Bundles :
      \/ prod' = Target(b) /\ DeployApproved(b)
      \/ prod' = revert[b] /\ RollbackApproved(b)

\* The org changes in the calls of two commands only.
LEMMA OrgCalls ==
  ASSUME [Next]_vars, prod' # prod
  PROVE  \E p \in Procs : DeployCall(p) \/ ExecCall(p)
<1>1. \A p \in Procs, b \in Bundles : ~ Begin(p, b)
  BY DEF Begin, ProposeOpen, TestStart, DeployStart, PrepareOpen, ExecStart
<1>2. \A p \in Procs : ~ Crash(p)
  BY DEF Crash
<1>3. \A g \in GateIds : ~ Elevate(g) /\ \A who \in Approvers, a \in BOOLEAN : ~ Decide(g, who, a)
  BY DEF Elevate, Decide
<1>4. ~ Tick /\ ~ UNCHANGED vars
  BY DEF Tick, vars
<1>5. \A p \in Procs : Continue(p) => DeployCall(p) \/ ExecCall(p)
  BY DEF Continue, ProposeSave, TestSave, DeploySnapshot, SnapshotFails, DeployAudit,
         DeploySave, PrepareSave, ExecAudit, ExecSave
<1>. QED
  BY <1>1, <1>2, <1>3, <1>4, <1>5 DEF Next

LEMMA CallsApproved ==
  ASSUME BundlesIInv, [Next]_vars
  PROVE  ApprovedChange
<1>. SUFFICES ASSUME prod' # prod PROVE ApprovedChange
  BY DEF ApprovedChange
<1>1. PICK p \in Procs : DeployCall(p) \/ ExecCall(p)
  BY OrgCalls
<1>2. PICK c \in Command : c = proc[p] /\ Works(c) /\ c.bundle \in Bundles
  BY <1>1, AtWork DEF DeployCall, ExecCall
<1>3. CASE DeployCall(p)
  <2>1. DeployApproved(c.bundle)
    BY <1>2, <1>3 DEF DeployCall, Works
  <2>2. prod' = Target(c.bundle)
    BY <1>2, <1>3 DEF DeployCall, CallOrg
  <2>. QED
    BY <1>2, <2>1, <2>2 DEF ApprovedChange
<1>4. CASE ExecCall(p)
  <2>1. RollbackApproved(c.bundle)
    BY <1>2, <1>4 DEF ExecCall, Works
  <2>2. prod' = revert[c.bundle]
    BY <1>2, <1>4 DEF ExecCall, CallOrg
  <2>. QED
    BY <1>2, <2>1, <2>2 DEF ApprovedChange
<1>. QED
  BY <1>1, <1>3, <1>4

\* The org changes only on a gate that a person approved for that very change,
\* though the gate is looked at when the command starts (_verify_gate).
THEOREM OrgChangesHold == Spec => OrgChangesAreApproved
<1>1. BundlesIInv /\ [Next]_vars => [ApprovedChange]_vars
  BY CallsApproved
<1>2. Spec => [][ApprovedChange]_vars
  BY <1>1, BundlesInductive, PTL DEF Spec
<1>. QED
  BY <1>2 DEF ApprovedChange, OrgChangesAreApproved
=============================================================================
