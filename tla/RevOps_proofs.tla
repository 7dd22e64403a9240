--------------------------- MODULE RevOps_proofs ---------------------------
(***************************************************************************)
(* What the operations of agents/revops_support keep for every number of   *)
(* processes and every size of what they work on: the schema canary        *)
(* (CanaryInv), the weekly knowledge refresh (KnowledgeInv), provisioning  *)
(* and offboarding (AccessInv) and the review tasks (TasksInv); and the    *)
(* caches of what the agents read (CachesInv).  Each has an inductive      *)
(* invariant, lemmas for its actions, and a theorem.                       *)
(***************************************************************************)
EXTENDS RoleCanary, KnowledgeRefresh, UserAccess, ReviewTasks, ReadCaches,
        FiniteSetTheorems, TLAPS

-----------------------------------------------------------------------------
(* The canary *)

HandTypes ==
    [op : {"none", "deploy", "prepare", "execute", "poll"},
     step : {"idle", "call", "save", "next", "alert"}, copy : Manifest, ok : BOOLEAN,
     pre : 0 .. MaxMembership \union {Unset}, todo : SUBSET Intervals, at : Nat]

StepsOf(op) == CASE op \in {"deploy", "execute"} -> {"call", "save"}
                 [] op = "prepare" -> {"save"}
                 [] op = "poll" -> {"next", "alert"}
                 [] op = "none" -> {"idle"}

CanaryTypes ==
    /\ manifest \in Manifest
    /\ gate \in {"pending", "approved"} /\ undoGate \in {"none", "pending", "both"}
    /\ role \in BOOLEAN /\ members \in 0 .. MaxMembership /\ minute \in 0 .. MaxMinute
    /\ hand \in [Hands -> HandTypes]
    /\ deployNo \in 0 .. Deploys /\ baseline \in Int
    /\ undone \in Int /\ undone =< deployNo
    /\ alerted \in [Intervals -> 0 .. 2] /\ unsent \subseteq Intervals
    /\ blurred \in BOOLEAN

(* A hand is at a step of its command.                                     *)
HandsInStep == \A p \in Hands : /\ hand[p].step \in StepsOf(hand[p].op)
                                /\ hand[p].step = "alert" => hand[p].at \in Intervals

Calls(p) == hand[p].op \in {"deploy", "execute"}

(* One command at a time calls the org, and one poll runs.                 *)
Apart == \A p, q \in Hands :
    \/ Calls(p) /\ Calls(q)
    \/ hand[p].op = "poll" /\ hand[q].op = "poll"
    => p = q

(* A deploy hands over the membership it has written, and the org's latest *)
(* is the one that is about to be written down.                            *)
DeployTold == \A p \in Hands : hand[p].op = "deploy" =>
    /\ hand[p].copy.pre = hand[p].pre
    /\ (hand[p].step = "save" /\ hand[p].ok) => baseline = hand[p].pre

(* A roll-back runs on a file that has none, and is told what became of it.*)
RollbackTold == \A p \in Hands : hand[p].op = "execute" =>
    /\ manifest.undo # "deployed"
    /\ (hand[p].step = "save" /\ hand[p].ok) => ~ role

(* What a poll has yet to check stands unchecked, and the drift it is      *)
(* about to tell stands in the file and has not been told.                 *)
PollTold == \A p \in Hands : hand[p].op = "poll" =>
    /\ \A i \in hand[p].todo : manifest.checked[i] = "none"
    /\ hand[p].step = "alert" =>
        manifest.checked[hand[p].at] = "drift" /\ alerted[hand[p].at] = 0

AlertsFollow == \A i \in Intervals :
    /\ alerted[i] =< 1
    /\ alerted[i] = 1 => manifest.checked[i] = "drift"

(* Drift that stands in the file is told, was lost, or is about to be told. *)
HeardNow == \A i \in Intervals : manifest.checked[i] = "drift" =>
    \/ alerted[i] = 1 \/ i \in unsent
    \/ \E p \in Hands : hand[p].step = "alert" /\ hand[p].at = i

OwnNow == (manifest.status = "deployed" /\ \A p \in Hands : hand[p].op # "deploy")
            => manifest.pre = baseline

GoneNow == (manifest.undo = "deployed" /\ deployNo = undone) => ~ role

Sharp == /\ Apart /\ DeployTold /\ RollbackTold /\ PollTold /\ AlertsFollow
         /\ HeardNow /\ OwnNow /\ GoneNow

CanaryIInv == CanaryTypes /\ HandsInStep /\ (~ blurred => Sharp)

USE DEF Unset

\* A fresh manifest and a process at rest.
LEMMA RestTypes == NewManifest \in Manifest /\ AtRest \in HandTypes /\ AtRest.step \in StepsOf(AtRest.op)
<1>1. NewManifest \in Manifest
  BY CanaryAssumption DEF NewManifest, Manifest, Checks
<1>2. QED
  BY <1>1, CanaryAssumption DEF AtRest, HandTypes, StepsOf

\* Before the first command the invariant of the canary holds.
THEOREM CanaryStart == CanaryInit => CanaryIInv
<1> SUFFICES ASSUME CanaryInit PROVE CanaryIInv
  OBVIOUS
<1>0. MaxMembership \in Nat /\ MaxMinute \in Nat /\ Deploys \in Nat
  BY CanaryAssumption
<1>a. hand \in [Hands -> HandTypes] /\ alerted \in [Intervals -> 0 .. 2]
  BY RestTypes DEF CanaryInit
<1>1. CanaryTypes
  <2>1. Unset \in Int /\ Unset =< 0
    OBVIOUS
  <2>2. manifest \in Manifest /\ role \in BOOLEAN /\ unsent \subseteq Intervals /\ blurred \in BOOLEAN
    BY RestTypes DEF CanaryInit
  <2>3. gate \in {"pending", "approved"} /\ undoGate \in {"none", "pending", "both"}
    BY DEF CanaryInit
  <2>4. members \in 0 .. MaxMembership /\ minute \in 0 .. MaxMinute /\ deployNo \in 0 .. Deploys
    BY <1>0 DEF CanaryInit
  <2>5. baseline \in Int /\ undone \in Int /\ undone =< deployNo
    BY <2>1 DEF CanaryInit
  <2>6. QED
    BY <1>a, <2>2, <2>3, <2>4, <2>5 DEF CanaryTypes
<1>2. \A p \in Hands : hand[p].op = "none" /\ hand[p].step = "idle"
  BY DEF CanaryInit, AtRest
<1>3. HandsInStep /\ Apart /\ DeployTold /\ RollbackTold /\ PollTold
  BY <1>2 DEF HandsInStep, Apart, DeployTold, RollbackTold, PollTold, Calls, StepsOf
<1>4. AlertsFollow /\ HeardNow /\ OwnNow /\ GoneNow
  BY DEF CanaryInit, AlertsFollow, HeardNow, OwnNow, GoneNow, NewManifest
<1>5. QED
  BY <1>1, <1>3, <1>4 DEF CanaryIInv, Sharp

\* What a process is set to do is in its type and its step.
LEMMA HandMoves ==
  ASSUME hand \in [Hands -> HandTypes], HandsInStep, NEW p \in Hands, NEW r \in HandTypes,
         r.step \in StepsOf(r.op), r.step = "alert" => r.at \in Intervals, Moves(p, r)
  PROVE  hand' \in [Hands -> HandTypes] /\ HandsInStep'
BY DEF HandsInStep, Moves

LEMMA HandRests ==
  ASSUME hand \in [Hands -> HandTypes], HandsInStep, NEW p \in Hands, Rests(p)
  PROVE  hand' \in [Hands -> HandTypes] /\ HandsInStep'
BY RestTypes, HandMoves DEF Rests, Moves, AtRest

\* What a command writes back is a manifest.
LEMMA CopiesTyped ==
  ASSUME NEW m \in Manifest
  PROVE  /\ \A ok \in BOOLEAN :
              [m EXCEPT !.sandbox = IF ok THEN "passed" ELSE "failed",
                        !.status = IF ok THEN "sandbox_passed" ELSE "sandbox_failed"] \in Manifest
         /\ \A n \in 0 .. MaxMembership : [m EXCEPT !.pre = n] \in Manifest
         /\ \A st \in {"deployed", "deploy_failed"} : [m EXCEPT !.status = st] \in Manifest
         /\ \A n \in 0 .. MaxMinute : [m EXCEPT !.from = n] \in Manifest
         /\ \A u \in {"pending", "deployed", "failed"} : [m EXCEPT !.undo = u] \in Manifest
         /\ \A i \in Intervals, c \in Checks : [m EXCEPT !.checked[i] = c] \in Manifest
BY DEF Manifest

\* Every command and every step of a poll leaves a process at a step of its
\* command, on values the manifest can have.
LEMMA CanaryTyped ==
  ASSUME CanaryTypes, HandsInStep, CanaryNext
  PROVE  CanaryTypes' /\ HandsInStep'
<1> USE DEF CanaryTypes, World, Heard
<1>a. MaxMembership \in Nat /\ MaxMinute \in Nat /\ Deploys \in Nat /\ Intervals \subseteq Nat
  BY CanaryAssumption
<1>1. ASSUME NEW p \in Commands, SandboxTest(p) PROVE CanaryTypes' /\ HandsInStep'
  BY <1>1, CopiesTyped DEF SandboxTest, HandsInStep
<1>2. ASSUME NEW p \in Commands, DeployRole(p) PROVE CanaryTypes' /\ HandsInStep'
  <2>1. PICK pre \in {members, 0} : LET copy == [manifest EXCEPT !.pre = pre] IN
          /\ manifest' = copy
          /\ Moves(p, [AtRest EXCEPT !.op = "deploy", !.step = "call", !.copy = copy, !.pre = pre])
    BY <1>2 DEF DeployRole
  <2>a. pre \in 0 .. MaxMembership
    BY <1>a
  <2>2. pre \in 0 .. MaxMembership /\ manifest' \in Manifest
    BY <2>1, <2>a, CopiesTyped
  <2>3. [AtRest EXCEPT !.op = "deploy", !.step = "call", !.copy = manifest', !.pre = pre] \in HandTypes
    BY <2>2, RestTypes DEF HandTypes
  <2>4. hand' \in [Hands -> HandTypes] /\ HandsInStep'
    BY <2>1, <2>3, HandMoves DEF StepsOf, Hands, AtRest
  <2>5. QED
    BY <1>2, <2>2, <2>4 DEF DeployRole, Calling
<1>3. ASSUME NEW p \in Commands, NEW taken \in BOOLEAN, NEW answered \in BOOLEAN,
             CallDeploy(p, taken, answered)
      PROVE  CanaryTypes' /\ HandsInStep'
  <2>1. [hand[p] EXCEPT !.step = "save", !.ok = taken] \in HandTypes
    BY DEF HandTypes, Hands
  <2>2. hand' \in [Hands -> HandTypes] /\ HandsInStep'
    BY <1>3, <2>1, HandMoves, HandRests DEF StepsOf, Hands, CallDeploy, Doing, HandTypes
  <2>3. hand[p].pre \in Int
    BY <1>a DEF HandTypes, Hands
  <2>4. deployNo' \in 0 .. Deploys /\ baseline' \in Int /\ undone' =< deployNo'
    BY <1>3, <1>a, <2>3 DEF CallDeploy
  <2>5. QED
    BY <1>3, <2>2, <2>4 DEF CallDeploy
<1>4. ASSUME NEW p \in Commands, SaveDeployed(p) PROVE CanaryTypes' /\ HandsInStep'
  <2>1. hand[p].copy \in Manifest
    BY DEF HandTypes, Hands
  <2>2. manifest' \in Manifest
    BY <1>4, <2>1, CopiesTyped DEF SaveDeployed, Saves
  <2>3. hand' \in [Hands -> HandTypes] /\ HandsInStep'
    BY <1>4, HandRests DEF SaveDeployed, Saves, Hands
  <2>4. QED
    BY <1>4, <2>2, <2>3 DEF SaveDeployed, Saves
<1>5. ASSUME NEW p \in Commands, Schedule(p) PROVE CanaryTypes' /\ HandsInStep'
  BY <1>5, CopiesTyped DEF Schedule, HandsInStep
<1>6. ASSUME NEW p \in Commands, PrepareRollback(p) \/ ExecuteRollback(p)
      PROVE  CanaryTypes' /\ HandsInStep'
  <2>1. PICK op \in {"prepare", "execute"}, step \in {"save", "call"} :
          Opens(p, op, step) /\ step \in StepsOf(op)
    BY <1>6 DEF PrepareRollback, ExecuteRollback, StepsOf
  <2>2. [AtRest EXCEPT !.op = op, !.step = step, !.copy = manifest] \in HandTypes
    BY RestTypes DEF HandTypes
  <2>3. hand' \in [Hands -> HandTypes] /\ HandsInStep'
    BY <2>1, <2>2, HandMoves DEF Opens, Hands, AtRest
  <2>4. QED
    BY <1>6, <2>1, <2>3 DEF Opens, PrepareRollback, ExecuteRollback, Calling
<1>7. ASSUME NEW p \in Commands, SavePrepared(p) PROVE CanaryTypes' /\ HandsInStep'
  <2>1. hand[p].copy \in Manifest
    BY DEF HandTypes, Hands
  <2>2. manifest' \in Manifest
    BY <1>7, <2>1, CopiesTyped DEF SavePrepared, Saves
  <2>3. hand' \in [Hands -> HandTypes] /\ HandsInStep'
    BY <1>7, HandRests DEF SavePrepared, Saves, Hands
  <2>4. QED
    BY <1>7, <2>2, <2>3 DEF SavePrepared, Saves
<1>8. ASSUME NEW p \in Commands, NEW taken \in BOOLEAN, CallRollback(p, taken)
      PROVE  CanaryTypes' /\ HandsInStep'
  <2>1. PICK said \in BOOLEAN : /\ Moves(p, [hand[p] EXCEPT !.step = "save", !.ok = said])
                                /\ blurred' = (blurred \/ said # taken)
    BY <1>8 DEF CallRollback
  <2>2. [hand[p] EXCEPT !.step = "save", !.ok = said] \in HandTypes
    BY DEF HandTypes, Hands
  <2>3. hand' \in [Hands -> HandTypes] /\ HandsInStep'
    BY <1>8, <2>1, <2>2, HandMoves DEF StepsOf, Hands, CallRollback, Doing, HandTypes
  <2>4. QED
    BY <1>8, <2>1, <2>3, <1>a DEF CallRollback
<1>9. ASSUME NEW p \in Commands, SaveRollback(p) PROVE CanaryTypes' /\ HandsInStep'
  <2>1. hand[p].copy \in Manifest
    BY DEF HandTypes, Hands
  <2>2. manifest' \in Manifest
    BY <1>9, <2>1, CopiesTyped DEF SaveRollback, Saves
  <2>3. hand' \in [Hands -> HandTypes] /\ HandsInStep'
    BY <1>9, HandRests DEF SaveRollback, Saves, Hands
  <2>4. QED
    BY <1>9, <2>2, <2>3 DEF SaveRollback, Saves
<1>10. ASSUME NEW p \in Polls, StartCanaryPoll(p) PROVE CanaryTypes' /\ HandsInStep'
  <2>1. DueNow \subseteq Intervals /\ manifest.pre \in 0 .. MaxMembership \union {Unset}
    BY DEF DueNow, Manifest
  <2>2. [AtRest EXCEPT !.op = "poll", !.step = "next", !.todo = DueNow, !.pre = manifest.pre]
          \in HandTypes
    BY <2>1, RestTypes DEF HandTypes
  <2>3. hand' \in [Hands -> HandTypes] /\ HandsInStep'
    BY <1>10, <2>2, HandMoves DEF StartCanaryPoll, Hands, AtRest, StepsOf
  <2>4. QED
    BY <1>10, <2>3 DEF StartCanaryPoll
<1>11. ASSUME NEW p \in Polls, NEW i \in Intervals, Verify(p, i) PROVE CanaryTypes' /\ HandsInStep'
  <2>1. PICK passed \in BOOLEAN :
          /\ manifest' = [manifest EXCEPT !.checked[i] = IF passed THEN "passed" ELSE "drift"]
          /\ Moves(p, [hand[p] EXCEPT !.step = IF passed THEN "next" ELSE "alert", !.at = i,
                                      !.todo = hand[p].todo \ {i}])
    BY <1>11 DEF Verify
  <2>2. manifest' \in Manifest
    BY <2>1, CopiesTyped DEF Checks
  <2>3. [hand[p] EXCEPT !.step = IF passed THEN "next" ELSE "alert", !.at = i,
                        !.todo = hand[p].todo \ {i}] \in HandTypes
    BY <1>a DEF HandTypes, Hands
  <2>4. hand' \in [Hands -> HandTypes] /\ HandsInStep'
    BY <1>11, <2>1, <2>3, HandMoves DEF Verify, Doing, Hands, StepsOf, HandTypes
  <2>5. QED
    BY <1>11, <2>2, <2>4 DEF Verify
<1>12. ASSUME NEW p \in Polls, NEW sent \in BOOLEAN, DriftAlert(p, sent)
       PROVE  CanaryTypes' /\ HandsInStep'
  <2>1. [hand[p] EXCEPT !.step = "next"] \in HandTypes /\ hand[p].at \in Intervals
    BY <1>12 DEF HandTypes, Hands, HandsInStep, DriftAlert, Doing
  <2>2. hand' \in [Hands -> HandTypes] /\ HandsInStep'
    BY <1>12, <2>1, HandMoves DEF DriftAlert, Doing, Hands, StepsOf, HandTypes
  <2>3. QED
    BY <1>12, <2>1, <2>2 DEF DriftAlert
<1>13. ASSUME NEW p \in Hands, KillHand(p) \/ EndPoll(p) PROVE CanaryTypes' /\ HandsInStep'
  <2>1. hand' \in [Hands -> HandTypes] /\ HandsInStep'
    BY <1>13, HandRests DEF KillHand, EndPoll
  <2>2. QED
    BY <1>13, <2>1 DEF KillHand, EndPoll, HandsInStep
<1>14. ASSUME Approve \/ Reassign \/ MinutePasses PROVE CanaryTypes' /\ HandsInStep'
  <2>1. CASE Approve
    BY <2>1, <1>a DEF Approve, HandsInStep
  <2>2. CASE Reassign
    BY <2>2, <1>a DEF Reassign, HandsInStep
  <2>3. CASE MinutePasses
    BY <2>3, <1>a DEF MinutePasses, HandsInStep
  <2>4. QED
    BY <1>14, <2>1, <2>2, <2>3
<1>15. QED
  BY <1>1, <1>2, <1>3, <1>4, <1>5, <1>6, <1>7, <1>8, <1>9, <1>10, <1>11, <1>12, <1>13, <1>14
     DEF CanaryNext, Hands

\* What holds while no history is blurred: every part, by what an action
\* does to the hand, the file and the org.
LEMMA CanarySharp ==
  ASSUME CanaryTypes, HandsInStep, CanaryNext, ~ blurred => Sharp, ~ blurred'
  PROVE  Sharp'
<1> USE DEF World, Heard
<1>h. \A p \in Hands : hand[p] \in HandTypes /\ hand[p].copy \in Manifest
  BY DEF CanaryTypes, HandTypes
<1>n. ~ blurred
  BY DEF CanaryNext, SandboxTest, DeployRole, SaveDeployed, Schedule, CallRollback, CallDeploy,
     PrepareRollback, SavePrepared, ExecuteRollback, SaveRollback, StartCanaryPoll, EndPoll, Verify,
     DriftAlert, KillHand, Approve, Reassign, MinutePasses, Saves
<1>s. Apart /\ DeployTold /\ RollbackTold /\ PollTold /\ AlertsFollow /\ HeardNow /\ OwnNow /\ GoneNow
  BY <1>n DEF Sharp
<1>1. ASSUME NEW p \in Commands, SandboxTest(p) PROVE Sharp'
  <2>1. /\ manifest'.status # "deployed" /\ manifest'.undo = manifest.undo
        /\ manifest'.checked = manifest.checked
    BY <1>1 DEF SandboxTest, CanaryTypes, Manifest
  <2>2. UNCHANGED <<hand, World, Heard>>
    BY <1>1 DEF SandboxTest
  <2>3. QED
    BY <1>s, <2>1, <2>2 DEF Sharp, Apart, DeployTold, RollbackTold, PollTold, AlertsFollow, HeardNow,
       OwnNow, GoneNow, Calls
<1>2. ASSUME NEW p \in Commands, DeployRole(p) PROVE Sharp'
  <2>1. PICK pre \in {members, 0} : LET copy == [manifest EXCEPT !.pre = pre] IN
          /\ manifest' = copy
          /\ Moves(p, [AtRest EXCEPT !.op = "deploy", !.step = "call", !.copy = copy, !.pre = pre])
    BY <1>2 DEF DeployRole
  <2>2. /\ manifest'.undo = manifest.undo /\ manifest'.checked = manifest.checked
        /\ manifest'.pre = pre
    BY <2>1 DEF CanaryTypes, Manifest
  <2>3. /\ hand'[p].op = "deploy" /\ hand'[p].step = "call" /\ hand'[p].copy = manifest'
        /\ hand'[p].pre = pre
        /\ \A q \in Hands : q # p => hand'[q] = hand[q]
    BY <2>1 DEF Moves, CanaryTypes, Hands, AtRest
  <2>4. UNCHANGED <<World, Heard>> /\ hand[p].op = "none" /\ \A q \in Hands : ~ Calls(q)
    BY <1>2 DEF DeployRole, Calling, Calls, HandsInStep, StepsOf, CanaryTypes, HandTypes, Hands
  <2>5. Apart' /\ DeployTold'
    BY <1>s, <2>2, <2>3, <2>4 DEF Apart, DeployTold, Calls
  <2>6. RollbackTold' /\ PollTold' /\ AlertsFollow' /\ GoneNow'
    BY <1>s, <2>2, <2>3, <2>4 DEF RollbackTold, PollTold, AlertsFollow, GoneNow
  <2>7. HeardNow' /\ OwnNow'
    BY <1>s, <2>2, <2>3, <2>4 DEF HeardNow, OwnNow, HandsInStep, StepsOf, Hands
  <2>8. QED
    BY <2>5, <2>6, <2>7 DEF Sharp
<1>3. ASSUME NEW p \in Commands, NEW taken \in BOOLEAN, NEW answered \in BOOLEAN,
             CallDeploy(p, taken, answered)
      PROVE  Sharp'
  <2>1. answered /\ Moves(p, [hand[p] EXCEPT !.step = "save", !.ok = taken])
    BY <1>3 DEF CallDeploy
  <2>2. /\ hand'[p].op = "deploy" /\ hand'[p].step = "save" /\ hand'[p].ok = taken
        /\ hand'[p].copy = hand[p].copy /\ hand'[p].pre = hand[p].pre
        /\ \A q \in Hands : q # p => hand'[q] = hand[q]
    BY <1>3, <2>1, <1>h DEF CallDeploy, Doing, Moves, CanaryTypes, Hands, HandTypes
  <2>3. /\ UNCHANGED <<manifest, undone, Heard>> /\ hand[p].op = "deploy" /\ hand[p].step = "call"
        /\ deployNo' = IF taken THEN deployNo + 1 ELSE deployNo
        /\ baseline' = IF taken THEN hand[p].pre ELSE baseline
    BY <1>3 DEF CallDeploy, Doing
  <2>4. \A q \in Hands : hand[q].op \in {"deploy", "execute"} => q = p
    BY <1>s, <2>3 DEF Apart, Calls, Hands
  <2>5. Apart' /\ DeployTold'
    BY <1>s, <2>2, <2>3, <2>4 DEF Apart, DeployTold, Calls, Hands
  <2>6. RollbackTold' /\ PollTold' /\ AlertsFollow'
    BY <1>s, <2>2, <2>3, <2>4 DEF RollbackTold, PollTold, AlertsFollow
  <2>7. HeardNow' /\ OwnNow'
    BY <1>s, <2>2, <2>3, <2>4 DEF HeardNow, OwnNow, Hands
  <2>8. GoneNow'
    BY <1>s, <1>3, <2>3 DEF GoneNow, CallDeploy, CanaryTypes
  <2>9. QED
    BY <2>5, <2>6, <2>7, <2>8 DEF Sharp
<1>r. ASSUME NEW p \in Hands, Rests(p)
      PROVE  hand'[p].op = "none" /\ hand'[p].step = "idle" /\ \A q \in Hands : q # p => hand'[q] = hand[q]
  BY <1>r DEF Rests, CanaryTypes, AtRest
<1>4. ASSUME NEW p \in Commands, SaveDeployed(p) PROVE Sharp'
  <2>1. /\ manifest = hand[p].copy /\ UNCHANGED <<World, Heard>> /\ Rests(p)
        /\ hand[p].op = "deploy" /\ hand[p].step = "save"
        /\ manifest' = [manifest EXCEPT !.status = IF hand[p].ok THEN "deployed" ELSE "deploy_failed"]
    BY <1>4 DEF SaveDeployed, Saves, Doing
  <2>2. /\ manifest'.undo = manifest.undo /\ manifest'.checked = manifest.checked
        /\ manifest'.pre = manifest.pre
        /\ manifest'.status = IF hand[p].ok THEN "deployed" ELSE "deploy_failed"
    BY <2>1 DEF CanaryTypes, Manifest
  <2>3. Apart' /\ DeployTold' /\ RollbackTold' /\ PollTold' /\ AlertsFollow'
    BY <1>s, <1>r, <2>1, <2>2 DEF Apart, DeployTold, RollbackTold, PollTold, AlertsFollow, Calls, Hands
  <2>4. HeardNow' /\ OwnNow' /\ GoneNow'
    BY <1>s, <1>r, <2>1, <2>2 DEF HeardNow, OwnNow, GoneNow, DeployTold, Hands
  <2>5. QED
    BY <2>3, <2>4 DEF Sharp
<1>5. ASSUME NEW p \in Commands, Schedule(p) PROVE Sharp'
  <2>1. /\ manifest'.undo = manifest.undo /\ manifest'.checked = manifest.checked
        /\ manifest'.pre = manifest.pre /\ manifest'.status = manifest.status
    BY <1>5 DEF Schedule, CanaryTypes, Manifest
  <2>2. UNCHANGED <<hand, World, Heard>>
    BY <1>5 DEF Schedule
  <2>3. QED
    BY <1>s, <2>1, <2>2 DEF Sharp, Apart, DeployTold, RollbackTold, PollTold, AlertsFollow, HeardNow,
       OwnNow, GoneNow, Calls
<1>6. ASSUME NEW p \in Commands, PrepareRollback(p) PROVE Sharp'
  <2>1. /\ UNCHANGED <<manifest, World, Heard>> /\ hand[p].step = "idle"
        /\ hand'[p].op = "prepare" /\ hand'[p].step = "save"
        /\ \A q \in Hands : q # p => hand'[q] = hand[q]
    BY <1>6 DEF PrepareRollback, Opens, Moves, CanaryTypes, AtRest, Hands
  <2>2. hand[p].op = "none"
    BY <2>1, <1>h DEF HandsInStep, StepsOf, Hands, HandTypes
  <2>3. Apart' /\ DeployTold' /\ RollbackTold' /\ PollTold' /\ AlertsFollow'
    BY <1>s, <2>1, <2>2 DEF Apart, DeployTold, RollbackTold, PollTold, AlertsFollow, Calls, Hands
  <2>4. HeardNow' /\ OwnNow' /\ GoneNow'
    BY <1>s, <2>1, <2>2 DEF HeardNow, OwnNow, GoneNow, Hands
  <2>5. QED
    BY <2>3, <2>4 DEF Sharp
<1>7. ASSUME NEW p \in Commands, SavePrepared(p) PROVE Sharp'
  <2>1. /\ manifest = hand[p].copy /\ Rests(p)
        /\ UNCHANGED <<role, deployNo, baseline, undone, Heard>>
        /\ hand[p].op = "prepare" /\ hand[p].step = "save"
        /\ manifest' = [manifest EXCEPT !.undo = "pending"]
    BY <1>7 DEF SavePrepared, Saves, Doing
  <2>2. /\ manifest'.undo = "pending" /\ manifest'.checked = manifest.checked
        /\ manifest'.pre = manifest.pre /\ manifest'.status = manifest.status
    BY <2>1 DEF CanaryTypes, Manifest
  <2>3. Apart' /\ DeployTold' /\ RollbackTold' /\ PollTold' /\ AlertsFollow'
    BY <1>s, <1>r, <2>1, <2>2 DEF Apart, DeployTold, RollbackTold, PollTold, AlertsFollow, Calls, Hands
  <2>4. HeardNow' /\ OwnNow' /\ GoneNow'
    BY <1>s, <1>r, <2>1, <2>2 DEF HeardNow, OwnNow, GoneNow, DeployTold, Hands
  <2>5. QED
    BY <2>3, <2>4 DEF Sharp
<1>8. ASSUME NEW p \in Commands, ExecuteRollback(p) PROVE Sharp'
  <2>1. /\ UNCHANGED <<manifest, World, Heard>> /\ hand[p].step = "idle"
        /\ hand'[p].op = "execute" /\ hand'[p].step = "call"
        /\ \A q \in Hands : q # p => hand'[q] = hand[q]
    BY <1>8 DEF ExecuteRollback, Opens, Moves, CanaryTypes, AtRest, Hands
  <2>2. /\ hand[p].op = "none" /\ \A q \in Hands : ~ Calls(q)
        /\ manifest.undo \in {"pending", "failed"}
    BY <1>8, <2>1, <1>h DEF ExecuteRollback, Calling, Calls, HandsInStep, StepsOf, Hands, HandTypes
  <2>3. Apart' /\ DeployTold' /\ RollbackTold' /\ PollTold' /\ AlertsFollow'
    BY <1>s, <2>1, <2>2 DEF Apart, DeployTold, RollbackTold, PollTold, AlertsFollow, Calls, Hands
  <2>4. HeardNow' /\ OwnNow' /\ GoneNow'
    BY <1>s, <2>1, <2>2 DEF HeardNow, OwnNow, GoneNow, Hands
  <2>5. QED
    BY <2>3, <2>4 DEF Sharp
<1>9. ASSUME NEW p \in Commands, NEW taken \in BOOLEAN, CallRollback(p, taken) PROVE Sharp'
  <2>1. Moves(p, [hand[p] EXCEPT !.step = "save", !.ok = taken])
    BY <1>9 DEF CallRollback
  <2>2. /\ hand'[p].op = "execute" /\ hand'[p].step = "save" /\ hand'[p].ok = taken
        /\ \A q \in Hands : q # p => hand'[q] = hand[q]
    BY <1>9, <2>1, <1>h DEF CallRollback, Doing, Moves, CanaryTypes, Hands, HandTypes
  <2>3. /\ UNCHANGED <<manifest, deployNo, baseline, Heard>>
        /\ hand[p].op = "execute" /\ hand[p].step = "call" /\ role' = (role /\ ~ taken)
    BY <1>9 DEF CallRollback, Doing
  <2>4. \A q \in Hands : hand[q].op \in {"deploy", "execute"} => q = p
    BY <1>s, <2>3 DEF Apart, Calls, Hands
  <2>5. Apart' /\ DeployTold' /\ PollTold' /\ AlertsFollow'
    BY <1>s, <2>2, <2>3, <2>4 DEF Apart, DeployTold, PollTold, AlertsFollow, Calls, Hands
  <2>a. RollbackTold'
    BY <1>s, <2>2, <2>3, <2>4 DEF RollbackTold, Hands
  <2>6. HeardNow' /\ OwnNow' /\ GoneNow'
    BY <1>s, <2>2, <2>3, <2>4 DEF HeardNow, OwnNow, GoneNow, RollbackTold, Hands
  <2>7. QED
    BY <2>5, <2>a, <2>6 DEF Sharp
<1>10. ASSUME NEW p \in Commands, SaveRollback(p) PROVE Sharp'
  <2>1. /\ manifest = hand[p].copy /\ UNCHANGED <<World, Heard>> /\ Rests(p)
        /\ hand[p].op = "execute" /\ hand[p].step = "save"
        /\ manifest' = [manifest EXCEPT !.undo = IF hand[p].ok THEN "deployed" ELSE "failed"]
    BY <1>10 DEF SaveRollback, Saves, Doing
  <2>2. /\ manifest'.status = manifest.status /\ manifest'.checked = manifest.checked
        /\ manifest'.pre = manifest.pre
        /\ manifest'.undo = IF hand[p].ok THEN "deployed" ELSE "failed"
    BY <2>1 DEF CanaryTypes, Manifest
  <2>3. \A q \in Hands : hand[q].op \in {"deploy", "execute"} => q = p
    BY <1>s, <2>1 DEF Apart, Calls, Hands
  <2>4. Apart' /\ DeployTold' /\ RollbackTold' /\ PollTold' /\ AlertsFollow'
    BY <1>s, <1>r, <2>1, <2>2, <2>3 DEF Apart, DeployTold, RollbackTold, PollTold, AlertsFollow, Calls,
       Hands
  <2>5. HeardNow' /\ OwnNow' /\ GoneNow'
    BY <1>s, <1>r, <2>1, <2>2, <2>3 DEF HeardNow, OwnNow, GoneNow, RollbackTold, Hands
  <2>6. QED
    BY <2>4, <2>5 DEF Sharp
<1>11. ASSUME NEW p \in Polls, StartCanaryPoll(p) PROVE Sharp'
  <2>1. /\ UNCHANGED <<manifest, World, Heard>> /\ hand[p].step = "idle"
        /\ hand'[p].op = "poll" /\ hand'[p].step = "next" /\ hand'[p].todo = DueNow
        /\ \A q \in Hands : q # p => hand'[q] = hand[q]
    BY <1>11 DEF StartCanaryPoll, Moves, CanaryTypes, AtRest, Hands
  <2>2. hand[p].op = "none" /\ \A q \in Hands : hand[q].op # "poll"
    BY <1>11, <2>1, <1>h DEF StartCanaryPoll, HandsInStep, StepsOf, Hands, HandTypes
  <2>3. Apart' /\ DeployTold' /\ RollbackTold' /\ PollTold' /\ AlertsFollow'
    BY <1>s, <2>1, <2>2 DEF Apart, DeployTold, RollbackTold, PollTold, AlertsFollow, Calls, Hands, DueNow
  <2>4. HeardNow' /\ OwnNow' /\ GoneNow'
    BY <1>s, <2>1, <2>2 DEF HeardNow, OwnNow, GoneNow, Hands
  <2>5. QED
    BY <2>3, <2>4 DEF Sharp
<1>12. ASSUME NEW p \in Polls, NEW i \in Intervals, Verify(p, i) PROVE Sharp'
  <2>1. PICK passed \in BOOLEAN :
          /\ manifest' = [manifest EXCEPT !.checked[i] = IF passed THEN "passed" ELSE "drift"]
          /\ Moves(p, [hand[p] EXCEPT !.step = IF passed THEN "next" ELSE "alert", !.at = i,
                                      !.todo = hand[p].todo \ {i}])
    BY <1>12 DEF Verify
  <2>2. /\ manifest'.status = manifest.status /\ manifest'.undo = manifest.undo
        /\ manifest'.pre = manifest.pre
        /\ manifest'.checked[i] = IF passed THEN "passed" ELSE "drift"
        /\ \A k \in Intervals : k # i => manifest'.checked[k] = manifest.checked[k]
    BY <2>1 DEF CanaryTypes, Manifest
  <2>3. /\ UNCHANGED <<World, Heard>> /\ hand[p].op = "poll" /\ hand[p].step = "next"
        /\ i \in hand[p].todo
        /\ hand'[p].op = "poll" /\ hand'[p].step = IF passed THEN "next" ELSE "alert"
        /\ hand'[p].at = i /\ hand'[p].todo = hand[p].todo \ {i}
        /\ \A q \in Hands : q # p => hand'[q] = hand[q]
    <3>1. /\ hand'[p] = [hand[p] EXCEPT !.step = IF passed THEN "next" ELSE "alert", !.at = i,
                                        !.todo = hand[p].todo \ {i}]
          /\ \A q \in Hands : q # p => hand'[q] = hand[q]
      BY <2>1 DEF Moves, CanaryTypes, Hands
    <3>2. hand[p].op = "poll" /\ hand[p].step = "next" /\ i \in hand[p].todo /\ UNCHANGED <<World, Heard>>
      BY <1>12 DEF Verify, Doing
    <3>3. hand[p] \in HandTypes
      BY <1>h DEF Hands
    <3>4. QED
      BY <3>1, <3>2, <3>3 DEF HandTypes
  <2>4. /\ \A q \in Hands : hand[q].op = "poll" => q = p
        /\ hand[p].todo \subseteq Intervals /\ alerted[i] = 0 /\ manifest.checked[i] = "none"
    <3>1. \A q \in Hands : hand[q].op = "poll" => q = p
      BY <1>s, <2>3 DEF Apart, Hands
    <3>2. hand[p].todo \subseteq Intervals /\ manifest.checked[i] = "none"
      BY <1>s, <1>h, <2>3 DEF PollTold, Hands, HandTypes
    <3>3. alerted[i] \in 0 .. 2 /\ alerted[i] =< 1 /\ alerted[i] # 1
      BY <1>s, <3>2 DEF AlertsFollow, CanaryTypes
    <3>4. QED
      BY <3>1, <3>2, <3>3
  <2>5. Apart' /\ DeployTold' /\ RollbackTold'
    BY <1>s, <2>2, <2>3, <2>4 DEF Apart, DeployTold, RollbackTold, Calls, Hands
  <2>6. PollTold' /\ AlertsFollow'
    BY <1>s, <2>2, <2>3, <2>4 DEF PollTold, AlertsFollow, Hands
  <2>7. HeardNow'
    BY <1>s, <2>2, <2>3, <2>4 DEF HeardNow, Hands
  <2>8. OwnNow' /\ GoneNow'
    BY <1>s, <2>2, <2>3, <2>4 DEF OwnNow, GoneNow, Hands
  <2>9. QED
    BY <2>5, <2>6, <2>7, <2>8 DEF Sharp
<1>13. ASSUME NEW p \in Polls, NEW sent \in BOOLEAN, DriftAlert(p, sent) PROVE Sharp'
  <2>1. /\ UNCHANGED <<manifest, World>> /\ hand[p].op = "poll" /\ hand[p].step = "alert"
        /\ hand'[p].op = "poll" /\ hand'[p].step = "next" /\ hand'[p].todo = hand[p].todo
        /\ \A q \in Hands : q # p => hand'[q] = hand[q]
    BY <1>13, <1>h DEF DriftAlert, Doing, Moves, CanaryTypes, HandTypes, Hands
  <2>2. /\ \A q \in Hands : hand[q].op = "poll" => q = p
        /\ hand[p].at \in Intervals /\ manifest.checked[hand[p].at] = "drift"
        /\ alerted[hand[p].at] = 0 /\ hand[p].todo \subseteq Intervals
    BY <1>s, <1>h, <2>1 DEF Apart, PollTold, HandsInStep, Hands, HandTypes
  <2>3. /\ sent => alerted' = [alerted EXCEPT ![hand[p].at] = 1] /\ unsent' = unsent
        /\ ~ sent => alerted' = alerted /\ unsent' = unsent \union {hand[p].at}
    BY <1>13, <2>2 DEF DriftAlert, CanaryTypes
  <2>4. Apart' /\ DeployTold' /\ RollbackTold'
    BY <1>s, <2>1, <2>2 DEF Apart, DeployTold, RollbackTold, Calls, Hands
  <2>5. PollTold' /\ AlertsFollow'
    BY <1>s, <2>1, <2>2, <2>3 DEF PollTold, AlertsFollow, Hands, CanaryTypes
  <2>6. HeardNow'
    BY <1>s, <2>1, <2>2, <2>3 DEF HeardNow, Hands, CanaryTypes
  <2>7. OwnNow' /\ GoneNow'
    BY <1>s, <2>1, <2>2 DEF OwnNow, GoneNow, Hands
  <2>8. QED
    BY <2>4, <2>5, <2>6, <2>7 DEF Sharp
<1>14. ASSUME NEW p \in Hands, KillHand(p) \/ EndPoll(p) PROVE Sharp'
  <2>1. /\ Rests(p) /\ UNCHANGED <<manifest, World, alerted>>
        /\ unsent' = IF hand[p].step = "alert" THEN unsent \union {hand[p].at} ELSE unsent
        /\ hand[p].op \notin {"deploy", "execute"}
    BY <1>14 DEF KillHand, EndPoll, Doing
  <2>2. Apart' /\ DeployTold' /\ RollbackTold' /\ PollTold' /\ AlertsFollow'
    BY <1>s, <1>r, <2>1 DEF Apart, DeployTold, RollbackTold, PollTold, AlertsFollow, Calls
  <2>3. HeardNow' /\ OwnNow' /\ GoneNow'
    BY <1>s, <1>r, <2>1 DEF HeardNow, OwnNow, GoneNow
  <2>4. QED
    BY <2>2, <2>3 DEF Sharp
<1>15. ASSUME Approve \/ Reassign \/ MinutePasses PROVE Sharp'
  <2>1. UNCHANGED <<manifest, hand, role, deployNo, baseline, undone, Heard>>
    BY <1>15 DEF Approve, Reassign, MinutePasses
  <2>2. QED
    BY <1>s, <2>1 DEF Sharp, Apart, DeployTold, RollbackTold, PollTold, AlertsFollow, HeardNow,
       OwnNow, GoneNow, Calls
<1>16. QED
  BY <1>1, <1>2, <1>3, <1>4, <1>5, <1>6, <1>7, <1>8, <1>9, <1>10, <1>11, <1>12, <1>13, <1>14, <1>15
     DEF CanaryNext, Hands

\* The invariant of the canary is inductive, whatever overlaps: what the file,
\* each copy in a process's hands and the org say of each other (deploy, poll,
\* execute_rollback).
THEOREM CanaryInductive == CanarySpec => []CanaryIInv
<1>1. CanaryIInv /\ [CanaryNext]_canaryVars => CanaryIInv'
  <2> SUFFICES ASSUME CanaryIInv, [CanaryNext]_canaryVars PROVE CanaryIInv'
    OBVIOUS
  <2>1. CASE CanaryNext
    BY <2>1, CanaryTyped, CanarySharp DEF CanaryIInv
  <2>2. CASE UNCHANGED canaryVars
    BY <2>2 DEF CanaryIInv, canaryVars, CanaryTypes, HandsInStep, Sharp, Apart, DeployTold,
       RollbackTold, PollTold, AlertsFollow, HeardNow, OwnNow, GoneNow, Calls
  <2>3. QED
    BY <2>1, <2>2
<1>2. QED
  BY <1>1, CanaryStart, PTL DEF CanarySpec

\* What the canary promises, for any number of commands, polls and checks of
\* the timetable: each drift heard once, each check against the membership
\* handed to its own deploy, and no role where the roll-back is deployed.
THEOREM CanaryHolds == CanarySpec => []CanaryInv
<1>1. CanaryIInv => CanaryInv
  <2> SUFFICES ASSUME CanaryIInv PROVE CanaryInv
    OBVIOUS
  <2>1. CanaryTypeOK
    BY DEF CanaryIInv, CanaryTypes, HandTypes, CanaryTypeOK
  <2>2. DriftIsHeardOnce
    BY DEF CanaryIInv, Sharp, AlertsFollow, HeardNow, DriftIsHeardOnce
  <2>3. CheckedAgainstItsOwn /\ RolledBackIsGone
    BY DEF CanaryIInv, Sharp, OwnNow, GoneNow, CheckedAgainstItsOwn, RolledBackIsGone
  <2>4. QED
    BY <2>1, <2>2, <2>3 DEF CanaryInv
<1>2. QED
  BY <1>1, CanaryInductive, PTL

-----------------------------------------------------------------------------
(* Knowledge *)

Desks == [step : {"idle", "add", "commit", "ingest", "prune"}, text : Texts, next : Nat, alone : BOOLEAN]

KnowledgeTypes ==
    /\ snapshots \in Seq(Texts) /\ Len(snapshots) =< MaxSnapshots
    /\ told \in 0 .. Len(snapshots) /\ canon \in Texts /\ index \in Texts /\ head \in Texts
    /\ corpus \in Seq(Chunk) /\ steward \in [Stewards -> Desks]
    /\ shown \subseteq Sections /\ cut \subseteq Sections /\ gaps \subseteq Sections
    /\ loose \in BOOLEAN /\ torn \in BOOLEAN /\ owed \in BOOLEAN

(* How far a re-ingest has come.                                           *)
Chunked(p) ==
    LET new == ChunksOf(steward[p].text) IN
    /\ steward[p].step = "ingest" => steward[p].next \in 1 .. Len(new)
    /\ steward[p].step = "prune" => steward[p].next = Len(new) + 1

(* The index is the file, or an add is still to make it so.                *)
Staged == index = canon \/ \E q \in Stewards : steward[q].step = "add"

CommitsStaged == \A p \in Stewards :
    (steward[p].step = "commit" /\ (steward[p].alone \/ ~ loose)) => Staged

(* A re-ingest that no other has overlapped has written all of its chunks  *)
(* up to the next, of the file when it has not been copied over since.     *)
Follows(p) ==
    /\ \A q \in Stewards : Ingesting(q) => q = p
    /\ \A i \in 1 .. steward[p].next - 1 :
        i =< Len(corpus) /\ corpus[i] = ChunksOf(steward[p].text)[i]
    /\ ~ owed => steward[p].text = canon

CorpusFollows == \A p \in Stewards : (Ingesting(p) /\ steward[p].alone) => Follows(p)

TornTold == ~ torn => \A p \in Stewards : Ingesting(p) => steward[p].alone

(* A digest that still stands: what it lists and what it had no room for   *)
(* are the sections in which its two files differ.                         *)
DigestStands == told # 0 => shown \union cut = Changed(canon, snapshots[told])

KnowledgeIInv ==
    /\ KnowledgeTypes /\ (\A p \in Stewards : Chunked(p))
    /\ CommitsStaged /\ CorpusFollows /\ TornTold /\ DigestStands
    /\ CanonicalIsCommitted /\ CorpusIsTheCanonical /\ MergedAsShown

\* Sections are finitely many numbers: one of them comes i-th.
LEMMA IthIsOne ==
  ASSUME NEW S, S \subseteq Nat, IsFiniteSet(S), NEW i \in 1 .. Cardinality(S)
  PROVE  Ith(S, i) \in S
<1> DEFINE n == Cardinality(S)
           Below(s) == {r \in S : r =< s}
           rank == [s \in S |-> Cardinality(Below(s))]
<1>1. n \in Nat
  BY FS_CardinalityType
<1>2. \A s \in S : IsFiniteSet(Below(s)) /\ Cardinality(Below(s)) \in 1 .. n
  <2> SUFFICES ASSUME NEW s \in S PROVE IsFiniteSet(Below(s)) /\ Cardinality(Below(s)) \in 1 .. n
    OBVIOUS
  <2>1. Below(s) \subseteq S /\ s \in Below(s)
    OBVIOUS
  <2>2. IsFiniteSet(Below(s)) /\ Cardinality(Below(s)) =< n
    BY <2>1, FS_Subset
  <2>3. Cardinality(Below(s)) \in Nat /\ Cardinality(Below(s)) # 0
    BY <2>1, <2>2, FS_CardinalityType, FS_EmptySet
  <2> HIDE DEF Below, n
  <2>4. QED
    BY <1>1, <2>2, <2>3
<1>3. \A s, t \in S : s < t => Cardinality(Below(s)) # Cardinality(Below(t))
  <2> SUFFICES ASSUME NEW s \in S, NEW t \in S, s < t PROVE Cardinality(Below(s)) # Cardinality(Below(t))
    OBVIOUS
  <2>1. s \in Nat /\ t \in Nat
    OBVIOUS
  <2>2. Below(s) \subseteq Below(t) /\ t \in Below(t) /\ t \notin Below(s)
    <3>1. t \in Below(t) /\ t \notin Below(s)
      BY <2>1
    <3>2. ASSUME NEW r \in Below(s) PROVE r \in Below(t)
      <4>1. r \in Nat /\ r \in S /\ r =< s
        OBVIOUS
      <4>2. r =< t
        BY <2>1, <4>1
      <4>3. QED
        BY <4>1, <4>2
    <3> HIDE DEF Below
    <3>3. QED
      BY <3>1, <3>2
  <2>3. Below(s) # Below(t)
    BY <2>2
  <2> HIDE DEF Below
  <2>4. QED
    BY <1>2, <2>2, <2>3, FS_Subset
<1>4. rank \in Injection(S, 1 .. n)
  <2>1. rank \in [S -> 1 .. n]
    BY <1>2
  <2>2. \A s, t \in S : rank[s] = rank[t] => s = t
    <3> SUFFICES ASSUME NEW s \in S, NEW t \in S, s # t PROVE rank[s] # rank[t]
      OBVIOUS
    <3>1. s < t \/ t < s
      BY SMT
    <3> HIDE DEF Below
    <3>2. QED
      BY <1>3, <3>1
  <2> HIDE DEF rank, n
  <2>3. QED
    BY <2>1, <2>2 DEF Injection, IsInjective
<1>5. IsFiniteSet(1 .. n) /\ Cardinality(1 .. n) = n
  BY <1>1, FS_Interval
<1>6. rank \in Surjection(S, 1 .. n)
  <2> HIDE DEF rank
  <2>1. QED
    BY <1>4, <1>5, FS_Injection
<1>7. \E s \in S : rank[s] = i
  BY <1>6 DEF Surjection
<1>8. \E s \in S : Cardinality({r \in S : r =< s}) = i
  BY <1>7
<1>9. QED
  BY <1>8 DEF Ith

\* Two lists of chunks, one after the other.
LEMMA ConcatTyped ==
  ASSUME NEW S, NEW a \in Seq(S), NEW b \in Seq(S)
  PROVE  a \o b \in Seq(S) /\ Len(a \o b) = Len(a) + Len(b)
OBVIOUS

\* A text's chunks: at least the list of its objects, and a chunk for each
\* section that is written.
LEMMA ChunksTyped ==
  ASSUME NEW text \in Texts
  PROVE  /\ ChunksOf(text) \in Seq(Chunk) /\ Len(ChunksOf(text)) \in Nat \ {0}
         /\ \A i \in 1 .. Len(ChunksOf(text)) : ChunksOf(text)[i] \in Chunk
<1> DEFINE written == {s \in Sections : text.body[s] # 0}
           ofSection == [i \in 1 .. Cardinality(written) |->
                           LET s == Ith(written, i) IN [names |-> {s}, version |-> text.body[s]]]
           list == <<[names |-> text.named, version |-> 0]>>
<1>1. ChunksOf(text) = list \o ofSection
  BY DEF ChunksOf
<1>2. written \subseteq Nat /\ IsFiniteSet(written) /\ written \subseteq Sections
  BY KnowledgeAssumption, FS_Subset
<1>3. Cardinality(written) \in Nat
  BY <1>2, FS_CardinalityType
<1>4. MaxVersion \in Nat
  BY KnowledgeAssumption
<1>5. \A s \in Sections : [names |-> {s}, version |-> text.body[s]] \in Chunk
  BY DEF Texts, Chunk
<1>6. \A i \in 1 .. Cardinality(written) : Ith(written, i) \in Sections
  <2> HIDE DEF written
  <2>1. QED
    BY <1>2, IthIsOne
<1>7. ofSection \in Seq(Chunk) /\ Len(ofSection) = Cardinality(written)
  <2> HIDE DEF written
  <2>1. \A i \in 1 .. Cardinality(written) : ofSection[i] \in Chunk
    BY <1>5, <1>6
  <2>2. ofSection \in [1 .. Cardinality(written) -> Chunk]
    BY <2>1
  <2> HIDE DEF ofSection
  <2>3. QED
    BY <1>3, <2>2
<1>8. list \in Seq(Chunk) /\ Len(list) = 1
  BY <1>4 DEF Texts, Chunk
<1> HIDE DEF list, ofSection
<1>9. list \o ofSection \in Seq(Chunk) /\ Len(list \o ofSection) = 1 + Cardinality(written)
  BY <1>7, <1>8, ConcatTyped
<1> HIDE DEF written
<1>10. ChunksOf(text) \in Seq(Chunk) /\ Len(ChunksOf(text)) \in Nat \ {0}
  BY <1>1, <1>3, <1>9
<1>11. QED
  BY <1>10

\* delete_stale_chunks keeps the first chunks as they are.
LEMMA SubSeqHead ==
  ASSUME NEW s \in Seq(Chunk), NEW n \in 0 .. Len(s)
  PROVE  /\ SubSeq(s, 1, n) \in Seq(Chunk) /\ Len(SubSeq(s, 1, n)) = n
         /\ \A i \in 1 .. n : SubSeq(s, 1, n)[i] = s[i]
OBVIOUS

\* What a steward does to its desk.
LEMMA DeskTypes ==
  ASSUME KnowledgeTypes, NEW p \in Stewards, NEW r \in Desks,
         steward' = [steward EXCEPT ![p] = r]
  PROVE  /\ steward' \in [Stewards -> Desks] /\ steward'[p] = r
         /\ \A q \in Stewards : q # p => steward'[q] = steward[q]
BY DEF KnowledgeTypes

\* Every step of a merge or a re-ingest leaves each desk where its text says.
LEMMA KnowledgeTyped ==
  ASSUME KnowledgeTypes, \A p \in Stewards : Chunked(p), KnowledgeNext
  PROVE  KnowledgeTypes' /\ \A p \in Stewards : Chunked(p)'
<1> USE DEF Git, Digest
<1>t. /\ steward \in [Stewards -> Desks] /\ corpus \in Seq(Chunk)
      /\ \A p \in Stewards : steward[p] \in Desks
      /\ canon \in Texts /\ index \in Texts /\ head \in Texts
      /\ snapshots \in Seq(Texts) /\ \A d \in DOMAIN snapshots : snapshots[d] \in Texts
      /\ told \in 0 .. Len(snapshots)
      /\ loose \in BOOLEAN /\ torn \in BOOLEAN /\ owed \in BOOLEAN
  BY DEF KnowledgeTypes
<1>d. AtDesk \in Desks /\ NoText \in Texts /\ AtDesk.step = "idle"
  <2>1. NoText \in Texts
    BY KnowledgeAssumption DEF NoText, Texts
  <2>2. QED
    BY <2>1 DEF AtDesk, Desks
<1>u. ASSUME UNCHANGED steward PROVE \A p \in Stewards : Chunked(p)'
  BY <1>u DEF Chunked
<1>1. ASSUME NEW text \in Written, TakeSnapshot(text)
      PROVE  KnowledgeTypes' /\ \A p \in Stewards : Chunked(p)'
  <2>1. /\ snapshots' \in Seq(Texts) /\ Len(snapshots') =< MaxSnapshots
        /\ told' \in 0 .. Len(snapshots')
    <3>1. text \in Texts /\ MaxSnapshots \in Nat /\ Len(snapshots) =< MaxSnapshots
      BY KnowledgeAssumption DEF KnowledgeTypes
    <3>2. CASE /\ Len(snapshots) < MaxSnapshots /\ snapshots' = Append(snapshots, text)
               /\ told' = told
      BY <1>t, <3>1, <3>2
    <3>3. CASE /\ snapshots # << >> /\ snapshots' = [snapshots EXCEPT ![Len(snapshots)] = text]
               /\ told' \in {0, told}
      BY <1>t, <3>1, <3>3
    <3>4. QED
      BY <1>1, <3>2, <3>3 DEF TakeSnapshot, Overtaken
  <2>2. KnowledgeTypes'
    <3>1. /\ UNCHANGED <<canon, index, head, corpus, steward, gaps, loose, torn, owed>>
          /\ shown' \in {{}, shown} /\ cut' \in {{}, cut}
      BY <1>1 DEF TakeSnapshot, Overtaken
    <3>2. QED
      BY <2>1, <3>1 DEF KnowledgeTypes
  <2>3. UNCHANGED steward
    BY <1>1 DEF TakeSnapshot
  <2>4. QED
    BY <1>u, <2>2, <2>3
<1>2. ASSUME SendDigest PROVE KnowledgeTypes' /\ \A p \in Stewards : Chunked(p)'
  <2>1. KnowledgeTypes'
    <3>1. told' \in 0 .. Len(snapshots)
      BY <1>2, <1>t DEF SendDigest
    <3>2. /\ UNCHANGED <<snapshots, canon, index, head, corpus, steward, gaps, loose, torn, owed>>
          /\ shown' \subseteq Sections /\ cut' \subseteq Sections
      BY <1>2 DEF SendDigest, Changed
    <3>3. QED
      BY <3>1, <3>2 DEF KnowledgeTypes
  <2>2. UNCHANGED steward
    BY <1>2 DEF SendDigest
  <2>3. QED
    BY <1>u, <2>1, <2>2
<1>3. ASSUME NEW p \in Stewards, NEW date \in DOMAIN snapshots, CopyOver(p, date)
      PROVE  KnowledgeTypes' /\ \A q \in Stewards : Chunked(q)'
  <2> DEFINE r == [steward[p] EXCEPT !.step = "add"]
  <2>1. steward' = [steward EXCEPT ![p] = r] /\ r \in Desks /\ r.step = "add"
    BY <1>3, <1>t DEF CopyOver, Desks
  <2> HIDE DEF r
  <2>2. /\ steward' \in [Stewards -> Desks] /\ steward'[p].step = "add"
        /\ \A q \in Stewards : q # p => steward'[q] = steward[q]
    BY <2>1, DeskTypes
  <2>3. KnowledgeTypes'
    <3>1. /\ canon' \in Texts /\ owed' = TRUE /\ told' \in {0, told}
          /\ shown' \in {{}, shown} /\ cut' \in {{}, cut}
          /\ UNCHANGED <<snapshots, index, head, corpus, gaps, loose, torn>>
      BY <1>3, <1>t DEF CopyOver
    <3>2. QED
      BY <1>t, <2>2, <3>1 DEF KnowledgeTypes
  <2>4. \A q \in Stewards : Chunked(q)'
    BY <2>2 DEF Chunked
  <2>5. QED
    BY <2>3, <2>4
<1>4. ASSUME NEW p \in Stewards, GitAdd(p) PROVE KnowledgeTypes' /\ \A q \in Stewards : Chunked(q)'
  <2> DEFINE r == [steward[p] EXCEPT !.step = "commit", !.alone = TRUE]
  <2>1. steward' = [steward EXCEPT ![p] = r] /\ r \in Desks /\ r.step = "commit"
    BY <1>4, <1>t DEF GitAdd, Desks
  <2> HIDE DEF r
  <2>2. /\ steward' \in [Stewards -> Desks] /\ steward'[p].step = "commit"
        /\ \A q \in Stewards : q # p => steward'[q] = steward[q]
    BY <2>1, DeskTypes
  <2>3. KnowledgeTypes'
    BY <1>4, <1>t, <2>2 DEF GitAdd, KnowledgeTypes
  <2>4. \A q \in Stewards : Chunked(q)'
    BY <2>2 DEF Chunked
  <2>5. QED
    BY <2>3, <2>4
<1>5. ASSUME NEW p \in Stewards, GitCommit(p) PROVE KnowledgeTypes' /\ \A q \in Stewards : Chunked(q)'
  <2>1. steward' = [steward EXCEPT ![p] = AtDesk]
    BY <1>5 DEF GitCommit
  <2>2. /\ steward' \in [Stewards -> Desks] /\ steward'[p].step = "idle"
        /\ \A q \in Stewards : q # p => steward'[q] = steward[q]
    BY <1>d, <2>1, DeskTypes
  <2>3. head' \in Texts /\ loose' \in BOOLEAN
    BY <1>5, <1>t DEF GitCommit, Desks
  <2>4. KnowledgeTypes'
    BY <1>5, <1>t, <2>2, <2>3 DEF GitCommit, KnowledgeTypes
  <2>5. \A q \in Stewards : Chunked(q)'
    BY <2>2 DEF Chunked
  <2>6. QED
    BY <2>4, <2>5
<1>6. ASSUME NEW p \in Stewards, ReadCanonical(p) PROVE KnowledgeTypes' /\ \A q \in Stewards : Chunked(q)'
  <2> DEFINE alone == \A r \in Stewards : ~ Ingesting(r)
             desk == [step |-> "ingest", text |-> canon, next |-> 1, alone |-> alone]
  <2>1. steward' = [q \in Stewards |-> IF q = p THEN desk ELSE [steward[q] EXCEPT !.alone = FALSE]]
    BY <1>6 DEF ReadCanonical
  <2>2. alone \in BOOLEAN
    OBVIOUS
  <2> HIDE DEF alone
  <2>3. desk \in Desks /\ \A q \in Stewards : [steward[q] EXCEPT !.alone = FALSE] \in Desks
    BY <1>t, <2>2 DEF Desks
  <2>4. steward' \in [Stewards -> Desks]
    BY <2>1, <2>3
  <2>5. KnowledgeTypes'
    <3>1. /\ UNCHANGED <<snapshots, told, canon, index, head, corpus, shown, cut, gaps, loose>>
          /\ owed' \in BOOLEAN /\ torn' \in BOOLEAN
      BY <1>6 DEF ReadCanonical
    <3>2. QED
      BY <1>t, <2>4, <3>1 DEF KnowledgeTypes
  <2>6. Chunked(p)'
    <3>1. steward'[p].step = "ingest" /\ steward'[p].next = 1 /\ steward'[p].text = canon
      BY <2>1
    <3>2. 1 \in 1 .. Len(ChunksOf(canon))
      BY <1>t, ChunksTyped
    <3>3. QED
      BY <3>1, <3>2 DEF Chunked
  <2>7. ASSUME NEW q \in Stewards, q # p PROVE Chunked(q)'
    <3>1. /\ steward'[q].step = steward[q].step /\ steward'[q].next = steward[q].next
          /\ steward'[q].text = steward[q].text
      BY <2>1, <2>7, <1>t DEF Desks
    <3>2. QED
      BY <3>1 DEF Chunked
  <2>8. QED
    BY <2>5, <2>6, <2>7
<1>7. ASSUME NEW p \in Stewards, IngestChunk(p) PROVE KnowledgeTypes' /\ \A q \in Stewards : Chunked(q)'
  <2> DEFINE new == ChunksOf(steward[p].text)
             n == steward[p].next
             r == [steward[p] EXCEPT !.step = IF n = Len(new) THEN "prune" ELSE "ingest", !.next = n + 1]
  <2>0. steward' = [steward EXCEPT ![p] = r] /\ steward[p].step = "ingest"
    BY <1>7, <1>t DEF IngestChunk
  <2>1. n \in 1 .. Len(new) /\ Len(new) \in Nat /\ new[n] \in Chunk /\ steward[p].text \in Texts
    <3>1. steward[p].text \in Texts
      BY <1>t DEF Desks
    <3>2. QED
      BY <2>0, <3>1, ChunksTyped DEF Chunked
  <2> HIDE DEF new, n
  <2> DEFINE then == IF n = Len(new) THEN "prune" ELSE "ingest"
  <2>a. then \in {"ingest", "prune"} /\ n + 1 \in Nat
    BY <2>1
  <2>2. /\ r \in Desks /\ r.text = steward[p].text /\ r.next = n + 1
        /\ r.step = IF n = Len(new) THEN "prune" ELSE "ingest"
    <3>1. steward[p] \in Desks /\ r = [steward[p] EXCEPT !.step = then, !.next = n + 1]
      BY <1>t
    <3> HIDE DEF then, r
    <3>2. /\ r \in Desks /\ r.text = steward[p].text /\ r.next = n + 1
          /\ r.step = then
      BY <2>a, <3>1 DEF Desks
    <3>3. QED
      BY <3>2 DEF then
  <2> HIDE DEF r
  <2>3. /\ steward' \in [Stewards -> Desks] /\ steward'[p] = r
        /\ \A q \in Stewards : q # p => steward'[q] = steward[q]
    BY <2>0, <2>2, DeskTypes
  <2>4. corpus' \in Seq(Chunk)
    <3>1. corpus' = IF n =< Len(corpus) THEN [corpus EXCEPT ![n] = new[n]] ELSE Append(corpus, new[n])
      BY <1>7 DEF IngestChunk, new, n
    <3>2. QED
      BY <1>t, <2>1, <3>1
  <2>5. KnowledgeTypes'
    BY <1>7, <1>t, <2>3, <2>4 DEF IngestChunk, KnowledgeTypes
  <2>6. Chunked(p)'
    <3>1. n = Len(new) => n + 1 = Len(new) + 1
      OBVIOUS
    <3>2. n # Len(new) => n + 1 \in 1 .. Len(new)
      BY <2>1
    <3>3. QED
      BY <2>2, <2>3, <3>1, <3>2 DEF Chunked, new
  <2>7. \A q \in Stewards : q # p => Chunked(q)'
    BY <2>3 DEF Chunked
  <2>8. QED
    BY <2>5, <2>6, <2>7
<1>8. ASSUME NEW p \in Stewards, PruneStale(p) PROVE KnowledgeTypes' /\ \A q \in Stewards : Chunked(q)'
  <2> DEFINE kept == Len(ChunksOf(steward[p].text))
  <2>1. steward' = [steward EXCEPT ![p] = AtDesk]
    BY <1>8 DEF PruneStale
  <2>2. /\ steward' \in [Stewards -> Desks] /\ steward'[p].step = "idle"
        /\ \A q \in Stewards : q # p => steward'[q] = steward[q]
    BY <1>d, <2>1, DeskTypes
  <2>3. corpus' = IF Len(corpus) > kept THEN SubSeq(corpus, 1, kept) ELSE corpus
    BY <1>8 DEF PruneStale
  <2>4. kept \in Nat
    BY <1>t, ChunksTyped DEF Desks
  <2> HIDE DEF kept
  <2>5. corpus' \in Seq(Chunk)
    BY <1>t, <2>3, <2>4, SubSeqHead
  <2>6. torn' \in BOOLEAN
    BY <1>8, <1>t DEF PruneStale, Desks
  <2>7. KnowledgeTypes'
    BY <1>8, <1>t, <2>2, <2>5, <2>6 DEF PruneStale, KnowledgeTypes
  <2>8. \A q \in Stewards : Chunked(q)'
    BY <2>2 DEF Chunked
  <2>9. QED
    BY <2>7, <2>8
<1>9. ASSUME NEW p \in Stewards, KillSteward(p) PROVE KnowledgeTypes' /\ \A q \in Stewards : Chunked(q)'
  <2>1. PICK still \in [Stewards -> BOOLEAN] :
          steward' = [q \in Stewards |-> IF q = p THEN AtDesk ELSE [steward[q] EXCEPT !.alone = still[q]]]
    <3> DEFINE still == [q \in Stewards |-> steward[q].alone /\ Merging(p) # Merging(q)]
    <3>1. still \in [Stewards -> BOOLEAN]
      BY <1>t DEF Desks
    <3>2. steward' = [q \in Stewards |-> IF q = p THEN AtDesk ELSE [steward[q] EXCEPT !.alone = still[q]]]
      BY <1>9 DEF KillSteward
    <3>3. QED
      BY <3>1, <3>2
  <2>2. \A q \in Stewards : [steward[q] EXCEPT !.alone = still[q]] \in Desks
    BY <1>t DEF Desks
  <2>3. steward' \in [Stewards -> Desks]
    BY <1>d, <2>1, <2>2
  <2>4. KnowledgeTypes'
    <3>1. /\ UNCHANGED <<snapshots, told, canon, index, head, corpus, shown, cut, gaps, owed>>
          /\ loose' \in BOOLEAN /\ torn' \in BOOLEAN
      BY <1>9 DEF KillSteward
    <3>2. QED
      BY <1>t, <2>3, <3>1 DEF KnowledgeTypes
  <2>5. ASSUME NEW q \in Stewards PROVE Chunked(q)'
    <3>1. CASE q = p
      BY <1>d, <2>1, <3>1 DEF Chunked
    <3>2. CASE q # p
      <4>1. /\ steward'[q].step = steward[q].step /\ steward'[q].next = steward[q].next
            /\ steward'[q].text = steward[q].text
        BY <2>1, <3>2, <1>t DEF Desks
      <4>2. QED
        BY <4>1 DEF Chunked
    <3>3. QED
      BY <3>1, <3>2
  <2>6. QED
    BY <2>4, <2>5
<1>10. ASSUME NEW s \in Scanned, ScanForGap(s) PROVE KnowledgeTypes' /\ \A p \in Stewards : Chunked(p)'
  <2>1. KnowledgeTypes'
    BY <1>10, KnowledgeAssumption DEF ScanForGap, KnowledgeTypes
  <2>2. UNCHANGED steward
    BY <1>10 DEF ScanForGap
  <2>3. QED
    BY <1>u, <2>1, <2>2
<1>11. QED
  BY <1>1, <1>2, <1>3, <1>4, <1>5, <1>6, <1>7, <1>8, <1>9, <1>10 DEF KnowledgeNext

\* What leaves the three copies of the file and the merges as they are, but
\* for an add that is no longer alone.
LEMMA CommitsFrame ==
  ASSUME CommitsStaged, CanonicalIsCommitted,
         UNCHANGED <<canon, index, head, loose>>,
         \A q \in Stewards : (steward'[q].step = "add") = (steward[q].step = "add"),
         \A q \in Stewards : (steward'[q].step = "commit") = (steward[q].step = "commit"),
         \A q \in Stewards : steward'[q].step = "commit" =>
           (steward'[q].alone => steward[q].alone)
  PROVE  CommitsStaged' /\ CanonicalIsCommitted'
<1>1. Staged' = Staged
  BY DEF Staged
<1>2. CommitsStaged'
  BY <1>1 DEF CommitsStaged
<1>3. CanonicalIsCommitted'
  BY DEF CanonicalIsCommitted, Merging
<1>4. QED
  BY <1>2, <1>3

\* A step moves one steward, or none.
LEMMA DesksOfASteward ==
  ASSUME KnowledgeTypes, NEW p \in Stewards
  PROVE  /\ \A date : CopyOver(p, date) =>
                           /\ steward'[p].step = "add"
                           /\ \A q \in Stewards : q # p => steward'[q] = steward[q]
         /\ GitAdd(p) => /\ steward'[p].step = "commit" /\ steward'[p].alone
                         /\ \A q \in Stewards : q # p => steward'[q] = steward[q]
         /\ (GitCommit(p) \/ PruneStale(p)) =>
              /\ steward'[p].step = "idle"
              /\ \A q \in Stewards : q # p => steward'[q] = steward[q]
         /\ IngestChunk(p) =>
              /\ steward'[p].step \in {"ingest", "prune"}
              /\ steward'[p].next = steward[p].next + 1
              /\ steward'[p].text = steward[p].text
              /\ steward'[p].alone = steward[p].alone
              /\ \A q \in Stewards : q # p => steward'[q] = steward[q]
         /\ ReadCanonical(p) =>
              /\ steward'[p].step = "ingest" /\ steward'[p].next = 1
              /\ steward'[p].text = canon
              /\ steward'[p].alone = \A r \in Stewards : ~ Ingesting(r)
              /\ \A q \in Stewards : q # p =>
                   /\ steward'[q].step = steward[q].step /\ ~ steward'[q].alone
         /\ KillSteward(p) =>
              /\ steward'[p].step = "idle"
              /\ \A q \in Stewards : q # p =>
                   /\ steward'[q].step = steward[q].step /\ steward'[q].text = steward[q].text
                   /\ steward'[q].next = steward[q].next
                   /\ steward'[q].alone = (steward[q].alone /\ Merging(p) # Merging(q))
<1>t. steward \in [Stewards -> Desks] /\ \A q \in Stewards : steward[q] \in Desks
  BY DEF KnowledgeTypes
<1>d. AtDesk.step = "idle"
  BY DEF AtDesk
<1>1. \A date : CopyOver(p, date) =>
                     /\ steward'[p].step = "add"
                     /\ \A q \in Stewards : q # p => steward'[q] = steward[q]
  BY <1>t DEF CopyOver, Desks
<1>2. GitAdd(p) => /\ steward'[p].step = "commit" /\ steward'[p].alone
                   /\ \A q \in Stewards : q # p => steward'[q] = steward[q]
  BY <1>t DEF GitAdd, Desks
<1>3. (GitCommit(p) \/ PruneStale(p)) =>
        /\ steward'[p].step = "idle"
        /\ \A q \in Stewards : q # p => steward'[q] = steward[q]
  BY <1>t, <1>d DEF GitCommit, PruneStale
<1>4. IngestChunk(p) =>
        /\ steward'[p].step \in {"ingest", "prune"}
        /\ steward'[p].next = steward[p].next + 1
        /\ steward'[p].text = steward[p].text
        /\ steward'[p].alone = steward[p].alone
        /\ \A q \in Stewards : q # p => steward'[q] = steward[q]
  BY <1>t DEF IngestChunk, Desks
<1>5. ReadCanonical(p) =>
        /\ steward'[p].step = "ingest" /\ steward'[p].next = 1
        /\ steward'[p].text = canon
        /\ steward'[p].alone = \A r \in Stewards : ~ Ingesting(r)
        /\ \A q \in Stewards : q # p =>
             /\ steward'[q].step = steward[q].step /\ ~ steward'[q].alone
  <2> SUFFICES ASSUME ReadCanonical(p)
               PROVE  /\ steward'[p].step = "ingest" /\ steward'[p].next = 1
                      /\ steward'[p].text = canon
                      /\ steward'[p].alone = \A r \in Stewards : ~ Ingesting(r)
                      /\ \A q \in Stewards : q # p =>
                           /\ steward'[q].step = steward[q].step /\ ~ steward'[q].alone
    OBVIOUS
  <2> DEFINE none == \A r \in Stewards : ~ Ingesting(r)
  <2>1. steward' = [q \in Stewards |->
                      IF q = p THEN [step |-> "ingest", text |-> canon, next |-> 1, alone |-> none]
                      ELSE [steward[q] EXCEPT !.alone = FALSE]]
    BY DEF ReadCanonical
  <2> HIDE DEF none
  <2>2. /\ steward'[p].step = "ingest" /\ steward'[p].next = 1
        /\ steward'[p].text = canon /\ steward'[p].alone = none
    BY <2>1
  <2>3. ASSUME NEW q \in Stewards, q # p
        PROVE  steward'[q].step = steward[q].step /\ ~ steward'[q].alone
    BY <1>t, <2>1, <2>3 DEF Desks
  <2>4. QED
    BY <2>2, <2>3 DEF none
<1>6. KillSteward(p) =>
        /\ steward'[p].step = "idle"
        /\ \A q \in Stewards : q # p =>
             /\ steward'[q].step = steward[q].step /\ steward'[q].text = steward[q].text
             /\ steward'[q].next = steward[q].next
             /\ steward'[q].alone = (steward[q].alone /\ Merging(p) # Merging(q))
  BY <1>t, <1>d DEF KillSteward, Desks
<1>7. QED
  BY <1>1, <1>2, <1>3, <1>4, <1>5, <1>6

\* merge and _commit_canonical: a step keeps HEAD the canonical file, or a
\* merge under way, or the mark of one that was left half done.
LEMMA CommitsKept ==
  ASSUME KnowledgeTypes, CommitsStaged, CanonicalIsCommitted, KnowledgeNext
  PROVE  CommitsStaged' /\ CanonicalIsCommitted'
<1> USE DEF Git
<1>a. ASSUME NEW p \in Stewards PROVE steward[p].step \in {"idle", "add", "commit", "ingest", "prune"}
  BY DEF KnowledgeTypes, Desks
<1>u. ASSUME UNCHANGED <<steward, canon, index, head, loose>>
      PROVE  CommitsStaged' /\ CanonicalIsCommitted'
  BY <1>u, CommitsFrame
<1>1. ASSUME NEW text \in Written, TakeSnapshot(text)
      PROVE  CommitsStaged' /\ CanonicalIsCommitted'
  BY <1>1, <1>u DEF TakeSnapshot
<1>2. ASSUME SendDigest PROVE CommitsStaged' /\ CanonicalIsCommitted'
  BY <1>2, <1>u DEF SendDigest
<1>3. ASSUME NEW p \in Stewards, NEW date \in DOMAIN snapshots, CopyOver(p, date) PROVE CommitsStaged' /\ CanonicalIsCommitted'
  <2>1. steward'[p].step = "add"
    BY <1>3, DesksOfASteward
  <2>2. QED
    BY <2>1 DEF CommitsStaged, Staged, CanonicalIsCommitted, Merging
<1>4. ASSUME NEW p \in Stewards, GitAdd(p) PROVE CommitsStaged' /\ CanonicalIsCommitted'
  <2>1. steward'[p].step = "commit" /\ index' = canon /\ canon' = canon
    BY <1>4, DesksOfASteward DEF GitAdd
  <2>2. QED
    BY <2>1 DEF CommitsStaged, Staged, CanonicalIsCommitted, Merging
<1>5. ASSUME NEW p \in Stewards, GitCommit(p) PROVE CommitsStaged' /\ CanonicalIsCommitted'
  <2>1. /\ steward[p].step = "commit" /\ steward'[p].step = "idle"
        /\ \A q \in Stewards : q # p => steward'[q] = steward[q]
    BY <1>5, DesksOfASteward DEF GitCommit
  <2>2. /\ head' = index /\ canon' = canon /\ index' = index
        /\ loose' = (loose /\ ~ steward[p].alone)
    BY <1>5 DEF GitCommit
  <2>3. Staged => Staged'
    BY <2>1, <2>2 DEF Staged
  <2>4. ~ loose' => Staged
    BY <2>1, <2>2 DEF CommitsStaged
  <2>5. CommitsStaged'
    <3> SUFFICES ASSUME NEW q \in Stewards, steward'[q].step = "commit",
                        steward'[q].alone \/ ~ loose'
                 PROVE  Staged'
      BY DEF CommitsStaged
    <3>1. q # p /\ steward[q].step = "commit" /\ (steward[q].alone \/ ~ loose')
      BY <2>1
    <3>2. Staged
      BY <2>4, <3>1 DEF CommitsStaged
    <3>3. QED
      BY <2>3, <3>2
  <2>6. CanonicalIsCommitted'
    <3>1. CASE loose'
      BY <3>1 DEF CanonicalIsCommitted
    <3>2. CASE ~ loose'
      <4>1. index = canon \/ \E q \in Stewards : q # p /\ steward[q].step = "add"
        BY <2>1, <2>4, <3>2 DEF Staged
      <4>2. QED
        BY <2>1, <2>2, <4>1 DEF CanonicalIsCommitted, Merging
    <3>3. QED
      BY <3>1, <3>2
  <2>7. QED
    BY <2>5, <2>6
<1>6. ASSUME NEW p \in Stewards, ReadCanonical(p) PROVE CommitsStaged' /\ CanonicalIsCommitted'
  <2>1. /\ steward[p].step = "idle" /\ UNCHANGED <<canon, index, head, loose>>
    BY <1>6 DEF ReadCanonical
  <2>2. /\ steward'[p].step = "ingest"
        /\ \A q \in Stewards : q # p => steward'[q].step = steward[q].step /\ ~ steward'[q].alone
    BY <1>6, DesksOfASteward
  <2>3. QED
    BY <2>1, <2>2, CommitsFrame
<1>7. ASSUME NEW p \in Stewards, IngestChunk(p) PROVE CommitsStaged' /\ CanonicalIsCommitted'
  <2>1. steward[p].step = "ingest" /\ UNCHANGED <<canon, index, head, loose>>
    BY <1>7 DEF IngestChunk
  <2>2. /\ steward'[p].step \in {"ingest", "prune"}
        /\ \A q \in Stewards : q # p => steward'[q] = steward[q]
    BY <1>7, DesksOfASteward
  <2>3. QED
    BY <2>1, <2>2, CommitsFrame
<1>8. ASSUME NEW p \in Stewards, PruneStale(p) PROVE CommitsStaged' /\ CanonicalIsCommitted'
  <2>1. steward[p].step = "prune" /\ UNCHANGED <<canon, index, head, loose>>
    BY <1>8 DEF PruneStale
  <2>2. /\ steward'[p].step = "idle"
        /\ \A q \in Stewards : q # p => steward'[q] = steward[q]
    BY <1>8, DesksOfASteward
  <2>3. QED
    BY <2>1, <2>2, CommitsFrame
<1>9. ASSUME NEW p \in Stewards, KillSteward(p) PROVE CommitsStaged' /\ CanonicalIsCommitted'
  <2>1. /\ steward'[p].step = "idle"
        /\ \A q \in Stewards : q # p =>
             /\ steward'[q].step = steward[q].step
             /\ steward'[q].alone = (steward[q].alone /\ Merging(p) # Merging(q))
    BY <1>9, DesksOfASteward
  <2>2. loose' = (loose \/ Merging(p)) /\ UNCHANGED <<canon, index, head>>
    BY <1>9 DEF KillSteward
  <2>3. CASE Merging(p)
    <3>1. loose'
      BY <2>2, <2>3
    <3>2. \A q \in Stewards : steward'[q].step = "commit" => ~ steward'[q].alone
      BY <2>1, <2>3 DEF Merging
    <3>3. QED
      BY <3>1, <3>2 DEF CommitsStaged, CanonicalIsCommitted
  <2>4. CASE ~ Merging(p)
    <3>1. loose' = (loose \/ FALSE)
      BY <2>2, <2>4
    <3>2. UNCHANGED loose
      BY <3>1 DEF KnowledgeTypes
    <3>3. steward[p].step \notin {"add", "commit"}
      BY <2>4 DEF Merging
    <3>4. QED
      BY <2>1, <2>2, <3>2, <3>3, CommitsFrame
  <2>5. QED
    BY <2>3, <2>4
<1>10. ASSUME NEW s \in Scanned, ScanForGap(s) PROVE CommitsStaged' /\ CanonicalIsCommitted'
  BY <1>10, <1>u DEF ScanForGap
<1>11. QED
  BY <1>1, <1>2, <1>3, <1>4, <1>5, <1>6, <1>7, <1>8, <1>9, <1>10 DEF KnowledgeNext

\* render_summary, send_weekly_digest and merge: a step leaves the digest that
\* stands true of its two files, and a merge under it changes what it listed
\* or had no room for.
LEMMA DigestKept ==
  ASSUME KnowledgeTypes, DigestStands, MergedAsShown, KnowledgeNext
  PROVE  DigestStands' /\ MergedAsShown'
<1> USE DEF Git, Digest
<1>t. snapshots \in Seq(Texts) /\ told \in 0 .. Len(snapshots) /\ Len(snapshots) \in Nat
  BY DEF KnowledgeTypes
<1>u. ASSUME UNCHANGED <<canon, snapshots, shown, cut, told, surprise>>
      PROVE  DigestStands' /\ MergedAsShown'
  BY <1>u DEF DigestStands, MergedAsShown, Changed
<1>o. ASSUME told' = 0, surprise' = {} PROVE DigestStands' /\ MergedAsShown'
  BY <1>o DEF DigestStands, MergedAsShown
<1>1. ASSUME NEW text \in Written, TakeSnapshot(text) PROVE DigestStands' /\ MergedAsShown'
  <2>1. CASE Overtaken
    BY <1>o, <2>1 DEF Overtaken, MergedAsShown
  <2>2. CASE /\ UNCHANGED <<canon, shown, cut, told, surprise>>
             /\ \/ snapshots' = Append(snapshots, text)
                \/ /\ snapshots' = [snapshots EXCEPT ![Len(snapshots)] = text]
                   /\ told # Len(snapshots)
    <3>1. told # 0 => snapshots'[told] = snapshots[told]
      BY <1>t, <2>2
    <3>2. QED
      BY <2>2, <3>1 DEF DigestStands, MergedAsShown, Changed
  <2>3. QED
    BY <1>1, <2>1, <2>2 DEF TakeSnapshot
<1>2. ASSUME SendDigest PROVE DigestStands' /\ MergedAsShown'
  <2> DEFINE listed == Changed(canon, snapshots[Len(snapshots)])
  <2>1. /\ told' = Len(snapshots) /\ UNCHANGED <<snapshots, canon, surprise>>
        /\ shown' \union cut' = listed
    BY <1>2 DEF SendDigest
  <2>2. QED
    BY <2>1 DEF DigestStands, MergedAsShown, Changed
<1>3. ASSUME NEW p \in Stewards, NEW date \in DOMAIN snapshots, CopyOver(p, date)
      PROVE  DigestStands' /\ MergedAsShown'
  <2>1. /\ canon' = snapshots[date] /\ snapshots' = snapshots
        /\ surprise' = surprise \union
             (IF date = told
              THEN {s \in Sections : canon.body[s] # snapshots[date].body[s]} \ (shown \union cut)
              ELSE {})
        /\ IF canon = snapshots[date] THEN UNCHANGED <<told, shown, cut>> ELSE told' = 0
    BY <1>3 DEF CopyOver
  <2>2. date # 0
    BY <1>t
  <2>3. date = told => {s \in Sections : canon.body[s] # snapshots[date].body[s]}
                          \ (shown \union cut) = {}
    BY <2>2 DEF DigestStands, Changed
  <2>4. surprise' = {}
    BY <2>1, <2>3 DEF MergedAsShown
  <2>5. CASE canon = snapshots[date]
    BY <1>u, <2>1, <2>4, <2>5 DEF MergedAsShown
  <2>6. CASE canon # snapshots[date]
    BY <1>o, <2>1, <2>4, <2>6
  <2>7. QED
    BY <2>5, <2>6
<1>4. ASSUME NEW p \in Stewards, GitAdd(p) \/ GitCommit(p) \/ ReadCanonical(p) \/ IngestChunk(p)
                                 \/ PruneStale(p) \/ KillSteward(p)
      PROVE  DigestStands' /\ MergedAsShown'
  BY <1>4, <1>u DEF GitAdd, GitCommit, ReadCanonical, IngestChunk, PruneStale, KillSteward
<1>5. ASSUME NEW s \in Scanned, ScanForGap(s) PROVE DigestStands' /\ MergedAsShown'
  BY <1>5, <1>u DEF ScanForGap
<1>6. QED
  BY <1>1, <1>2, <1>3, <1>4, <1>5 DEF KnowledgeNext

\* What leaves the file, the collection and the re-ingests as they are.
LEMMA CorpusFrame ==
  ASSUME CorpusFollows, TornTold, CorpusIsTheCanonical,
         UNCHANGED <<canon, corpus, torn, owed>>,
         \A q \in Stewards : Ingesting(q)' = Ingesting(q),
         \A q \in Stewards : Ingesting(q) =>
           /\ steward'[q].text = steward[q].text /\ steward'[q].next = steward[q].next
           /\ steward'[q].alone = steward[q].alone
  PROVE  CorpusFollows' /\ TornTold' /\ CorpusIsTheCanonical'
<1>1. CorpusFollows'
  <2> SUFFICES ASSUME NEW q \in Stewards, Ingesting(q)', steward'[q].alone PROVE Follows(q)'
    BY DEF CorpusFollows
  <2>1. Ingesting(q) /\ steward[q].alone
    OBVIOUS
  <2>2. Follows(q)
    BY <2>1 DEF CorpusFollows
  <2>3. steward'[q].text = steward[q].text /\ steward'[q].next = steward[q].next
    BY <2>1
  <2>4. QED
    BY <2>2, <2>3 DEF Follows
<1>2. TornTold'
  BY DEF TornTold
<1>3. CorpusIsTheCanonical'
  BY DEF CorpusIsTheCanonical
<1>4. QED
  BY <1>1, <1>2, <1>3

\* The upsert of the next chunk.
LEMMA PrefixGrows ==
  ASSUME NEW old \in Seq(Chunk), NEW n \in Nat \ {0}, NEW c \in Chunk,
         \A i \in 1 .. n - 1 : i =< Len(old),
         NEW new, new = IF n =< Len(old) THEN [old EXCEPT ![n] = c] ELSE Append(old, c)
  PROVE  /\ n =< Len(new) /\ new[n] = c
         /\ \A i \in 1 .. n - 1 : i =< Len(new) /\ new[i] = old[i]
<1>1. Len(old) \in Nat
  OBVIOUS
<1>2. Len(old) >= n - 1
  <2>1. CASE n = 1
    BY <1>1, <2>1
  <2>2. CASE n # 1
    <3>1. n - 1 \in 1 .. n - 1
      BY <2>2
    <3>2. QED
      BY <3>1
  <2>3. QED
    BY <2>1, <2>2
<1>3. CASE n =< Len(old)
  BY <1>1, <1>2, <1>3
<1>4. CASE ~ (n =< Len(old))
  <2>1. Len(old) = n - 1 /\ new = Append(old, c)
    BY <1>1, <1>2, <1>4
  <2>2. QED
    BY <2>1
<1>5. QED
  BY <1>3, <1>4

\* Two sequences of chunks that are the same chunk by chunk.
LEMMA SameChunks ==
  ASSUME NEW a \in Seq(Chunk), NEW b \in Seq(Chunk), Len(a) = Len(b),
         \A i \in 1 .. Len(a) : a[i] = b[i]
  PROVE  a = b
OBVIOUS

\* reingest_file: a step keeps a re-ingest that runs alone true to its text
\* chunk by chunk, and what it leaves behind is the file's chunks.
LEMMA CorpusKept ==
  ASSUME KnowledgeTypes, \A p \in Stewards : Chunked(p),
         CorpusFollows, TornTold, CorpusIsTheCanonical, KnowledgeNext
  PROVE  CorpusFollows' /\ TornTold' /\ CorpusIsTheCanonical'
<1> USE DEF Git
<1>a. \A p \in Stewards : steward[p].step \in {"idle", "add", "commit", "ingest", "prune"}
  BY DEF KnowledgeTypes, Desks
<1>b. torn \in BOOLEAN /\ owed \in BOOLEAN /\ corpus \in Seq(Chunk)
      /\ \A p \in Stewards : steward[p].alone \in BOOLEAN /\ steward[p].text \in Texts
  BY DEF KnowledgeTypes, Desks
<1>u. ASSUME UNCHANGED <<steward, canon, corpus, torn, owed>>
      PROVE  CorpusFollows' /\ TornTold' /\ CorpusIsTheCanonical'
  BY <1>u, CorpusFrame DEF Ingesting
<1>1. ASSUME NEW text \in Written, TakeSnapshot(text)
      PROVE  CorpusFollows' /\ TornTold' /\ CorpusIsTheCanonical'
  BY <1>1, <1>u DEF TakeSnapshot
<1>2. ASSUME SendDigest PROVE CorpusFollows' /\ TornTold' /\ CorpusIsTheCanonical'
  BY <1>2, <1>u DEF SendDigest
<1>3. ASSUME NEW p \in Stewards, NEW date \in DOMAIN snapshots, CopyOver(p, date)
      PROVE  CorpusFollows' /\ TornTold' /\ CorpusIsTheCanonical'
  <2>1. /\ steward[p].step = "idle" /\ owed' = TRUE /\ UNCHANGED <<corpus, torn>>
        /\ steward'[p].step = "add" /\ \A q \in Stewards : q # p => steward'[q] = steward[q]
    BY <1>3, DesksOfASteward DEF CopyOver
  <2>2. \A q \in Stewards : /\ Ingesting(q)' = Ingesting(q)
                            /\ Ingesting(q) => steward'[q] = steward[q]
    BY <2>1 DEF Ingesting
  <2>3. CorpusFollows'
    <3> SUFFICES ASSUME NEW q \in Stewards, Ingesting(q)', steward'[q].alone PROVE Follows(q)'
      BY DEF CorpusFollows
    <3>1. Follows(q) /\ steward'[q] = steward[q]
      BY <2>2 DEF CorpusFollows
    <3>2. QED
      BY <2>1, <2>2, <3>1 DEF Follows
  <2>4. TornTold'
    BY <2>1, <2>2 DEF TornTold
  <2>5. CorpusIsTheCanonical'
    BY <2>1 DEF CorpusIsTheCanonical
  <2>6. QED
    BY <2>3, <2>4, <2>5
<1>4. ASSUME NEW p \in Stewards, GitAdd(p) \/ GitCommit(p)
      PROVE  CorpusFollows' /\ TornTold' /\ CorpusIsTheCanonical'
  <2>1. /\ steward[p].step \in {"add", "commit"} /\ UNCHANGED <<canon, corpus, torn, owed>>
        /\ steward'[p].step \in {"commit", "idle"}
        /\ \A q \in Stewards : q # p => steward'[q] = steward[q]
    BY <1>4, DesksOfASteward DEF GitAdd, GitCommit
  <2>2. \A q \in Stewards : /\ Ingesting(q)' = Ingesting(q)
                            /\ Ingesting(q) => steward'[q] = steward[q]
    BY <2>1 DEF Ingesting
  <2>3. QED
    BY <2>1, <2>2, CorpusFrame
<1>5. ASSUME NEW p \in Stewards, ReadCanonical(p)
      PROVE  CorpusFollows' /\ TornTold' /\ CorpusIsTheCanonical'
  <2>1. /\ steward[p].step = "idle" /\ canon' = canon
        /\ torn' = (torn \/ \E r \in Stewards : Ingesting(r))
    BY <1>5 DEF ReadCanonical
  <2>2. /\ steward'[p].step = "ingest" /\ steward'[p].next = 1
        /\ steward'[p].text = canon
        /\ steward'[p].alone = \A r \in Stewards : ~ Ingesting(r)
        /\ \A q \in Stewards : q # p =>
             /\ steward'[q].step = steward[q].step /\ ~ steward'[q].alone
    BY <1>5, DesksOfASteward
  <2>3. Ingesting(p)' /\ \A q \in Stewards : q # p => Ingesting(q)' = Ingesting(q)
    BY <2>2 DEF Ingesting
  <2>4. CorpusFollows'
    <3> SUFFICES ASSUME NEW q \in Stewards, Ingesting(q)', steward'[q].alone PROVE Follows(q)'
      BY DEF CorpusFollows
    <3>1. q = p /\ \A r \in Stewards : ~ Ingesting(r)
      BY <2>2
    <3>2. \A r \in Stewards : Ingesting(r)' => r = p
      BY <2>3, <3>1
    <3>3. \A i \in 1 .. steward'[p].next - 1 : FALSE
      BY <2>2
    <3>4. QED
      BY <2>1, <2>2, <3>1, <3>2, <3>3 DEF Follows
  <2>5. TornTold'
    <3> SUFFICES ASSUME ~ torn', NEW q \in Stewards, Ingesting(q)' PROVE steward'[q].alone
      BY DEF TornTold
    <3>1. \A r \in Stewards : ~ Ingesting(r)
      BY <2>1
    <3>2. q = p
      BY <2>3, <3>1
    <3>3. QED
      BY <2>2, <3>1, <3>2
  <2>6. CorpusIsTheCanonical'
    BY <2>3 DEF CorpusIsTheCanonical
  <2>7. QED
    BY <2>4, <2>5, <2>6
<1>6. ASSUME NEW p \in Stewards, IngestChunk(p)
      PROVE  CorpusFollows' /\ TornTold' /\ CorpusIsTheCanonical'
  <2> DEFINE n == steward[p].next
             new == ChunksOf(steward[p].text)
  <2>1. /\ steward[p].step = "ingest" /\ UNCHANGED <<canon, torn, owed>>
        /\ corpus' = IF n =< Len(corpus) THEN [corpus EXCEPT ![n] = new[n]]
                     ELSE Append(corpus, new[n])
    BY <1>6 DEF IngestChunk
  <2>2. /\ steward'[p].step \in {"ingest", "prune"}
        /\ steward'[p].next = n + 1
        /\ steward'[p].text = steward[p].text
        /\ steward'[p].alone = steward[p].alone
        /\ \A q \in Stewards : q # p => steward'[q] = steward[q]
    BY <1>6, DesksOfASteward
  <2>3. Ingesting(p) /\ Ingesting(p)' /\ \A q \in Stewards : Ingesting(q)' = Ingesting(q)
    BY <2>1, <2>2 DEF Ingesting
  <2>4. n \in 1 .. Len(new) /\ Len(new) \in Nat /\ new[n] \in Chunk
    BY <1>b, <2>1, ChunksTyped DEF Chunked
  <2>5. CorpusFollows'
    <3> SUFFICES ASSUME NEW q \in Stewards, Ingesting(q)', steward'[q].alone PROVE Follows(q)'
      BY DEF CorpusFollows
    <3>1. Ingesting(q) /\ steward[q].alone
      BY <2>2, <2>3
    <3>2. Follows(q)
      BY <3>1 DEF CorpusFollows
    <3>3. q = p
      BY <2>3, <3>2 DEF Follows
    <3>4. \A r \in Stewards : Ingesting(r)' => r = p
      BY <2>3, <3>2, <3>3 DEF Follows
    <3>5. \A i \in 1 .. n - 1 : i =< Len(corpus) /\ corpus[i] = new[i]
      BY <3>2, <3>3 DEF Follows
    <3>6. ~ owed' => steward'[p].text = canon'
      BY <2>1, <2>2, <3>2, <3>3 DEF Follows
    <3> HIDE DEF n, new
    <3>7. /\ n =< Len(corpus') /\ corpus'[n] = new[n]
          /\ \A i \in 1 .. n - 1 : i =< Len(corpus') /\ corpus'[i] = corpus[i]
      BY <1>b, <2>1, <2>4, <3>5, PrefixGrows
    <3>8. \A i \in 1 .. n : i =< Len(corpus') /\ corpus'[i] = new[i]
      <4> SUFFICES ASSUME NEW i \in 1 .. n PROVE i =< Len(corpus') /\ corpus'[i] = new[i]
        OBVIOUS
      <4>1. CASE i = n
        BY <3>7, <4>1
      <4>2. CASE i # n
        <5>1. i \in 1 .. n - 1
          BY <2>4, <4>2
        <5>2. QED
          BY <3>5, <3>7, <5>1
      <4>3. QED
        BY <4>1, <4>2
    <3>9. steward'[p].next - 1 = n /\ ChunksOf(steward'[p].text) = new
      BY <2>2, <2>4 DEF new
    <3>10. \A i \in 1 .. steward'[p].next - 1 :
             i =< Len(corpus') /\ corpus'[i] = ChunksOf(steward'[p].text)[i]
      BY <3>8, <3>9
    <3>11. Follows(p)'
      BY <3>4, <3>6, <3>10 DEF Follows
    <3>12. QED
      BY <3>3, <3>11
  <2>6. TornTold'
    BY <2>1, <2>2, <2>3 DEF TornTold
  <2>7. CorpusIsTheCanonical'
    BY <2>3 DEF CorpusIsTheCanonical
  <2>8. QED
    BY <2>5, <2>6, <2>7
<1>7. ASSUME NEW p \in Stewards, PruneStale(p)
      PROVE  CorpusFollows' /\ TornTold' /\ CorpusIsTheCanonical'
  <2> DEFINE new == ChunksOf(steward[p].text)
  <2>1. /\ steward[p].step = "prune" /\ UNCHANGED <<canon, owed>>
        /\ torn' = (torn /\ ~ steward[p].alone)
        /\ corpus' = IF Len(corpus) > Len(new) THEN SubSeq(corpus, 1, Len(new)) ELSE corpus
    BY <1>7 DEF PruneStale
  <2>2. /\ steward'[p].step = "idle"
        /\ \A q \in Stewards : q # p => steward'[q] = steward[q]
    BY <1>7, DesksOfASteward
  <2>3. Ingesting(p) /\ ~ Ingesting(p)'
        /\ \A q \in Stewards : q # p => Ingesting(q)' = Ingesting(q)
    BY <2>1, <2>2 DEF Ingesting
  <2>4. \A q \in Stewards : (Ingesting(q) /\ steward[q].alone) => q = p
    BY <2>3 DEF CorpusFollows, Follows
  <2>5. CorpusFollows'
    <3> SUFFICES ASSUME NEW q \in Stewards, Ingesting(q)', steward'[q].alone PROVE FALSE
      BY DEF CorpusFollows
    <3>1. QED
      BY <2>2, <2>3, <2>4
  <2>6. ~ torn' => steward[p].alone
    BY <2>1, <2>3 DEF TornTold
  <2>7. TornTold'
    <3> SUFFICES ASSUME ~ torn', NEW q \in Stewards, Ingesting(q)' PROVE FALSE
      BY DEF TornTold
    <3>1. q # p /\ Ingesting(q)
      BY <2>3
    <3>2. Follows(p)
      BY <2>3, <2>6 DEF CorpusFollows
    <3>3. QED
      BY <3>1, <3>2 DEF Follows
  <2>8. CorpusIsTheCanonical'
    <3> SUFFICES ASSUME ~ torn', ~ owed' PROVE corpus' = ChunksOf(canon')
      BY DEF CorpusIsTheCanonical
    <3>1. Follows(p)
      BY <2>3, <2>6 DEF CorpusFollows
    <3>2. steward[p].text = canon /\ canon' = canon
      BY <2>1, <3>1 DEF Follows
    <3>3. steward[p].next = Len(new) + 1
      BY <2>1 DEF Chunked
    <3>4. new \in Seq(Chunk) /\ Len(new) \in Nat \ {0}
      BY <1>b, ChunksTyped
    <3>5. \A i \in 1 .. steward[p].next - 1 : i =< Len(corpus) /\ corpus[i] = new[i]
      BY <3>1 DEF Follows
    <3> HIDE DEF new
    <3>6. \A i \in 1 .. Len(new) : i =< Len(corpus) /\ corpus[i] = new[i]
      BY <3>3, <3>4, <3>5
    <3>7. Len(corpus) \in Nat /\ Len(new) =< Len(corpus)
      <4>1. Len(new) \in 1 .. Len(new)
        BY <3>4
      <4>2. QED
        BY <1>b, <3>6, <4>1
    <3>8. /\ corpus' \in Seq(Chunk) /\ Len(corpus') = Len(new)
          /\ \A i \in 1 .. Len(new) : corpus'[i] = corpus[i]
      <4>1. CASE Len(corpus) > Len(new)
        <5>1. corpus' = SubSeq(corpus, 1, Len(new)) /\ Len(new) \in 0 .. Len(corpus)
          BY <2>1, <3>4, <3>7, <4>1
        <5>2. QED
          BY <1>b, <5>1, SubSeqHead
      <4>2. CASE ~ (Len(corpus) > Len(new))
        <5>1. corpus' = corpus /\ Len(corpus) = Len(new)
          BY <2>1, <3>4, <3>7, <4>2
        <5>2. QED
          BY <1>b, <5>1
      <4>3. QED
        BY <4>1, <4>2
    <3>9. corpus' = new
      BY <3>4, <3>6, <3>8, SameChunks
    <3>10. QED
      BY <3>2, <3>9 DEF new
  <2>9. QED
    BY <2>5, <2>7, <2>8
<1>8. ASSUME NEW p \in Stewards, KillSteward(p)
      PROVE  CorpusFollows' /\ TornTold' /\ CorpusIsTheCanonical'
  <2>1. /\ steward[p].step # "idle" /\ UNCHANGED <<canon, corpus, owed>>
        /\ torn' = (torn \/ Ingesting(p))
    BY <1>8 DEF KillSteward
  <2>2. /\ steward'[p].step = "idle"
        /\ \A q \in Stewards : q # p =>
             /\ steward'[q].step = steward[q].step /\ steward'[q].text = steward[q].text
             /\ steward'[q].next = steward[q].next
             /\ steward'[q].alone = (steward[q].alone /\ Merging(p) # Merging(q))
    BY <1>8, DesksOfASteward
  <2>3. ~ Ingesting(p)' /\ \A q \in Stewards : q # p => Ingesting(q)' = Ingesting(q)
    BY <2>2 DEF Ingesting
  <2>4. \A q \in Stewards : Ingesting(q) => ~ Merging(q)
    BY DEF Ingesting, Merging
  <2>5. CASE Ingesting(p)
    <3>1. torn'
      BY <2>1, <2>5
    <3>2. \A q \in Stewards : Ingesting(q)' => ~ steward'[q].alone
      <4> SUFFICES ASSUME NEW q \in Stewards, Ingesting(q)' PROVE ~ steward'[q].alone
        OBVIOUS
      <4>1. q # p /\ Ingesting(q)
        BY <2>3
      <4>2. Merging(p) = FALSE /\ Merging(q) = FALSE
        BY <2>4, <2>5, <4>1 DEF Merging
      <4>3. steward'[q].alone = (steward[q].alone /\ Merging(p) # Merging(q))
        BY <2>2, <4>1
      <4>4. QED
        BY <4>2, <4>3
    <3>3. QED
      BY <3>1, <3>2 DEF CorpusFollows, TornTold, CorpusIsTheCanonical
  <2>6. CASE ~ Ingesting(p)
    <3>1. Merging(p)
      BY <1>a, <2>1, <2>6 DEF Ingesting, Merging
    <3>2. UNCHANGED torn
      BY <1>b, <2>1, <2>6
    <3>3. \A q \in Stewards : Ingesting(q)' = Ingesting(q)
      BY <2>3, <2>6 DEF Ingesting
    <3>4. ASSUME NEW q \in Stewards, Ingesting(q)
          PROVE  /\ steward'[q].text = steward[q].text /\ steward'[q].next = steward[q].next
                 /\ steward'[q].alone = steward[q].alone
      <4>1. q # p /\ ~ Merging(q)
        BY <2>4, <2>6, <3>4
      <4>2. steward'[q].alone = (steward[q].alone /\ TRUE # FALSE)
        BY <2>2, <3>1, <4>1
      <4>3. QED
        BY <1>b, <2>2, <4>1, <4>2
    <3>5. QED
      BY <2>1, <3>2, <3>3, <3>4, CorpusFrame
  <2>7. QED
    BY <2>5, <2>6
<1>9. ASSUME NEW s \in Scanned, ScanForGap(s)
      PROVE  CorpusFollows' /\ TornTold' /\ CorpusIsTheCanonical'
  BY <1>9, <1>u DEF ScanForGap
<1>10. QED
  BY <1>1, <1>2, <1>3, <1>4, <1>5, <1>6, <1>7, <1>8, <1>9 DEF KnowledgeNext

\* The invariant of the refresh is inductive: the files' part, the digest's
\* and the collection's, over the desks of merges and re-ingests.
THEOREM KnowledgeInductive ==
  /\ KnowledgeInit => KnowledgeIInv
  /\ KnowledgeIInv /\ [KnowledgeNext]_knowledgeVars => KnowledgeIInv'
<1>1. ASSUME KnowledgeInit PROVE KnowledgeIInv
  <2>1. NoText \in Texts
    BY KnowledgeAssumption DEF NoText, Texts
  <2>2. AtDesk \in Desks /\ AtDesk.step = "idle"
    BY <2>1 DEF AtDesk, Desks
  <2>3. \A p \in Stewards : steward[p].step = "idle"
    BY <1>1, <2>2 DEF KnowledgeInit
  <2>4. KnowledgeTypes
    <3>1. steward \in [Stewards -> Desks]
      BY <1>1, <2>2 DEF KnowledgeInit
    <3>2. /\ corpus \in Seq(Chunk) /\ snapshots \in Seq(Texts) /\ Len(snapshots) =< MaxSnapshots
          /\ told \in 0 .. Len(snapshots)
      BY <1>1, KnowledgeAssumption DEF KnowledgeInit
    <3>3. loose \in BOOLEAN /\ torn \in BOOLEAN /\ owed \in BOOLEAN
      BY <1>1, Zenon DEF KnowledgeInit
    <3>4. QED
      BY <1>1, <2>1, <3>1, <3>2, <3>3, Zenon DEF KnowledgeInit, KnowledgeTypes
  <2>5. \A p \in Stewards : Chunked(p) /\ ~ Merging(p) /\ ~ Ingesting(p)
    BY <2>3 DEF Chunked, Merging, Ingesting
  <2>6. CommitsStaged
    BY <2>3 DEF CommitsStaged
  <2>7. CorpusFollows /\ TornTold
    BY <2>5 DEF CorpusFollows, TornTold
  <2>8. /\ DigestStands /\ CanonicalIsCommitted /\ CorpusIsTheCanonical /\ MergedAsShown
    BY <1>1 DEF KnowledgeInit, DigestStands, CanonicalIsCommitted, CorpusIsTheCanonical,
                MergedAsShown
  <2>9. QED
    BY <2>4, <2>5, <2>6, <2>7, <2>8 DEF KnowledgeIInv
<1>2. ASSUME KnowledgeIInv, KnowledgeNext PROVE KnowledgeIInv'
  <2>1. KnowledgeTypes' /\ \A p \in Stewards : Chunked(p)'
    BY <1>2, KnowledgeTyped DEF KnowledgeIInv
  <2>2. CommitsStaged' /\ CanonicalIsCommitted'
    BY <1>2, CommitsKept DEF KnowledgeIInv
  <2>3. DigestStands' /\ MergedAsShown'
    BY <1>2, DigestKept DEF KnowledgeIInv
  <2>4. CorpusFollows' /\ TornTold' /\ CorpusIsTheCanonical'
    BY <1>2, CorpusKept DEF KnowledgeIInv
  <2>5. QED
    BY <2>1, <2>2, <2>3, <2>4 DEF KnowledgeIInv
<1>3. ASSUME KnowledgeIInv, UNCHANGED knowledgeVars PROVE KnowledgeIInv'
  BY <1>3 DEF KnowledgeIInv, knowledgeVars, KnowledgeTypes, Chunked, CommitsStaged, Staged,
              CorpusFollows, Follows, TornTold, DigestStands, CanonicalIsCommitted,
              CorpusIsTheCanonical, MergedAsShown, Merging, Ingesting
<1>4. QED
  BY <1>1, <1>2, <1>3

\* What the weekly refresh promises of its copies, for any stewards that
\* merge, re-ingest and die in any order: the canonical file is HEAD's unless
\* a merge is under way or was left half done, the collection is the file's
\* chunks once a re-ingest has run alone, and a merge of the date of a digest
\* that still stands changes no section but those that the digest listed and
\* those that came after the 2800 characters of its message.
THEOREM KnowledgeHolds == KnowledgeSpec => []KnowledgeInv
<1>1. KnowledgeIInv => KnowledgeInv
  <2> SUFFICES ASSUME KnowledgeIInv PROVE KnowledgeInv
    OBVIOUS
  <2>1. KnowledgeTypeOK
    BY DEF KnowledgeIInv, KnowledgeTypes, KnowledgeTypeOK, Desks
  <2>2. QED
    BY <2>1 DEF KnowledgeIInv, KnowledgeInv
<1>2. QED
  BY <1>1, KnowledgeInductive, PTL DEF KnowledgeSpec

-----------------------------------------------------------------------------
(* Access *)

TaskTypes ==
    [op : {"none", "provision", "offboard"},
     step : {"idle", "user", "grants", "count", "list", "move", "deactivate", "followup"},
     user : Users \union {"none"}, heir : Users \union {"none"}, gate : GateTypes \union {"none"},
     todo : SUBSET (Grants \union Objects), rows : SUBSET Records]

(* What a job at work is on.                                               *)
AtWork(j) ==
    /\ task[j].op # "none" => task[j].user \in Users
    /\ task[j].op = "none" => task[j] = NoTask
    /\ task[j].op = "provision" =>
        task[j].step \in {"user", "grants"} /\ (task[j].step = "user" => task[j].todo = Grants)
    /\ task[j].op = "offboard" =>
        /\ task[j].step \in {"count", "list", "move", "deactivate", "followup"}
        /\ task[j].heir # task[j].user
        /\ task[j].step \in {"list", "move"} => task[j].heir \in Users
        /\ task[j].step = "list" => task[j].rows = {}

AccessTypes ==
    /\ status \in [Users -> {"absent", "active", "inactive"}]
    /\ granted \subseteq Users \X Grants /\ ownerOf \in [Records -> Users]
    /\ task \in [Jobs -> TaskTypes]
    /\ followups \subseteq Users /\ audits \subseteq Users /\ broken \subseteq Users
    /\ excused \subseteq Records /\ edits \in Nat
    /\ \A j \in Jobs : AtWork(j)

(* What an offboarding that may yet deactivate its user has not excused, it *)
(* is still to list or to move.                                            *)
HandedOn == \A j \in Jobs, r \in Records :
    (task[j].op = "offboard" /\ ownerOf[r] = task[j].user /\ task[j].step # "count") =>
        \/ r \in excused
        \/ task[j].step \in {"list", "move"} /\ (ObjectOf[r] \in task[j].todo \/ r \in task[j].rows)
        \/ task[j].step = "followup"

AccessIInv ==
    /\ AccessTypes /\ HandedOn
    /\ DeactivatedOwnsNothing /\ DeactivationIsFollowedUp /\ NewUserIsWhole

\* A job that goes on changes its own desk only.
LEMMA GoesTyped ==
  ASSUME task \in [Jobs -> TaskTypes], NEW j \in Jobs, NEW r \in TaskTypes, Goes(j, r)
  PROVE  /\ task' \in [Jobs -> TaskTypes] /\ task'[j] = r
         /\ \A k \in Jobs : k # j => task'[k] = task[k]
BY DEF Goes

\* A job that is at nothing.
LEMMA NoTaskTyped == /\ NoTask \in TaskTypes /\ NoTask.op = "none" /\ NoTask.step = "idle"
                     /\ NoTask.todo = {} /\ NoTask.rows = {}
BY DEF NoTask, TaskTypes

\* A job that goes on is still at work in its type.
LEMMA WorkGoesOn ==
  ASSUME AccessTypes, NEW j \in Jobs, NEW r \in TaskTypes, Goes(j, r),
         r.user \in Users,
         \/ r.op = "provision" /\ r.step \in {"user", "grants"} /\ (r.step = "user" => r.todo = Grants)
         \/ /\ r.op = "offboard" /\ r.step \in {"count", "list", "move", "deactivate", "followup"}
            /\ r.heir # r.user
            /\ r.step \in {"list", "move"} => r.heir \in Users
            /\ r.step = "list" => r.rows = {}
  PROVE  task' \in [Jobs -> TaskTypes] /\ \A k \in Jobs : AtWork(k)'
<1>1. /\ task' \in [Jobs -> TaskTypes] /\ task'[j] = r
      /\ \A k \in Jobs : k # j => task'[k] = task[k]
  BY GoesTyped DEF AccessTypes
<1>2. AtWork(j)'
  BY <1>1 DEF AtWork
<1>3. \A k \in Jobs : k # j => AtWork(k)'
  BY <1>1 DEF AtWork, AccessTypes
<1>4. QED
  BY <1>1, <1>2, <1>3

\* A job that ends is at nothing, and the others go on.
LEMMA WorkEnds ==
  ASSUME AccessTypes, NEW j \in Jobs, Ends(j)
  PROVE  /\ task' \in [Jobs -> TaskTypes] /\ \A k \in Jobs : AtWork(k)'
         /\ task'[j] = NoTask /\ \A k \in Jobs : k # j => task'[k] = task[k]
<1>1. /\ task' \in [Jobs -> TaskTypes] /\ task'[j] = NoTask
      /\ \A k \in Jobs : k # j => task'[k] = task[k]
  BY GoesTyped, NoTaskTyped DEF AccessTypes, Ends
<1>2. AtWork(j)'
  BY <1>1, NoTaskTyped DEF AtWork
<1>3. \A k \in Jobs : k # j => AtWork(k)'
  BY <1>1 DEF AtWork, AccessTypes
<1>4. QED
  BY <1>1, <1>2, <1>3

\* What people do in the org moves no job.
LEMMA WorkRests ==
  ASSUME AccessTypes, UNCHANGED task
  PROVE  task' \in [Jobs -> TaskTypes] /\ \A k \in Jobs : AtWork(k)'
BY DEF AccessTypes, AtWork

\* Every call of a provisioning or an offboarding leaves its job at a step
\* of its operation.
LEMMA AccessTyped ==
  ASSUME AccessTypes, AccessNext
  PROVE  AccessTypes'
<1> USE DEF OrgState, Noted
<1>t. \A j \in Jobs : task[j] \in TaskTypes /\ AtWork(j)
  BY DEF AccessTypes
<1>w. \A j \in Jobs : task[j] # NoTask => task[j].user \in Users
  BY <1>t DEF AtWork
<1>r. \A o, r : ObjectOf[r] = o /\ r \in Records => o \in Objects
  BY DEF Objects
<1>1. ASSUME NEW j \in Jobs, NEW u \in Users, NEW g \in GateTypes, Provision(j, u, g) PROVE AccessTypes'
  <2> DEFINE r == [NoTask EXCEPT !.op = "provision", !.step = "user", !.user = u, !.gate = g,
                                 !.todo = Grants]
  <2>1. /\ r \in TaskTypes /\ r.op = "provision" /\ r.step = "user" /\ r.user = u /\ r.todo = Grants
    BY DEF NoTask, TaskTypes
  <2>2. Goes(j, r)
    BY <1>1 DEF Provision
  <2> HIDE DEF r
  <2>3. task' \in [Jobs -> TaskTypes] /\ \A k \in Jobs : AtWork(k)'
    BY <2>1, <2>2, WorkGoesOn
  <2>4. QED
    BY <1>1, <2>3 DEF Provision, AccessTypes
<1>2. ASSUME NEW j \in Jobs, CreateUser(j) PROVE AccessTypes'
  <2> DEFINE r == [task[j] EXCEPT !.step = "grants"]
  <2>1. r \in TaskTypes /\ r.op = "provision" /\ r.step = "grants" /\ r.user \in Users
    BY <1>2, <1>t DEF CreateUser, At, TaskTypes, AtWork
  <2>2. Goes(j, r)
    BY <1>2 DEF CreateUser
  <2> HIDE DEF r
  <2>3. task' \in [Jobs -> TaskTypes] /\ \A k \in Jobs : AtWork(k)'
    BY <2>1, <2>2, WorkGoesOn
  <2>4. QED
    BY <1>2, <2>3 DEF CreateUser, AccessTypes
<1>3. ASSUME NEW j \in Jobs, NEW x \in Grants, Attach(j, x) PROVE AccessTypes'
  <2> DEFINE r == [task[j] EXCEPT !.todo = task[j].todo \ {x}]
  <2>1. r \in TaskTypes /\ r.op = "provision" /\ r.step = "grants" /\ r.user \in Users
    BY <1>3, <1>t DEF Attach, At, TaskTypes, AtWork
  <2>2. Goes(j, r)
    BY <1>3 DEF Attach
  <2>a. task[j].user \in Users
    BY <1>3, <1>t DEF Attach, At, AtWork
  <2> HIDE DEF r
  <2>3. task' \in [Jobs -> TaskTypes] /\ \A k \in Jobs : AtWork(k)'
    BY <2>1, <2>2, WorkGoesOn
  <2>4. QED
    BY <1>3, <2>3, <2>a DEF Attach, AccessTypes
<1>4. ASSUME NEW j \in Jobs, Provisioned(j) PROVE AccessTypes'
  BY <1>4, WorkEnds DEF Provisioned, AccessTypes
<1>5. ASSUME NEW j \in Jobs, BreakOff(j) PROVE AccessTypes'
  BY <1>5, <1>w, WorkEnds DEF BreakOff, Breaks, AccessTypes
<1>6. ASSUME NEW u \in Users, NEW x \in Grants, NEW g \in GateTypes, Grant(u, x, g) \/ Revoke(u, x, g)
      PROVE  AccessTypes'
  BY <1>6, WorkRests DEF Grant, Revoke, AccessTypes
<1>7. ASSUME NEW idle \in SUBSET Users, AuditLicenses(idle) PROVE AccessTypes'
  BY <1>7, WorkRests DEF AuditLicenses, AccessTypes
<1>8. ASSUME NEW j \in Jobs, NEW u \in Users, NEW heir \in Users \union {"none"}, NEW g \in GateTypes,
             Offboard(j, u, heir, g)
      PROVE  AccessTypes'
  <2> DEFINE r == [NoTask EXCEPT !.op = "offboard", !.step = IF heir = "none" THEN "count" ELSE "list",
                                 !.user = u, !.heir = heir, !.gate = g, !.todo = Objects]
  <2>1. /\ r \in TaskTypes /\ r.op = "offboard" /\ r.user = u /\ r.heir = heir /\ r.rows = {}
        /\ r.step = IF heir = "none" THEN "count" ELSE "list"
    BY DEF NoTask, TaskTypes
  <2>2. Goes(j, r) /\ u # heir
    BY <1>8 DEF Offboard
  <2> HIDE DEF r
  <2>3. task' \in [Jobs -> TaskTypes] /\ \A k \in Jobs : AtWork(k)'
    BY <2>1, <2>2, WorkGoesOn
  <2>4. QED
    BY <1>8, <2>3 DEF Offboard, AccessTypes
<1>9. ASSUME NEW j \in Jobs, CountOwned(j) PROVE AccessTypes'
  <2> DEFINE r == [task[j] EXCEPT !.step = "deactivate", !.todo = {}]
  <2>1. /\ r \in TaskTypes /\ r.op = "offboard" /\ r.step = "deactivate" /\ r.user \in Users
        /\ r.heir # r.user
    BY <1>9, <1>t DEF CountOwned, At, TaskTypes, AtWork
  <2>2. Goes(j, r)
    BY <1>9 DEF CountOwned
  <2> HIDE DEF r
  <2>3. task' \in [Jobs -> TaskTypes] /\ \A k \in Jobs : AtWork(k)'
    BY <2>1, <2>2, WorkGoesOn
  <2>4. QED
    BY <1>9, <2>3 DEF CountOwned, AccessTypes, Owned
<1>10. ASSUME NEW j \in Jobs, NEW o \in Objects, ListOwned(j, o) PROVE AccessTypes'
  <2> DEFINE rows == IdsOwned(task[j].user, o)
             r == [task[j] EXCEPT !.todo = task[j].todo \ {o}, !.rows = rows,
                                  !.step = IF rows = {} THEN "list" ELSE "move"]
  <2>0. rows \subseteq Records
    BY DEF IdsOwned, Owned
  <2>2. Goes(j, r) /\ task[j].op = "offboard" /\ task[j].step = "list"
    BY <1>10 DEF ListOwned, At
  <2> HIDE DEF rows
  <2>1. /\ r \in TaskTypes /\ r.op = "offboard" /\ r.user \in Users
        /\ r.heir # r.user /\ r.heir \in Users /\ r.rows = rows
        /\ r.step = IF rows = {} THEN "list" ELSE "move"
    BY <2>0, <2>2, <1>t DEF TaskTypes, AtWork
  <2> HIDE DEF r
  <2>3. task' \in [Jobs -> TaskTypes] /\ \A k \in Jobs : AtWork(k)'
    BY <2>1, <2>2, WorkGoesOn
  <2>4. QED
    BY <1>10, <2>3 DEF ListOwned, AccessTypes
<1>11. ASSUME NEW j \in Jobs, NEW refused \in SUBSET Records, MoveOwned(j, refused) PROVE AccessTypes'
  <2> DEFINE r == [task[j] EXCEPT !.rows = {}, !.step = "list"]
  <2>0. /\ task[j].rows \subseteq Records /\ task[j].heir \in Users
        /\ task[j].op = "offboard" /\ task[j].step = "move"
    BY <1>11, <1>t DEF MoveOwned, At, TaskTypes, AtWork
  <2>1. /\ r \in TaskTypes /\ r.op = "offboard" /\ r.step = "list" /\ r.user \in Users
        /\ r.heir # r.user /\ r.heir \in Users /\ r.rows = {}
    BY <2>0, <1>t DEF TaskTypes, AtWork
  <2>2. Goes(j, r)
    BY <1>11 DEF MoveOwned
  <2> HIDE DEF r
  <2>3. task' \in [Jobs -> TaskTypes] /\ \A k \in Jobs : AtWork(k)'
    BY <2>1, <2>2, WorkGoesOn
  <2>4. ownerOf' \in [Records -> Users] /\ excused' \subseteq Records
    BY <1>11, <2>0 DEF MoveOwned, AccessTypes
  <2>5. QED
    BY <1>11, <2>3, <2>4 DEF MoveOwned, AccessTypes
<1>12. ASSUME NEW j \in Jobs, Moved(j) PROVE AccessTypes'
  <2> DEFINE r == [task[j] EXCEPT !.step = "deactivate"]
  <2>1. /\ r \in TaskTypes /\ r.op = "offboard" /\ r.step = "deactivate" /\ r.user \in Users
        /\ r.heir # r.user
    BY <1>12, <1>t DEF Moved, At, TaskTypes, AtWork
  <2>2. Goes(j, r)
    BY <1>12 DEF Moved
  <2> HIDE DEF r
  <2>3. task' \in [Jobs -> TaskTypes] /\ \A k \in Jobs : AtWork(k)'
    BY <2>1, <2>2, WorkGoesOn
  <2>4. QED
    BY <1>12, <2>3 DEF Moved, AccessTypes
<1>13. ASSUME NEW j \in Jobs, Deactivate(j) PROVE AccessTypes'
  <2> DEFINE r == [task[j] EXCEPT !.step = "followup"]
  <2>1. /\ r \in TaskTypes /\ r.op = "offboard" /\ r.step = "followup" /\ r.user \in Users
        /\ r.heir # r.user
    BY <1>13, <1>t DEF Deactivate, At, TaskTypes, AtWork
  <2>2. Goes(j, r)
    BY <1>13 DEF Deactivate
  <2> HIDE DEF r
  <2>3. task' \in [Jobs -> TaskTypes] /\ \A k \in Jobs : AtWork(k)'
    BY <2>1, <2>2, WorkGoesOn
  <2>4. QED
    BY <1>13, <2>3 DEF Deactivate, AccessTypes
<1>14. ASSUME NEW j \in Jobs, OpenFollowup(j) PROVE AccessTypes'
  <2>1. task[j].user \in Users
    BY <1>14, <1>t DEF OpenFollowup, At, AtWork
  <2>2. QED
    BY <1>14, <2>1, WorkEnds DEF OpenFollowup, AccessTypes
<1>15. ASSUME NEW r \in Records, NEW u \in Users, Assign(r, u) PROVE AccessTypes'
  <2>1. excused' \subseteq Records /\ ownerOf' \in [Records -> Users] /\ edits' \in Nat
    BY <1>15 DEF Assign, AccessTypes
  <2>2. QED
    BY <1>15, <2>1, WorkRests DEF Assign, AccessTypes
<1>16. QED
  BY <1>1, <1>2, <1>3, <1>4, <1>5, <1>6, <1>7, <1>8, <1>9, <1>10, <1>11, <1>12, <1>13, <1>14, <1>15
     DEF AccessNext, ProvisionNext, OffboardNext

\* A user who is deactivated has handed every record on.
LEMMA OwnersStay ==
  ASSUME AccessTypes, AccessNext, HandedOn, DeactivatedOwnsNothing
  PROVE  HandedOn' /\ DeactivatedOwnsNothing'
<1> USE DEF OrgState, Noted
<1>t. /\ \A j \in Jobs : task[j] \in TaskTypes /\ AtWork(j)
      /\ ownerOf \in [Records -> Users] /\ status \in [Users -> {"absent", "active", "inactive"}]
      /\ task \in [Jobs -> TaskTypes] /\ excused \subseteq Records
  BY DEF AccessTypes
<1>s. ASSUME NEW j \in Jobs, UNCHANGED OrgState, excused \subseteq excused',
             \A k \in Jobs : k # j => task'[k] = task[k],
             task'[j].op # "offboard" \/ task'[j].step = "count"
      PROVE  HandedOn' /\ DeactivatedOwnsNothing'
  BY <1>s DEF HandedOn, DeactivatedOwnsNothing
<1>o. ASSUME UNCHANGED ownerOf, UNCHANGED task, excused' = excused, UNCHANGED status
      PROVE  HandedOn' /\ DeactivatedOwnsNothing'
  BY <1>o DEF HandedOn, DeactivatedOwnsNothing
<1>1. ASSUME NEW j \in Jobs, NEW u \in Users, NEW g \in GateTypes, Provision(j, u, g)
      PROVE  HandedOn' /\ DeactivatedOwnsNothing'
  <2>1. task'[j].op = "provision" /\ \A k \in Jobs : k # j => task'[k] = task[k]
    BY <1>1, <1>t DEF Provision, Goes, NoTask
  <2>2. QED
    BY <1>1, <1>s, <2>1 DEF Provision
<1>2. ASSUME NEW j \in Jobs, CreateUser(j) PROVE HandedOn' /\ DeactivatedOwnsNothing'
  <2>1. /\ task[j].op = "provision" /\ task'[j].op = "provision"
        /\ \A k \in Jobs : k # j => task'[k] = task[k]
    BY <1>2, <1>t DEF CreateUser, At, Goes, TaskTypes
  <2>2. /\ status' = [status EXCEPT ![task[j].user] = "active"] /\ UNCHANGED <<ownerOf, excused>>
    BY <1>2 DEF CreateUser
  <2>3. HandedOn'
    BY <2>1, <2>2 DEF HandedOn
  <2>4. DeactivatedOwnsNothing'
    BY <2>2, <1>t DEF DeactivatedOwnsNothing
  <2>5. QED
    BY <2>3, <2>4
<1>3. ASSUME NEW j \in Jobs, NEW x \in Grants, Attach(j, x) PROVE HandedOn' /\ DeactivatedOwnsNothing'
  <2>1. task'[j].op = "provision" /\ \A k \in Jobs : k # j => task'[k] = task[k]
    BY <1>3, <1>t DEF Attach, At, Goes, TaskTypes
  <2>2. UNCHANGED <<ownerOf, status, excused>>
    BY <1>3 DEF Attach
  <2>3. QED
    BY <2>1, <2>2 DEF HandedOn, DeactivatedOwnsNothing
<1>e. ASSUME NEW j \in Jobs, Ends(j)
      PROVE  task'[j].op = "none" /\ \A k \in Jobs : k # j => task'[k] = task[k]
  BY <1>e, WorkEnds, NoTaskTyped
<1>4. ASSUME NEW j \in Jobs, Provisioned(j) \/ BreakOff(j) \/ OpenFollowup(j)
      PROVE  HandedOn' /\ DeactivatedOwnsNothing'
  <2>1. Ends(j) /\ UNCHANGED OrgState /\ excused' = excused
    BY <1>4 DEF Provisioned, BreakOff, Breaks, OpenFollowup
  <2>2. QED
    BY <1>s, <1>e, <2>1
<1>5. ASSUME (\E u \in Users, x \in Grants, g \in GateTypes : Grant(u, x, g) \/ Revoke(u, x, g))
             \/ (\E idle \in SUBSET Users : AuditLicenses(idle))
      PROVE  HandedOn' /\ DeactivatedOwnsNothing'
  <2>1. UNCHANGED <<ownerOf, task, excused, status>>
    BY <1>5 DEF Grant, Revoke, AuditLicenses
  <2>2. QED
    BY <1>o, <2>1
<1>6. ASSUME NEW j \in Jobs, NEW u \in Users, NEW heir \in Users \union {"none"}, NEW g \in GateTypes,
             Offboard(j, u, heir, g)
      PROVE  HandedOn' /\ DeactivatedOwnsNothing'
  <2>1. /\ task'[j].op = "offboard" /\ task'[j].step \in {"count", "list"} /\ task'[j].todo = Objects
        /\ \A k \in Jobs : k # j => task'[k] = task[k]
    BY <1>6, <1>t DEF Offboard, Goes, NoTask
  <2>2. UNCHANGED <<ownerOf, status, excused>>
    BY <1>6 DEF Offboard
  <2>3. \A r \in Records : ObjectOf[r] \in Objects
    BY DEF Objects
  <2>4. QED
    BY <2>1, <2>2, <2>3 DEF HandedOn, DeactivatedOwnsNothing
<1>7. ASSUME NEW j \in Jobs, CountOwned(j) PROVE HandedOn' /\ DeactivatedOwnsNothing'
  <2>1. /\ task'[j].user = task[j].user /\ \A k \in Jobs : k # j => task'[k] = task[k]
        /\ UNCHANGED <<ownerOf, status>> /\ excused' = excused \union Owned(task[j].user)
    BY <1>7, <1>t DEF CountOwned, Goes, TaskTypes
  <2>2. \A r \in Records : ownerOf[r] = task[j].user => r \in excused'
    BY <2>1 DEF Owned
  <2>3. HandedOn'
    BY <2>1, <2>2 DEF HandedOn
  <2>4. DeactivatedOwnsNothing'
    BY <2>1 DEF DeactivatedOwnsNothing
  <2>5. QED
    BY <2>3, <2>4
<1>8. ASSUME NEW j \in Jobs, NEW o \in Objects, ListOwned(j, o) PROVE HandedOn' /\ DeactivatedOwnsNothing'
  <2> DEFINE rows == IdsOwned(task[j].user, o)
  <2>1. task' = [task EXCEPT ![j] = [task[j] EXCEPT !.todo = task[j].todo \ {o}, !.rows = rows,
                                       !.step = IF rows = {} THEN "list" ELSE "move"]]
    BY <1>8 DEF ListOwned, Goes
  <2>2. \A r \in Records : ownerOf[r] = task[j].user /\ ObjectOf[r] = o => r \in rows
    BY DEF IdsOwned, Owned
  <2>3. task[j].op = "offboard" /\ task[j].step = "list" /\ task[j].rows = {} /\ UNCHANGED <<ownerOf, status, excused>>
    BY <1>8, <1>t DEF ListOwned, At, AtWork
  <2> HIDE DEF rows
  <2>4. /\ task'[j].user = task[j].user /\ task'[j].todo = task[j].todo \ {o} /\ task'[j].rows = rows
        /\ task'[j].step \in {"list", "move"} /\ task'[j].op = "offboard"
        /\ \A k \in Jobs : k # j => task'[k] = task[k]
    BY <2>1, <2>3, <1>t DEF TaskTypes
  <2>5. HandedOn'
    BY <2>2, <2>3, <2>4 DEF HandedOn
  <2>6. QED
    BY <2>3, <2>5 DEF DeactivatedOwnsNothing
<1>9. ASSUME NEW j \in Jobs, NEW refused \in SUBSET Records, MoveOwned(j, refused)
      PROVE  HandedOn' /\ DeactivatedOwnsNothing'
  <2> DEFINE moved == task[j].rows \ refused
             u == task[j].user
             heir == task[j].heir
  <2>1. /\ task[j].op = "offboard" /\ task[j].step = "move" /\ refused \subseteq task[j].rows
        /\ status[heir] # "active" => moved = {}
        /\ UNCHANGED status
        /\ heir # u /\ heir \in Users
    BY <1>9, <1>t DEF MoveOwned, At, AtWork
  <2>2. \A r \in Records : ownerOf'[r] = IF r \in moved THEN heir ELSE ownerOf[r]
    BY <1>9 DEF MoveOwned
  <2>3. \A r \in Records : r \in excused \/ r \in refused => r \in excused' \/ r \in moved
    BY <1>9 DEF MoveOwned
  <2>4. \A r \in moved : (\E k \in Jobs : task[k].op = "offboard" /\ task[k].user = heir) => r \in excused'
    BY <1>9 DEF MoveOwned
  <2>5. /\ task'[j].user = u /\ task'[j].todo = task[j].todo /\ task'[j].op = "offboard"
        /\ task'[j].step = "list" /\ \A k \in Jobs : k # j => task'[k] = task[k]
    BY <1>9, <1>t DEF MoveOwned, Goes, TaskTypes, At
  <2> HIDE DEF moved, u, heir
  <2>6. DeactivatedOwnsNothing'
    <3>1. ASSUME NEW r \in Records, status'[ownerOf'[r]] = "inactive" PROVE r \in excused'
      <4>1. CASE r \in moved
        <5>1. ownerOf'[r] = heir /\ status[heir] = "active"
          BY <4>1, <2>1, <2>2
        <5>2. QED
          BY <5>1, <3>1, <2>1
      <4>2. CASE r \notin moved
        BY <4>2, <3>1, <2>1, <2>2, <2>3 DEF DeactivatedOwnsNothing
      <4>3. QED
        BY <4>1, <4>2
    <3>2. QED
      BY <3>1 DEF DeactivatedOwnsNothing
  <2>7. ASSUME NEW k \in Jobs, NEW r \in Records, task'[k].op = "offboard", ownerOf'[r] = task'[k].user,
               task'[k].step # "count"
        PROVE  \/ r \in excused'
               \/ /\ task'[k].step \in {"list", "move"}
                  /\ ObjectOf[r] \in task'[k].todo \/ r \in task'[k].rows
               \/ task'[k].step = "followup"
    <3>1. CASE r \in moved
      <4>1. ownerOf'[r] = heir
        BY <3>1, <2>2
      <4>2. k # j
        BY <4>1, <2>1, <2>5, <2>7
      <4>3. task[k].op = "offboard" /\ task[k].user = heir
        BY <4>1, <4>2, <2>5, <2>7
      <4>4. QED
        BY <3>1, <4>3, <2>4
    <3>2. CASE r \notin moved /\ k # j
      <4>1. ownerOf[r] = task[k].user /\ task'[k] = task[k]
        BY <3>2, <2>2, <2>5, <2>7
      <4>2. QED
        BY <4>1, <3>2, <2>3, <2>7 DEF HandedOn
    <3>3. CASE r \notin moved /\ k = j
      <4>1. ownerOf[r] = u
        BY <3>3, <2>2, <2>5, <2>7
      <4>2. r \in excused \/ ObjectOf[r] \in task[j].todo \/ r \in task[j].rows
        BY <4>1, <2>1 DEF HandedOn, u
      <4>3. r \in task[j].rows => r \in refused
        BY <3>3 DEF moved
      <4>4. QED
        BY <3>3, <4>2, <4>3, <2>3, <2>5
    <3>4. QED
      BY <3>1, <3>2, <3>3
  <2>8. HandedOn'
    BY <2>7 DEF HandedOn
  <2>9. QED
    BY <2>6, <2>8
<1>10. ASSUME NEW j \in Jobs, Moved(j) PROVE HandedOn' /\ DeactivatedOwnsNothing'
  <2>1. /\ task[j].op = "offboard" /\ task[j].step = "list" /\ task[j].todo = {} /\ task[j].rows = {}
        /\ UNCHANGED <<ownerOf, status, excused>>
    BY <1>10, <1>t DEF Moved, At, AtWork
  <2>2. task'[j].user = task[j].user /\ \A k \in Jobs : k # j => task'[k] = task[k]
    BY <1>10, <1>t DEF Moved, Goes, TaskTypes
  <2>3. \A r \in Records : ownerOf[r] = task[j].user => r \in excused
    BY <2>1 DEF HandedOn
  <2>4. QED
    BY <2>1, <2>2, <2>3 DEF HandedOn, DeactivatedOwnsNothing
<1>11. ASSUME NEW j \in Jobs, Deactivate(j) PROVE HandedOn' /\ DeactivatedOwnsNothing'
  <2>1. /\ task[j].op = "offboard" /\ task[j].step = "deactivate"
        /\ status' = [status EXCEPT ![task[j].user] = "inactive"]
        /\ UNCHANGED <<ownerOf, excused>>
    BY <1>11 DEF Deactivate, At
  <2>2. task'[j].step = "followup" /\ \A k \in Jobs : k # j => task'[k] = task[k]
    BY <1>11, <1>t DEF Deactivate, Goes, TaskTypes
  <2>3. \A r \in Records : ownerOf[r] = task[j].user => r \in excused
    BY <2>1 DEF HandedOn
  <2>4. HandedOn'
    BY <2>1, <2>2 DEF HandedOn
  <2>5. DeactivatedOwnsNothing'
    BY <2>1, <2>3, <1>t DEF DeactivatedOwnsNothing
  <2>6. QED
    BY <2>4, <2>5
<1>12. ASSUME NEW x \in Records, NEW u \in Users, Assign(x, u) PROVE HandedOn' /\ DeactivatedOwnsNothing'
  <2>1. /\ status[u] = "active" /\ UNCHANGED <<status, task>> /\ ownerOf' = [ownerOf EXCEPT ![x] = u]
        /\ (\E k \in Jobs : task[k].op = "offboard" /\ task[k].user = u) => x \in excused'
        /\ \A r \in excused : r # x => r \in excused'
    BY <1>12 DEF Assign
  <2>2. ownerOf'[x] = u /\ \A r \in Records : r # x => ownerOf'[r] = ownerOf[r]
    BY <2>1, <1>t
  <2>3. HandedOn'
    BY <2>1, <2>2 DEF HandedOn
  <2>4. DeactivatedOwnsNothing'
    BY <2>1, <2>2 DEF DeactivatedOwnsNothing
  <2>5. QED
    BY <2>3, <2>4
<1>13. QED
  BY <1>1, <1>2, <1>3, <1>4, <1>5, <1>6, <1>7, <1>8, <1>9, <1>10, <1>11, <1>12
     DEF AccessNext, ProvisionNext, OffboardNext

\* Every deactivation is followed up, and a new user is whole: the rows and
\* the histories only grow, and a job that ends early is counted as broken.
LEMMA PromisesStay ==
  ASSUME AccessTypes, AccessNext, DeactivationIsFollowedUp, NewUserIsWhole
  PROVE  DeactivationIsFollowedUp' /\ NewUserIsWhole'
<1> USE DEF OrgState, Noted
<1>t. /\ \A j \in Jobs : task[j] \in TaskTypes /\ AtWork(j)
      /\ status \in [Users -> {"absent", "active", "inactive"}] /\ task \in [Jobs -> TaskTypes]
  BY DEF AccessTypes
<1>f. ASSUME NEW j \in Jobs, UNCHANGED status, followups \subseteq followups', broken \subseteq broken',
             \A k \in Jobs : k # j => task'[k] = task[k],
             (task[j].op = "offboard" /\ task[j].step = "followup")
                => task[j].user \in followups' \union broken'
      PROVE  DeactivationIsFollowedUp'
  BY <1>f DEF DeactivationIsFollowedUp, At
<1>w. ASSUME NEW j \in Jobs, UNCHANGED <<status, granted>>, revoked' = revoked, broken \subseteq broken',
             \A k \in Jobs : k # j => task'[k] = task[k],
             (task[j].op = "provision" /\ task[j].step = "grants")
                => task[j].todo = {} \/ task[j].user \in broken'
      PROVE  NewUserIsWhole'
  BY <1>w DEF NewUserIsWhole, At
<1>1. ASSUME NEW j \in Jobs, NEW u \in Users, NEW g \in GateTypes, Provision(j, u, g)
      PROVE  DeactivationIsFollowedUp' /\ NewUserIsWhole'
  <2>1. task[j].op = "none" /\ \A k \in Jobs : k # j => task'[k] = task[k]
    BY <1>1, <1>t, NoTaskTyped DEF Provision, Goes
  <2>2. QED
    BY <1>1, <1>f, <1>w, <2>1 DEF Provision
<1>2. ASSUME NEW j \in Jobs, CreateUser(j) PROVE DeactivationIsFollowedUp' /\ NewUserIsWhole'
  <2>1. /\ task[j].op = "provision" /\ task[j].todo = Grants
        /\ task'[j].op = "provision" /\ task'[j].step = "grants" /\ task'[j].user = task[j].user
        /\ task'[j].todo = Grants
        /\ \A k \in Jobs : k # j => task'[k] = task[k]
    BY <1>2, <1>t DEF CreateUser, At, Goes, TaskTypes, AtWork
  <2>2. /\ status' = [status EXCEPT ![task[j].user] = "active"]
        /\ UNCHANGED <<granted, followups, broken, revoked>>
    BY <1>2 DEF CreateUser
  <2>3. task[j].user \in Users
    BY <1>t, <2>1 DEF AtWork
  <2>4. \A u \in Users : status'[u] = IF u = task[j].user THEN "active" ELSE status[u]
    BY <2>2, <2>3, <1>t
  <2>5. DeactivationIsFollowedUp'
    BY <2>1, <2>2, <2>4 DEF DeactivationIsFollowedUp, At
  <2>6. NewUserIsWhole'
    <3>1. ASSUME NEW u \in NewUsers, NEW x \in Grants, status'[u] = "active"
          PROVE  \/ <<u, x>> \in granted' \union revoked' \/ u \in broken'
                 \/ \E k \in Jobs : At(k, "provision", "grants")' /\ task'[k].user = u /\ x \in task'[k].todo
      <4>1. CASE u = task[j].user
        BY <4>1, <2>1 DEF At
      <4>2. CASE u # task[j].user
        <5>1. status[u] = "active"
          BY <4>2, <3>1, <2>4, AccessAssumption
        <5>2. QED
          BY <5>1, <2>1, <2>2 DEF NewUserIsWhole, At
      <4>3. QED
        BY <4>1, <4>2
    <3>2. QED
      BY <3>1 DEF NewUserIsWhole
  <2>7. QED
    BY <2>5, <2>6
<1>3. ASSUME NEW j \in Jobs, NEW x \in Grants, Attach(j, x)
      PROVE  DeactivationIsFollowedUp' /\ NewUserIsWhole'
  <2>1. /\ task[j].op = "provision" /\ task[j].step = "grants"
        /\ task'[j].op = "provision" /\ task'[j].step = "grants" /\ task'[j].user = task[j].user
        /\ task'[j].todo = task[j].todo \ {x}
        /\ \A k \in Jobs : k # j => task'[k] = task[k]
    BY <1>3, <1>t DEF Attach, At, Goes, TaskTypes
  <2>2. granted' = granted \union {<<task[j].user, x>>} /\ UNCHANGED <<status, followups, broken, revoked>>
    BY <1>3 DEF Attach
  <2>3. DeactivationIsFollowedUp'
    BY <1>f, <2>1, <2>2
  <2>4. NewUserIsWhole'
    <3>1. ASSUME NEW u \in NewUsers, NEW y \in Grants, status'[u] = "active"
          PROVE  \/ <<u, y>> \in granted' \union revoked' \/ u \in broken'
                 \/ \E k \in Jobs : At(k, "provision", "grants")' /\ task'[k].user = u /\ y \in task'[k].todo
      <4>1. \/ <<u, y>> \in granted \union revoked \/ u \in broken
            \/ \E k \in Jobs : At(k, "provision", "grants") /\ task[k].user = u /\ y \in task[k].todo
        BY <3>1, <2>2 DEF NewUserIsWhole
      <4>2. CASE <<u, y>> \in granted \union revoked \/ u \in broken
        BY <4>2, <2>2
      <4>3. ASSUME NEW k \in Jobs, At(k, "provision", "grants"), task[k].user = u, y \in task[k].todo
            PROVE  \/ <<u, y>> \in granted'
                   \/ At(k, "provision", "grants")' /\ task'[k].user = u /\ y \in task'[k].todo
        BY <4>3, <2>1, <2>2 DEF At
      <4>4. QED
        BY <4>1, <4>2, <4>3
    <3>2. QED
      BY <3>1 DEF NewUserIsWhole
  <2>5. QED
    BY <2>3, <2>4
<1>e. ASSUME NEW j \in Jobs, Ends(j) PROVE \A k \in Jobs : k # j => task'[k] = task[k]
  BY <1>e, WorkEnds
<1>4. ASSUME NEW j \in Jobs, Provisioned(j) PROVE DeactivationIsFollowedUp' /\ NewUserIsWhole'
  BY <1>4, <1>e, <1>f, <1>w DEF Provisioned, At
<1>5. ASSUME NEW j \in Jobs, BreakOff(j) PROVE DeactivationIsFollowedUp' /\ NewUserIsWhole'
  BY <1>5, <1>e, <1>f, <1>w DEF BreakOff, Breaks
<1>6. ASSUME NEW v \in Users, NEW x \in Grants, NEW g \in GateTypes, Grant(v, x, g) \/ Revoke(v, x, g)
      PROVE  DeactivationIsFollowedUp' /\ NewUserIsWhole'
  <2>1. UNCHANGED <<status, task, followups, broken>> /\ granted \union revoked \subseteq granted' \union revoked'
    BY <1>6 DEF Grant, Revoke
  <2>2. QED
    BY <2>1 DEF DeactivationIsFollowedUp, NewUserIsWhole, At
<1>7. ASSUME (\E idle \in SUBSET Users : AuditLicenses(idle)) \/ (\E r \in Records, u \in Users : Assign(r, u))
      PROVE  DeactivationIsFollowedUp' /\ NewUserIsWhole'
  <2>1. UNCHANGED <<status, task, followups, broken, granted, revoked>>
    BY <1>7 DEF AuditLicenses, Assign
  <2>2. QED
    BY <2>1 DEF DeactivationIsFollowedUp, NewUserIsWhole, At
<1>8. ASSUME NEW j \in Jobs, NEW u \in Users, NEW heir \in Users \union {"none"}, NEW g \in GateTypes,
             Offboard(j, u, heir, g)
      PROVE  DeactivationIsFollowedUp' /\ NewUserIsWhole'
  <2>1. task[j].op = "none" /\ \A k \in Jobs : k # j => task'[k] = task[k]
    BY <1>8, <1>t, NoTaskTyped DEF Offboard, Goes
  <2>2. QED
    BY <1>8, <1>f, <1>w, <2>1 DEF Offboard
<1>9. ASSUME NEW j \in Jobs,
             \/ CountOwned(j) \/ Moved(j) \/ \E o \in Objects : ListOwned(j, o)
             \/ \E refused \in SUBSET Records : MoveOwned(j, refused)
      PROVE  DeactivationIsFollowedUp' /\ NewUserIsWhole'
  <2>1. /\ task[j].op = "offboard" /\ task[j].step # "followup"
        /\ \A k \in Jobs : k # j => task'[k] = task[k]
        /\ UNCHANGED <<status, granted, followups, broken, revoked>>
    BY <1>9, <1>t DEF CountOwned, Moved, ListOwned, MoveOwned, At, Goes
  <2>2. QED
    BY <1>f, <1>w, <2>1
<1>10. ASSUME NEW j \in Jobs, Deactivate(j) PROVE DeactivationIsFollowedUp' /\ NewUserIsWhole'
  <2>1. /\ task[j].op = "offboard" /\ task[j].step = "deactivate"
        /\ status' = [status EXCEPT ![task[j].user] = "inactive"]
        /\ UNCHANGED <<granted, followups, broken, revoked>>
    BY <1>10 DEF Deactivate, At
  <2>2. /\ task'[j].step = "followup" /\ task'[j].op = "offboard" /\ task'[j].user = task[j].user
        /\ \A k \in Jobs : k # j => task'[k] = task[k]
    BY <1>10, <1>t DEF Deactivate, Goes, TaskTypes, At
  <2>3. task[j].user \in Users
    BY <1>t, <2>1 DEF AtWork
  <2>4. \A u \in Users : status'[u] = IF u = task[j].user THEN "inactive" ELSE status[u]
    BY <2>1, <2>3, <1>t
  <2>5. DeactivationIsFollowedUp'
    BY <2>1, <2>2, <2>4 DEF DeactivationIsFollowedUp, At
  <2>6. NewUserIsWhole'
    BY <2>1, <2>2, <2>4, AccessAssumption DEF NewUserIsWhole, At
  <2>7. QED
    BY <2>5, <2>6
<1>11. ASSUME NEW j \in Jobs, OpenFollowup(j) PROVE DeactivationIsFollowedUp' /\ NewUserIsWhole'
  <2>1. /\ task[j].op = "offboard" /\ Ends(j) /\ followups' = followups \union {task[j].user}
        /\ UNCHANGED <<status, granted, broken, revoked>>
    BY <1>11 DEF OpenFollowup, At
  <2>2. QED
    BY <2>1, <1>e, <1>f, <1>w
<1>12. QED
  BY <1>1, <1>2, <1>3, <1>4, <1>5, <1>6, <1>7, <1>8, <1>9, <1>10, <1>11
     DEF AccessNext, ProvisionNext, OffboardNext

\* The invariant of provisioning and offboarding is inductive, over jobs that
\* stop anywhere and people who assign records meanwhile (offboard, provision).
THEOREM AccessInductive == AccessSpec => []AccessIInv
<1>1. AccessInit => AccessIInv
  <2> SUFFICES ASSUME AccessInit PROVE AccessIInv
    OBVIOUS
  <2>1. PICK new \in SUBSET NewUsers :
          /\ status = [u \in Users |-> IF u \in new THEN "absent" ELSE "active"]
          /\ granted = (Users \ new) \X Grants
    BY DEF AccessInit
  <2>2. \A u \in Users : status[u] = IF u \in new THEN "absent" ELSE "active"
    BY <2>1
  <2>3. ownerOf \in [Records -> Users]
    BY DEF AccessInit
  <2>4. \A j \in Jobs : task[j] = NoTask
    BY DEF AccessInit
  <2>5. task \in [Jobs -> TaskTypes] /\ \A j \in Jobs : AtWork(j)
    BY <2>4, NoTaskTyped DEF AtWork, AccessInit
  <2>6. AccessTypes
    BY <2>1, <2>2, <2>3, <2>5 DEF AccessInit, AccessTypes
  <2>7. HandedOn
    BY <2>4, NoTaskTyped DEF HandedOn
  <2>8. DeactivatedOwnsNothing /\ DeactivationIsFollowedUp
    BY <2>2, <2>3 DEF DeactivatedOwnsNothing, DeactivationIsFollowedUp
  <2>9. NewUserIsWhole
    BY <2>1, <2>2, AccessAssumption DEF NewUserIsWhole
  <2>10. QED
    BY <2>6, <2>7, <2>8, <2>9 DEF AccessIInv
<1>2. AccessIInv /\ [AccessNext]_accessVars => AccessIInv'
  <2> SUFFICES ASSUME AccessIInv, [AccessNext]_accessVars PROVE AccessIInv'
    OBVIOUS
  <2>1. CASE AccessNext
    BY <2>1, AccessTyped, OwnersStay, PromisesStay DEF AccessIInv
  <2>2. CASE UNCHANGED accessVars
    BY <2>2 DEF AccessIInv, accessVars, AccessTypes, AtWork, HandedOn, DeactivatedOwnsNothing,
       DeactivationIsFollowedUp, NewUserIsWhole, At
  <2>3. QED
    BY <2>1, <2>2
<1>3. QED
  BY <1>1, <1>2, PTL DEF AccessSpec

\* What the permission operations promise, for any number of jobs, users,
\* records and grants that are worked on at once.
THEOREM AccessHolds == AccessSpec => []AccessInv
<1>1. AccessIInv => AccessInv
  BY DEF AccessIInv, AccessTypes, TaskTypes, AccessInv, AccessTypeOK
<1>2. QED
  BY <1>1, AccessInductive, PTL

-----------------------------------------------------------------------------
(* Review tasks *)

Issues == SUBSET (Parts \union {"orphaned", "stale"})
Findings == [subject : Rules \union Leads, issue : Issues, due : BOOLEAN]
Tasks == [subject : Rules \union Leads, issue : Issues, due : BOOLEAN, status : {"pending", "done"}]

ReviewTypes ==
    /\ fields \subseteq CustomFields
    /\ rules \in [Rules -> [names : SUBSET CustomFields, old : BOOLEAN]]
    /\ leads \in [Leads -> SUBSET Parts] /\ visible \in BOOLEAN /\ overlapped \in BOOLEAN
    /\ tasks \in Seq(Tasks) /\ Len(tasks) =< MaxTasks
    /\ polls \in [ReviewPolls -> [phase : {"ready", "found", "filing", "done", "killed"},
                                  found : SUBSET Findings, file : SUBSET Findings]]
    /\ \A p \in ReviewPolls : polls[p].file \subseteq polls[p].found /\ IsFiniteSet(polls[p].found)

(* Findings a person can tell apart, and no orphan without the permission. *)
Sound(seen) ==
    /\ \A f, g \in seen : SameTitle(f, g) => f = g
    /\ ~ visible => \A f \in seen : "orphaned" \notin f.issue

FindingsSound == \A p \in ReviewPolls : Sound(polls[p].found)

(* A task for the finding, of any status.                                  *)
Filed(f) == \E i \in DOMAIN tasks : SameTitle(tasks[i], f)

(* What a poll does not file is filed.                                     *)
RestFiled == \A p \in ReviewPolls :
    /\ polls[p].phase = "filing" => \A f \in polls[p].found \ polls[p].file : Filed(f)
    /\ polls[p].phase = "done" => \A f \in polls[p].found : Filed(f)

(* While polls do not overlap, what a poll is about to file nobody is asked.*)
FilesUnasked == ~ overlapped =>
    /\ \A p, q \in ReviewPolls : UnderWay(p) /\ UnderWay(q) => p = q
    /\ \A p \in ReviewPolls : polls[p].phase = "filing" => \A f \in polls[p].file : ~ Asked(f)

ReviewIInv ==
    /\ ReviewTypes /\ FindingsSound /\ RestFiled /\ FilesUnasked
    /\ AskedOnceAtATime /\ NoOrphanUnread

\* A finite set as a sequence: every element once.
LEMMA SetAsSeq ==
  ASSUME NEW S, IsFiniteSet(S)
  PROVE  /\ SetToSeq(S) \in Seq(S) /\ Len(SetToSeq(S)) = Cardinality(S) /\ Cardinality(S) \in Nat
         /\ \A x \in S : \E i \in 1 .. Cardinality(S) : SetToSeq(S)[i] = x
         /\ \A i, j \in 1 .. Cardinality(S) : SetToSeq(S)[i] = SetToSeq(S)[j] => i = j
<1> DEFINE n == Cardinality(S)
           s == SetToSeq(S)
<1>1. n \in Nat /\ ExistsBijection(1 .. n, S)
  BY FS_CardinalityType
<1>2. PICK f \in [1 .. n -> S] : IsInjective(f)
  BY <1>1 DEF ExistsBijection, Bijection, Injection, Surjection, IsInjective
<1>3. s \in [1 .. n -> S] /\ IsInjective(s)
  BY <1>2 DEF SetToSeq
<1>4. IsFiniteSet(1 .. n) /\ Cardinality(1 .. n) = n
  BY <1>1, FS_Interval
<1>5. s \in Injection(1 .. n, S)
  BY <1>3 DEF Injection
<1>6. s \in Surjection(1 .. n, S)
  BY <1>4, <1>5, FS_Injection
<1>7. DOMAIN s = 1 .. n
  BY <1>3
<1>8. \A i, j \in 1 .. n : s[i] = s[j] => i = j
  BY <1>3, <1>7 DEF IsInjective
<1> HIDE DEF s, n
<1>9. s \in Seq(S) /\ Len(s) = n
  BY <1>1, <1>3
<1>10. QED
  BY <1>1, <1>6, <1>8, <1>9 DEF Surjection, s, n

\* There are no more images than elements.
LEMMA ImageBound ==
  ASSUME NEW S, NEW T, IsFiniteSet(S), NEW g \in [S -> T], \A t \in T : \E x \in S : g[x] = t
  PROVE  IsFiniteSet(T) /\ Cardinality(T) =< Cardinality(S)
<1>1. g \in Surjection(S, T)
  BY DEF Surjection
<1>2. QED
  BY <1>1, FS_Surjection

\* What a poll finds is finite, can be told apart and needs the permission.
LEMMA FoundSound ==
  ASSUME ReviewTypes
  PROVE  /\ \A described \in BOOLEAN :
              /\ RuleFindings(described) \subseteq Findings /\ IsFiniteSet(RuleFindings(described))
              /\ Sound(RuleFindings(described))
         /\ LeadFindings \subseteq Findings /\ IsFiniteSet(LeadFindings) /\ Sound(LeadFindings)
<1>1. ASSUME NEW described \in BOOLEAN
      PROVE  /\ RuleFindings(described) \subseteq Findings /\ IsFiniteSet(RuleFindings(described))
             /\ Sound(RuleFindings(described))
  <2> DEFINE known == IF described THEN fields ELSE {}
             A == {Finding(r, {"orphaned"}, Missing(r, fields)) : r \in Orphans(known)}
             B == {Finding(r, {"stale"}, TRUE) : r \in {q \in Rules : rules[q].old}}
  <2>1. RuleFindings(described) = A \union B
    BY DEF RuleFindings
  <2>2. Orphans(known) \subseteq Rules /\ (~ visible => Orphans(known) = {})
    BY DEF Orphans
  <2>3. \A r : Missing(r, fields) \in BOOLEAN
    BY DEF Missing
  <2>4. IsFiniteSet(Orphans(known)) /\ IsFiniteSet({q \in Rules : rules[q].old})
    BY <2>2, ReviewAssumption, FS_Subset
  <2>5. IsFiniteSet(A)
    <3> DEFINE g == [r \in Orphans(known) |-> Finding(r, {"orphaned"}, Missing(r, fields))]
    <3>1. g \in [Orphans(known) -> A] /\ \A t \in A : \E r \in Orphans(known) : g[r] = t
      OBVIOUS
    <3> HIDE DEF g, A, known
    <3>2. QED
      BY <2>4, <3>1, ImageBound
  <2>6. IsFiniteSet(B)
    <3> DEFINE Old == {q \in Rules : rules[q].old}
               g == [r \in Old |-> Finding(r, {"stale"}, TRUE)]
    <3>1. g \in [Old -> B] /\ \A t \in B : \E r \in Old : g[r] = t
      OBVIOUS
    <3>2. IsFiniteSet(Old)
      BY <2>4
    <3> HIDE DEF g, B, Old
    <3>3. QED
      BY <3>2, <3>1, ImageBound
  <2>7. A \subseteq Findings /\ B \subseteq Findings
    <3>1. ASSUME NEW f \in A PROVE f \in Findings
      <4>1. PICK r \in Rules : f = Finding(r, {"orphaned"}, Missing(r, fields))
        BY <2>2
      <4>2. QED
        BY <4>1, <2>3 DEF Finding, Findings, Issues
    <3>2. ASSUME NEW f \in B PROVE f \in Findings
      <4>1. PICK r \in Rules : f = Finding(r, {"stale"}, TRUE)
        BY <3>2
      <4>2. {"stale"} \in Issues
        BY DEF Issues
      <4>3. QED
        BY <4>1, <4>2 DEF Finding, Findings
    <3>3. QED
      BY <3>1, <3>2
  <2>8. /\ \A f \in A : /\ f.issue = {"orphaned"} /\ f.due = Missing(f.subject, fields) /\ visible
                        /\ f = Finding(f.subject, {"orphaned"}, Missing(f.subject, fields))
        /\ \A f \in B : f.issue = {"stale"} /\ f = Finding(f.subject, {"stale"}, TRUE)
    BY <2>2 DEF Finding
  <2> HIDE DEF A, B
  <2>9. Sound(A \union B)
    <3>1. ASSUME NEW f \in A \union B, NEW g \in A \union B, SameTitle(f, g) PROVE f = g
      <4>1. f.subject = g.subject /\ f.issue = g.issue
        BY <3>1 DEF SameTitle
      <4>2. {"orphaned"} # {"stale"}
        OBVIOUS
      <4>3. CASE f \in A /\ g \in A
        BY <4>1, <4>3, <2>8
      <4>4. CASE f \in B /\ g \in B
        BY <4>1, <4>4, <2>8
      <4>5. QED
        BY <4>1, <4>2, <4>3, <4>4, <2>8
    <3>a. "orphaned" \notin {"stale"}
      OBVIOUS
    <3>2. ~ visible => \A f \in A \union B : "orphaned" \notin f.issue
      BY <2>8, <3>a
    <3>3. QED
      BY <3>1, <3>2 DEF Sound
  <2>10. QED
    BY <2>1, <2>5, <2>6, <2>7, <2>9, FS_Union
<1>2. LeadFindings \subseteq Findings /\ IsFiniteSet(LeadFindings) /\ Sound(LeadFindings)
  <2> DEFINE K == {k \in Leads : leads[k] # {}}
  <2>1. LeadFindings = {Finding(l, leads[l], TRUE) : l \in K}
    BY DEF LeadFindings
  <2>2. IsFiniteSet(K)
    BY ReviewAssumption, FS_Subset
  <2>3. IsFiniteSet(LeadFindings)
    <3> DEFINE g == [l \in K |-> Finding(l, leads[l], TRUE)]
    <3>1. g \in [K -> LeadFindings] /\ \A t \in LeadFindings : \E l \in K : g[l] = t
      BY <2>1
    <3> HIDE DEF g, K
    <3>2. QED
      BY <2>2, <3>1, ImageBound
  <2>4. LeadFindings \subseteq Findings
    <3>1. ASSUME NEW f \in LeadFindings PROVE f \in Findings
      <4>1. PICK l \in Leads : f = Finding(l, leads[l], TRUE)
        BY <2>1
      <4>2. leads[l] \subseteq Parts
        BY DEF ReviewTypes
      <4>3. leads[l] \in Issues
        BY <4>2 DEF Issues
      <4>4. QED
        BY <4>1, <4>3 DEF Finding, Findings
    <3>2. QED
      BY <3>1
  <2>5. \A f \in LeadFindings : f = Finding(f.subject, leads[f.subject], TRUE) /\ f.issue \subseteq Parts
    BY <2>1 DEF Finding, ReviewTypes
  <2>6. Sound(LeadFindings)
    BY <2>5 DEF Sound, SameTitle, Parts
  <2>7. QED
    BY <2>3, <2>4, <2>6
<1>3. QED
  BY <1>1, <1>2

\* The tasks a poll files: one for each of its findings, after those there are.
LEMMA TasksFiled ==
  ASSUME ReviewTypes, NEW p \in ReviewPolls, CommitTasks(p), FindingsSound
  PROVE  /\ tasks' \in Seq(Tasks) /\ Len(tasks') =< MaxTasks /\ Len(tasks) =< Len(tasks')
         /\ \A i \in 1 .. Len(tasks) : tasks'[i] = tasks[i]
         /\ \A i \in 1 .. Len(tasks') : i > Len(tasks) => \E f \in polls[p].file : tasks'[i] = TaskOf(f)
         /\ \A f \in polls[p].file : \E i \in 1 .. Len(tasks') : tasks'[i] = TaskOf(f)
         /\ \A i, j \in 1 .. Len(tasks') :
              (i > Len(tasks) /\ j > Len(tasks) /\ SameTitle(tasks'[i], tasks'[j])) => i = j
<1> DEFINE file == polls[p].file
           new == {TaskOf(f) : f \in file}
           s == SetToSeq(new)
<1>1. file \subseteq Findings /\ IsFiniteSet(file) /\ Sound(file)
  <2>1. file \subseteq polls[p].found /\ IsFiniteSet(polls[p].found) /\ file \subseteq Findings
    BY DEF ReviewTypes
  <2>2. QED
    BY <2>1, FS_Subset DEF FindingsSound, Sound
<1>2. new \subseteq Tasks
  BY <1>1 DEF TaskOf, Tasks, Findings
<1>3. IsFiniteSet(new) /\ Cardinality(new) =< Cardinality(file)
  <2> DEFINE g == [f \in file |-> TaskOf(f)]
  <2>1. g \in [file -> new] /\ \A t \in new : \E f \in file : g[f] = t
    OBVIOUS
  <2> HIDE DEF g, new, file
  <2>2. QED
    BY <1>1, <2>1, ImageBound
<1>4. tasks' = tasks \o s /\ Len(tasks) + Cardinality(file) =< MaxTasks
  BY DEF CommitTasks
<1>5. tasks \in Seq(Tasks) /\ Len(tasks) \in Nat /\ MaxTasks \in Nat /\ Cardinality(file) \in Nat
  BY <1>1, ReviewAssumption, FS_CardinalityType DEF ReviewTypes
<1>6. /\ s \in Seq(new) /\ Len(s) = Cardinality(new) /\ Cardinality(new) \in Nat
      /\ \A x \in new : \E i \in 1 .. Len(s) : s[i] = x
      /\ \A i, j \in 1 .. Len(s) : s[i] = s[j] => i = j
  <2> HIDE DEF new
  <2>1. QED
    BY <1>3, SetAsSeq
<1>7. \A t, u \in new : SameTitle(t, u) => t = u
  <2>1. ASSUME NEW f \in file, NEW g \in file, SameTitle(TaskOf(f), TaskOf(g)) PROVE TaskOf(f) = TaskOf(g)
    <3>1. f = g
      BY <1>1, <2>1 DEF Sound, SameTitle, TaskOf
    <3>2. QED
      BY <3>1
  <2>2. QED
    BY <2>1
<1>8. \A f \in file : TaskOf(f) \in new
  OBVIOUS
<1>9. \A t \in new : \E f \in file : t = TaskOf(f)
  OBVIOUS
<1> HIDE DEF s, new, file
<1>10. s \in Seq(Tasks)
  BY <1>2, <1>6
<1>11. /\ tasks' \in Seq(Tasks) /\ Len(tasks') = Len(tasks) + Len(s)
       /\ \A i \in 1 .. Len(tasks) : tasks'[i] = tasks[i]
       /\ \A i \in 1 .. Len(tasks') : i > Len(tasks) =>
             tasks'[i] = s[i - Len(tasks)] /\ i - Len(tasks) \in 1 .. Len(s)
  BY <1>4, <1>5, <1>10
<1>12. Len(tasks') =< MaxTasks /\ Len(tasks) =< Len(tasks')
  BY <1>3, <1>4, <1>5, <1>6, <1>11
<1>13. \A i \in 1 .. Len(s) : s[i] \in new
  BY <1>6
<1>14. \A i \in 1 .. Len(tasks') : i > Len(tasks) => \E f \in file : tasks'[i] = TaskOf(f)
  BY <1>9, <1>11, <1>13
<1>15. \A f \in file : \E i \in 1 .. Len(tasks') : tasks'[i] = TaskOf(f)
  <2> SUFFICES ASSUME NEW f \in file PROVE \E i \in 1 .. Len(tasks') : tasks'[i] = TaskOf(f)
    OBVIOUS
  <2>1. PICK k \in 1 .. Len(s) : s[k] = TaskOf(f)
    BY <1>6, <1>8
  <2>2. /\ Len(tasks) + k \in 1 .. Len(tasks') /\ Len(tasks) + k > Len(tasks)
        /\ Len(tasks) + k - Len(tasks) = k
    BY <1>5, <1>6, <1>11
  <2>3. tasks'[Len(tasks) + k] = TaskOf(f)
    BY <1>11, <2>1, <2>2
  <2>4. QED
    BY <2>2, <2>3
<1>16. ASSUME NEW i \in 1 .. Len(tasks'), NEW j \in 1 .. Len(tasks'), i > Len(tasks), j > Len(tasks),
              SameTitle(tasks'[i], tasks'[j])
       PROVE  i = j
  <2>1. s[i - Len(tasks)] = s[j - Len(tasks)]
    BY <1>7, <1>11, <1>13, <1>16
  <2>2. i - Len(tasks) = j - Len(tasks)
    BY <1>6, <1>11, <1>16, <2>1
  <2>3. QED
    BY <1>5, <1>11, <2>2
<1>17. QED
  BY <1>11, <1>12, <1>14, <1>15, <1>16 DEF file

\* Every scan and filing leaves findings a person can tell apart.
LEMMA ReviewTyped ==
  ASSUME ReviewTypes, FindingsSound, ReviewNext
  PROVE  ReviewTypes' /\ FindingsSound'
<1>t. /\ tasks \in Seq(Tasks) /\ visible \in BOOLEAN /\ overlapped \in BOOLEAN
      /\ polls \in [ReviewPolls -> [phase : {"ready", "found", "filing", "done", "killed"},
                                    found : SUBSET Findings, file : SUBSET Findings]]
      /\ \A p \in ReviewPolls : polls[p].file \subseteq polls[p].found /\ IsFiniteSet(polls[p].found)
  BY DEF ReviewTypes
<1>1. ASSUME NEW p \in ReviewPolls, PollRules(p) \/ PollLeads(p) PROVE ReviewTypes' /\ FindingsSound'
  <2>1. PICK seen : /\ StartPoll(p, seen)
                     /\ seen \in SUBSET Findings /\ IsFiniteSet(seen) /\ Sound(seen)
    <3>1. CASE PollLeads(p)
      BY <3>1, FoundSound DEF PollLeads
    <3>2. CASE PollRules(p)
      <4>1. PICK described \in BOOLEAN : StartPoll(p, RuleFindings(described))
        BY <3>2 DEF PollRules
      <4>2. QED
        BY <4>1, FoundSound
    <3>3. QED
      BY <1>1, <3>1, <3>2
  <2>2. /\ polls' = [polls EXCEPT ![p] = [phase |-> "found", found |-> seen, file |-> {}]]
        /\ UNCHANGED <<fields, rules, leads, visible, tasks>> /\ overlapped' \in BOOLEAN
    BY <2>1 DEF StartPoll
  <2>3. polls' \in [ReviewPolls -> [phase : {"ready", "found", "filing", "done", "killed"},
                                   found : SUBSET Findings, file : SUBSET Findings]]
    BY <1>t, <2>1, <2>2
  <2>4. /\ polls'[p].found = seen /\ polls'[p].file = {}
        /\ \A q \in ReviewPolls : q # p => polls'[q] = polls[q]
    BY <1>t, <2>2
  <2>5. ReviewTypes'
    BY <1>t, <2>1, <2>2, <2>3, <2>4 DEF ReviewTypes
  <2>6. FindingsSound'
    BY <2>1, <2>2, <2>4 DEF FindingsSound, Sound
  <2>7. QED
    BY <2>5, <2>6
<1>2. ASSUME NEW p \in ReviewPolls, LookUp(p) PROVE ReviewTypes' /\ FindingsSound'
  <2> DEFINE file == {f \in polls[p].found : ~ Asked(f)}
  <2>1. /\ polls' = [polls EXCEPT ![p].phase = "filing", ![p].file = file] /\ file \subseteq polls[p].found
        /\ UNCHANGED <<fields, rules, leads, visible, tasks, overlapped>>
    BY <1>2 DEF LookUp
  <2> HIDE DEF file
  <2>2. polls' \in [ReviewPolls -> [phase : {"ready", "found", "filing", "done", "killed"},
                                   found : SUBSET Findings, file : SUBSET Findings]]
    BY <1>t, <2>1
  <2>3. /\ polls'[p].found = polls[p].found /\ polls'[p].file = file
        /\ \A q \in ReviewPolls : q # p => polls'[q] = polls[q]
    BY <1>t, <2>1
  <2>4. ReviewTypes'
    BY <1>t, <2>1, <2>2, <2>3 DEF ReviewTypes
  <2>5. FindingsSound'
    BY <2>1, <2>3 DEF FindingsSound, Sound
  <2>6. QED
    BY <2>4, <2>5
<1>3. ASSUME NEW p \in ReviewPolls, CommitTasks(p) PROVE ReviewTypes' /\ FindingsSound'
  <2>1. /\ polls' = [polls EXCEPT ![p].phase = "done"]
        /\ UNCHANGED <<fields, rules, leads, visible, overlapped>>
    BY <1>3 DEF CommitTasks
  <2>2. polls' \in [ReviewPolls -> [phase : {"ready", "found", "filing", "done", "killed"},
                                   found : SUBSET Findings, file : SUBSET Findings]]
    BY <1>t, <2>1
  <2>3. \A q \in ReviewPolls : polls'[q].found = polls[q].found /\ polls'[q].file = polls[q].file
    BY <1>t, <2>1
  <2>4. ReviewTypes'
    BY <1>3, <1>t, <2>1, <2>2, <2>3, TasksFiled DEF ReviewTypes
  <2>5. FindingsSound'
    BY <2>1, <2>3 DEF FindingsSound, Sound
  <2>6. QED
    BY <2>4, <2>5
<1>4. ASSUME NEW p \in ReviewPolls, KillReview(p) PROVE ReviewTypes' /\ FindingsSound'
  <2>1. /\ polls' = [polls EXCEPT ![p] = [NoReview EXCEPT !.phase = "killed"]]
        /\ UNCHANGED <<fields, rules, leads, visible, tasks, overlapped>>
    BY <1>4 DEF KillReview
  <2>2. polls' \in [ReviewPolls -> [phase : {"ready", "found", "filing", "done", "killed"},
                                   found : SUBSET Findings, file : SUBSET Findings]]
    BY <1>t, <2>1 DEF NoReview
  <2>3. /\ polls'[p].found = {} /\ polls'[p].file = {}
        /\ \A q \in ReviewPolls : q # p => polls'[q] = polls[q]
    BY <1>t, <2>1 DEF NoReview
  <2>4. ReviewTypes'
    BY <1>t, <2>1, <2>2, <2>3, FS_EmptySet DEF ReviewTypes
  <2>5. FindingsSound'
    BY <2>1, <2>3 DEF FindingsSound, Sound
  <2>6. QED
    BY <2>4, <2>5
<1>5. ASSUME NEW i \in DOMAIN tasks, CloseTask(i) PROVE ReviewTypes' /\ FindingsSound'
  <2>1. /\ tasks' = [tasks EXCEPT ![i].status = "done"]
        /\ UNCHANGED <<fields, rules, leads, visible, polls, overlapped>>
    BY <1>5 DEF CloseTask
  <2>2. tasks' \in Seq(Tasks) /\ Len(tasks') = Len(tasks)
    <3>1. i \in 1 .. Len(tasks) /\ tasks[i] \in Tasks
      BY <1>t
    <3>2. [tasks[i] EXCEPT !.status = "done"] \in Tasks
      BY <3>1 DEF Tasks
    <3>3. QED
      BY <1>t, <2>1, <3>1, <3>2
  <2>3. QED
    BY <2>1, <2>2 DEF ReviewTypes, FindingsSound, Sound
<1>6. ASSUME NEW f \in CustomFields, DropField(f) PROVE ReviewTypes' /\ FindingsSound'
  BY <1>6 DEF DropField, ReviewTypes, FindingsSound, Sound
<1>7. ASSUME NEW r \in Rules, AgeRule(r) PROVE ReviewTypes' /\ FindingsSound'
  <2>1. rules' = [rules EXCEPT ![r].old = TRUE] /\ UNCHANGED <<fields, leads, visible, tasks, polls, overlapped>>
    BY <1>7 DEF AgeRule
  <2>2. rules' \in [Rules -> [names : SUBSET CustomFields, old : BOOLEAN]]
    <3>1. [rules[r] EXCEPT !.old = TRUE] \in [names : SUBSET CustomFields, old : BOOLEAN]
      BY DEF ReviewTypes
    <3>2. QED
      BY <2>1, <3>1 DEF ReviewTypes
  <2>3. QED
    BY <2>1, <2>2 DEF ReviewTypes, FindingsSound, Sound
<1>8. ASSUME NEW l \in Leads, NEW missing \in SUBSET Parts, Convert(l, missing)
      PROVE  ReviewTypes' /\ FindingsSound'
  BY <1>8 DEF Convert, ReviewTypes, FindingsSound, Sound
<1>9. {"no_opportunity"} \in SUBSET Parts /\ {"no_opportunity", "no_account"} \in SUBSET Parts
  BY DEF Parts
<1>10. QED
  BY <1>1, <1>2, <1>3, <1>4, <1>5, <1>6, <1>7, <1>8, <1>9 DEF ReviewNext

\* What is filed stays filed, and nobody is asked twice at once.
LEMMA TasksStay ==
  ASSUME ReviewTypes, FindingsSound, ReviewNext, RestFiled, FilesUnasked, AskedOnceAtATime, NoOrphanUnread
  PROVE  RestFiled' /\ FilesUnasked' /\ AskedOnceAtATime' /\ NoOrphanUnread'
<1>t. /\ tasks \in Seq(Tasks) /\ Len(tasks) \in Nat
      /\ DOMAIN tasks = 1 .. Len(tasks) /\ \A i \in 1 .. Len(tasks) : tasks[i] \in Tasks
      /\ polls \in [ReviewPolls -> [phase : {"ready", "found", "filing", "done", "killed"},
                                    found : SUBSET Findings, file : SUBSET Findings]]
      /\ \A p \in ReviewPolls : polls[p].file \subseteq polls[p].found
  BY DEF ReviewTypes
<1>s. ASSUME NEW p \in ReviewPolls, UNCHANGED <<visible, tasks, overlapped>>,
             \A q \in ReviewPolls : q # p => polls'[q] = polls[q],
             UnderWay(p),
             polls'[p].phase = "killed" \/ (polls'[p].phase = "filing"
                                            /\ polls'[p].file = {f \in polls[p].found : ~ Asked(f)}
                                            /\ polls'[p].found = polls[p].found)
      PROVE  RestFiled' /\ FilesUnasked' /\ AskedOnceAtATime' /\ NoOrphanUnread'
  <2>1. \A f : (Filed(f)' <=> Filed(f)) /\ (Asked(f)' <=> Asked(f))
    BY <1>s DEF Filed, Asked
  <2>2. \A f : Asked(f) => Filed(f)
    BY DEF Asked, Filed
  <2>3. RestFiled'
    BY <1>s, <2>1, <2>2 DEF RestFiled
  <2>4. FilesUnasked'
    BY <1>s, <2>1 DEF FilesUnasked, UnderWay
  <2>5. AskedOnceAtATime' /\ NoOrphanUnread'
    BY <1>s DEF AskedOnceAtATime, NoOrphanUnread
  <2>6. QED
    BY <2>3, <2>4, <2>5
<1>1. ASSUME NEW p \in ReviewPolls, PollRules(p) \/ PollLeads(p)
      PROVE  RestFiled' /\ FilesUnasked' /\ AskedOnceAtATime' /\ NoOrphanUnread'
  <2>1. PICK seen : StartPoll(p, seen)
    BY <1>1 DEF PollRules, PollLeads
  <2>2. /\ polls'[p].phase = "found" /\ \A q \in ReviewPolls : q # p => polls'[q] = polls[q]
        /\ UNCHANGED <<visible, tasks>>
        /\ overlapped' = (overlapped \/ \E q \in ReviewPolls : UnderWay(q))
    BY <2>1, <1>t DEF StartPoll
  <2>3. RestFiled'
    BY <2>2 DEF RestFiled, Filed
  <2>4. FilesUnasked'
    BY <2>2 DEF FilesUnasked, UnderWay, Asked
  <2>5. AskedOnceAtATime' /\ NoOrphanUnread'
    BY <2>2 DEF AskedOnceAtATime, NoOrphanUnread
  <2>6. QED
    BY <2>3, <2>4, <2>5
<1>2. ASSUME NEW p \in ReviewPolls, LookUp(p)
      PROVE  RestFiled' /\ FilesUnasked' /\ AskedOnceAtATime' /\ NoOrphanUnread'
  <2>1. /\ UNCHANGED <<visible, tasks, overlapped>> /\ UnderWay(p)
        /\ \A q \in ReviewPolls : q # p => polls'[q] = polls[q]
        /\ polls'[p].phase = "filing" /\ polls'[p].found = polls[p].found
        /\ polls'[p].file = {f \in polls[p].found : ~ Asked(f)}
    BY <1>2, <1>t DEF LookUp, UnderWay
  <2>2. QED
    BY <1>s, <2>1
<1>3. ASSUME NEW p \in ReviewPolls, KillReview(p)
      PROVE  RestFiled' /\ FilesUnasked' /\ AskedOnceAtATime' /\ NoOrphanUnread'
  <2>1. /\ UNCHANGED <<visible, tasks, overlapped>> /\ UnderWay(p)
        /\ \A q \in ReviewPolls : q # p => polls'[q] = polls[q]
        /\ polls'[p].phase = "killed"
    BY <1>3, <1>t DEF KillReview, NoReview
  <2>2. QED
    BY <1>s, <2>1
<1>4. ASSUME NEW p \in ReviewPolls, CommitTasks(p)
      PROVE  RestFiled' /\ FilesUnasked' /\ AskedOnceAtATime' /\ NoOrphanUnread'
  <2>1. /\ polls[p].phase = "filing" /\ UNCHANGED <<visible, overlapped>>
        /\ polls'[p].phase = "done" /\ polls'[p].found = polls[p].found
        /\ \A q \in ReviewPolls : q # p => polls'[q] = polls[q]
    BY <1>4, <1>t DEF CommitTasks
  <2>2. /\ tasks' \in Seq(Tasks) /\ Len(tasks) =< Len(tasks')
        /\ \A i \in 1 .. Len(tasks) : tasks'[i] = tasks[i]
        /\ \A i \in 1 .. Len(tasks') : i > Len(tasks) => \E f \in polls[p].file : tasks'[i] = TaskOf(f)
        /\ \A f \in polls[p].file : \E i \in 1 .. Len(tasks') : tasks'[i] = TaskOf(f)
        /\ \A i, j \in 1 .. Len(tasks') :
              (i > Len(tasks) /\ j > Len(tasks) /\ SameTitle(tasks'[i], tasks'[j])) => i = j
    BY <1>4, TasksFiled
  <2>3. DOMAIN tasks' = 1 .. Len(tasks') /\ Len(tasks') \in Nat
    BY <2>2
  <2>4. \A f : Filed(f) => Filed(f)'
    BY <1>t, <2>2, <2>3 DEF Filed
  <2>5. \A f \in polls[p].file : Filed(f)'
    <3>1. \A f : SameTitle(TaskOf(f), f)
      BY DEF SameTitle, TaskOf
    <3>2. QED
      BY <2>2, <2>3, <3>1 DEF Filed
  <2>6. RestFiled'
    BY <2>1, <2>4, <2>5 DEF RestFiled
  <2>7. FilesUnasked'
    <3>1. ~ overlapped => \A q \in ReviewPolls : q # p => ~ UnderWay(q)
      BY <2>1 DEF FilesUnasked, UnderWay
    <3>2. QED
      BY <2>1, <3>1 DEF FilesUnasked, UnderWay
  <2>8. AskedOnceAtATime'
    <3>1. ASSUME ~ overlapped, NEW i \in 1 .. Len(tasks'), NEW j \in 1 .. Len(tasks'), i > Len(tasks),
                 j =< Len(tasks), SameTitle(tasks'[i], tasks'[j])
          PROVE  tasks'[j].status = "done"
      <4>1. PICK f \in polls[p].file : tasks'[i] = TaskOf(f)
        BY <2>2, <3>1
      <4>2. ~ Asked(f)
        BY <2>1, <3>1 DEF FilesUnasked
      <4>3. j \in DOMAIN tasks /\ tasks'[j] = tasks[j] /\ tasks[j] \in Tasks
        BY <1>t, <2>2, <3>1
      <4>4. SameTitle(tasks[j], f)
        BY <3>1, <4>1, <4>3 DEF SameTitle, TaskOf
      <4>5. QED
        BY <4>2, <4>3, <4>4 DEF Asked, Tasks
    <3>2. ASSUME ~ overlapped, NEW i \in 1 .. Len(tasks'), NEW j \in 1 .. Len(tasks'), i # j,
                 SameTitle(tasks'[i], tasks'[j])
          PROVE  "done" \in {tasks'[i].status, tasks'[j].status}
      <4>1. SameTitle(tasks'[j], tasks'[i])
        BY <3>2 DEF SameTitle
      <4>2. CASE i > Len(tasks) /\ j > Len(tasks)
        BY <2>2, <3>2, <4>2
      <4>3. CASE i > Len(tasks) /\ j =< Len(tasks)
        BY <3>1, <3>2, <4>3
      <4>4. CASE j > Len(tasks) /\ i =< Len(tasks)
        BY <3>1, <3>2, <4>1, <4>4
      <4>5. CASE i =< Len(tasks) /\ j =< Len(tasks)
        <5>1. i \in DOMAIN tasks /\ j \in DOMAIN tasks /\ tasks'[i] = tasks[i] /\ tasks'[j] = tasks[j]
          BY <1>t, <2>2, <4>5
        <5>2. QED
          BY <3>2, <5>1 DEF AskedOnceAtATime
      <4>6. QED
        BY <1>t, <2>3, <4>2, <4>3, <4>4, <4>5
    <3>3. QED
      BY <2>1, <2>3, <3>2 DEF AskedOnceAtATime
  <2>9. NoOrphanUnread'
    <3>1. ASSUME ~ visible, NEW i \in 1 .. Len(tasks') PROVE "orphaned" \notin tasks'[i].issue
      <4>1. CASE i > Len(tasks)
        <5>1. PICK f \in polls[p].file : tasks'[i] = TaskOf(f)
          BY <2>2, <4>1
        <5>2. "orphaned" \notin f.issue
          BY <1>t, <3>1 DEF FindingsSound, Sound
        <5>3. QED
          BY <5>1, <5>2 DEF TaskOf
      <4>2. CASE i =< Len(tasks)
        <5>1. i \in DOMAIN tasks /\ tasks'[i] = tasks[i]
          BY <1>t, <2>2, <4>2
        <5>2. QED
          BY <3>1, <5>1 DEF NoOrphanUnread
      <4>3. QED
        BY <1>t, <2>3, <4>1, <4>2
    <3>2. QED
      BY <2>1, <2>3, <3>1 DEF NoOrphanUnread
  <2>10. QED
    BY <2>6, <2>7, <2>8, <2>9
<1>5. ASSUME NEW k \in DOMAIN tasks, CloseTask(k)
      PROVE  RestFiled' /\ FilesUnasked' /\ AskedOnceAtATime' /\ NoOrphanUnread'
  <2>1. /\ tasks' = [tasks EXCEPT ![k].status = "done"] /\ UNCHANGED <<visible, polls, overlapped>>
    BY <1>5 DEF CloseTask
  <2>2. /\ DOMAIN tasks' = DOMAIN tasks
        /\ \A i \in DOMAIN tasks : /\ tasks'[i].subject = tasks[i].subject
                                    /\ tasks'[i].issue = tasks[i].issue
                                    /\ tasks'[i].status = IF i = k THEN "done" ELSE tasks[i].status
    BY <1>t, <2>1 DEF Tasks
  <2>3. \A f : (Filed(f) => Filed(f)') /\ (Asked(f)' => Asked(f))
    BY <2>2 DEF Filed, Asked, SameTitle
  <2>4. RestFiled' /\ FilesUnasked'
    BY <2>1, <2>3 DEF RestFiled, FilesUnasked, UnderWay
  <2>5. AskedOnceAtATime'
    BY <2>1, <2>2 DEF AskedOnceAtATime, SameTitle
  <2>6. NoOrphanUnread'
    BY <2>1, <2>2 DEF NoOrphanUnread
  <2>7. QED
    BY <2>4, <2>5, <2>6
<1>6. ASSUME UNCHANGED <<visible, tasks, polls, overlapped>>
      PROVE  RestFiled' /\ FilesUnasked' /\ AskedOnceAtATime' /\ NoOrphanUnread'
  BY <1>6 DEF RestFiled, FilesUnasked, AskedOnceAtATime, NoOrphanUnread, Filed, Asked, UnderWay
<1>7. ASSUME \/ \E f \in CustomFields : DropField(f)
             \/ \E r \in Rules : AgeRule(r)
             \/ \E l \in Leads : \/ Convert(l, {"no_opportunity"})
                                 \/ Convert(l, {"no_opportunity", "no_account"})
      PROVE  UNCHANGED <<visible, tasks, polls, overlapped>>
  BY <1>7 DEF DropField, AgeRule, Convert
<1>8. QED
  BY <1>1, <1>2, <1>3, <1>4, <1>5, <1>6, <1>7 DEF ReviewNext

\* The invariant of the review polls is inductive: what a poll does not file
\* is filed, unless two polls overlapped (poll, _existing_titles).
THEOREM TasksInductive == ReviewSpec => []ReviewIInv
<1>1. ReviewInit => ReviewIInv
  <2> SUFFICES ASSUME ReviewInit PROVE ReviewIInv
    OBVIOUS
  <2>1. polls = [p \in ReviewPolls |-> NoReview] /\ tasks = << >> /\ overlapped = FALSE
    BY DEF ReviewInit
  <2>2. \A p \in ReviewPolls : polls[p].phase = "ready" /\ polls[p].found = {} /\ polls[p].file = {}
    BY <2>1 DEF NoReview
  <2>3. polls \in [ReviewPolls -> [phase : {"ready", "found", "filing", "done", "killed"},
                                  found : SUBSET Findings, file : SUBSET Findings]]
    BY <2>1 DEF NoReview
  <2>4. tasks \in Seq(Tasks) /\ Len(tasks) = 0 /\ DOMAIN tasks = {}
    BY <2>1
  <2>5. /\ rules \in [Rules -> [names : SUBSET CustomFields, old : BOOLEAN]]
        /\ leads \in [Leads -> SUBSET Parts] /\ fields \subseteq CustomFields
    BY DEF ReviewInit
  <2>6. visible \in BOOLEAN /\ overlapped \in BOOLEAN
    BY Zenon DEF ReviewInit
  <2>7. ReviewTypes
    <3>1. Len(tasks) =< MaxTasks
      BY <2>4, ReviewAssumption
    <3>2. \A p \in ReviewPolls : polls[p].file \subseteq polls[p].found /\ IsFiniteSet(polls[p].found)
      BY <2>2, FS_EmptySet
    <3>3. QED
      BY <2>3, <2>4, <2>5, <2>6, <3>1, <3>2 DEF ReviewTypes
  <2>8. FindingsSound /\ RestFiled /\ FilesUnasked
    BY <2>2 DEF FindingsSound, Sound, RestFiled, FilesUnasked, UnderWay
  <2>9. AskedOnceAtATime /\ NoOrphanUnread
    BY <2>4 DEF AskedOnceAtATime, NoOrphanUnread
  <2>10. QED
    BY <2>7, <2>8, <2>9 DEF ReviewIInv
<1>2. ReviewIInv /\ [ReviewNext]_reviewVars => ReviewIInv'
  <2> SUFFICES ASSUME ReviewIInv, [ReviewNext]_reviewVars PROVE ReviewIInv'
    OBVIOUS
  <2>1. CASE ReviewNext
    BY <2>1, ReviewTyped, TasksStay DEF ReviewIInv
  <2>2. CASE UNCHANGED reviewVars
    BY <2>2 DEF ReviewIInv, reviewVars, ReviewTypes, FindingsSound, Sound, RestFiled, Filed,
       FilesUnasked, UnderWay, Asked, AskedOnceAtATime, NoOrphanUnread
  <2>3. QED
    BY <2>1, <2>2
<1>3. QED
  BY <1>1, <1>2, PTL DEF ReviewSpec

\* What the review tasks promise, for any number of rules, leads and polls
\* that are killed anywhere.
THEOREM TasksHold == ReviewSpec => []TasksInv
<1>1. ReviewIInv => TasksInv
  <2> SUFFICES ASSUME ReviewIInv PROVE TasksInv
    OBVIOUS
  <2>1. ReviewTypeOK
    BY DEF ReviewIInv, ReviewTypes, ReviewTypeOK
  <2>2. FindingsAreAsked
    BY DEF ReviewIInv, RestFiled, Filed, FindingsAreAsked
  <2>3. QED
    BY <2>1, <2>2 DEF ReviewIInv, TasksInv
<1>2. QED
  BY <1>1, TasksInductive, PTL

-----------------------------------------------------------------------------
(* The caches *)

Rows == [deploy : Nat, at : Nat]
ReadTypes == [kind : {"none", "describe", "search"},
              phase : {"ready", "missed", "fetched", "charged", "done", "failed", "killed"},
              alias : Orgs, deploy : Nat, floor : Nat]

CacheTypes ==
    /\ schema \in [Orgs -> Nat] /\ describes \in [Orgs -> Rows]
    /\ reads \in [Readers -> ReadTypes]
    /\ found \in [at : Nat, good : BOOLEAN]
    /\ bills \subseteq [at : Nat, by : Readers, answered : BOOLEAN]
    /\ shared \in BOOLEAN /\ raced \in BOOLEAN
    /\ floor \in [Orgs -> Nat] /\ hour \in Nat \ {0}

(* No row, read or bill is from a later deploy or hour than now.           *)
NothingAhead ==
    /\ \A o \in Orgs : /\ describes[o].at =< hour /\ describes[o].deploy =< schema["read"]
                       /\ floor[o] =< schema[o]
    /\ \A r \in Readers : reads[r].deploy =< schema["read"] /\ reads[r].floor =< floor[reads[r].alias]
    /\ found.at =< hour /\ \A b \in bills : b.at =< hour

(* What the row and a fetch of the read org hold, a bust has not passed.   *)
FloorKept == ~ raced =>
    /\ describes["read"].at > 0 => describes["read"].deploy >= floor["read"]
    /\ \A r \in Readers : (reads[r].kind = "describe" /\ reads[r].alias = "read") =>
        /\ reads[r].phase = "fetched" => reads[r].deploy >= floor["read"]
        /\ reads[r].phase = "done" => reads[r].deploy >= reads[r].floor

Charging(r) == reads[r].kind = "search" /\ reads[r].phase = "charged"

(* A charge that was answered is stored, about to be stored, or over.      *)
Answered == {b \in bills : b.answered}
ChargeKept == \A b \in Answered :
    \/ hour - b.at > ApolloTtl
    \/ found.good /\ found.at >= b.at /\ found.at > 0
    \/ \E r \in Readers : Charging(r)

SearchesApart ==
    /\ \A q, r \in Readers : Searching(q) /\ Searching(r) => q = r
    /\ \A r \in Readers : (Searching(r) /\ reads[r].phase = "missed") =>
        \A b \in Answered : hour - b.at > ApolloTtl

BillsApart ==
    \A a, b \in bills :
        (a # b /\ a.answered /\ a.at =< b.at /\ b.at - a.at =< ApolloTtl) =>
            a.at = b.at /\ ~ b.answered

CachesIInv ==
    /\ CacheTypes /\ NothingAhead /\ FloorKept
    /\ ~ shared => ChargeKept /\ SearchesApart /\ BillsApart

\* Every look-up, fetch and bust leaves rows that are of a deploy and an hour
\* that have been.
LEMMA CacheTyped ==
  ASSUME CacheTypes, NothingAhead, CacheNext
  PROVE  CacheTypes' /\ NothingAhead'
<1> USE DEF CacheTypes, NothingAhead, Rows, ReadTypes, Apollo, Describing
<1>a. DescribeTtl \in Nat /\ StaleAfter \in Nat /\ ApolloTtl \in Nat /\ MaxDeploys \in Nat /\ LastHour \in Nat
  BY CacheAssumption
<1>b. "read" \in Orgs
  BY DEF Orgs
<1>1. ASSUME NEW o \in Orgs, Deploy(o) PROVE CacheTypes' /\ NothingAhead'
  BY <1>1, <1>b DEF Deploy
<1>2. ASSUME NEW r \in Readers, NEW o \in Orgs, Get(r, o) PROVE CacheTypes' /\ NothingAhead'
  <2>1. PICK hit \in BOOLEAN : reads' = [reads EXCEPT ![r] =
           [kind |-> "describe", phase |-> IF hit THEN "done" ELSE "missed", alias |-> o,
            deploy |-> IF hit THEN describes[o].deploy ELSE 0, floor |-> floor[o]]]
    <3>1. Fresh(describes[o]) \in BOOLEAN
      BY DEF Fresh
    <3>2. QED
      BY <1>2, <3>1 DEF Get
  <2>2. CacheTypes'
    BY <1>2, <2>1 DEF Get
  <2>3. NothingAhead'
    BY <1>2, <2>1, <1>b DEF Get
  <2>4. QED
    BY <2>2, <2>3
<1>3. ASSUME NEW r \in Readers, GetFails(r) PROVE CacheTypes' /\ NothingAhead'
  BY <1>3 DEF GetFails
<1>4. ASSUME NEW r \in Readers, Fetched(r) PROVE CacheTypes' /\ NothingAhead'
  <2>1. CacheTypes'
    <3> DEFINE got == [reads[r] EXCEPT !.phase = "fetched", !.deploy = schema["read"]]
    <3>1. reads[r] \in ReadTypes /\ schema["read"] \in Nat
      BY <1>b
    <3>2. got \in ReadTypes
      BY <3>1
    <3>3. reads' = [reads EXCEPT ![r] = got]
      BY <1>4 DEF Fetched
    <3> HIDE DEF got
    <3>4. reads' \in [Readers -> ReadTypes]
      BY <3>2, <3>3
    <3>5. UNCHANGED <<schema, describes, floor, found, bills, shared, raced, hour>>
      BY <1>4 DEF Fetched
    <3>6. QED
      BY <3>4, <3>5
  <2>2. NothingAhead'
    <3>1. UNCHANGED <<schema, describes, floor, found, bills, hour>>
      BY <1>4 DEF Fetched
    <3>2. reads \in [Readers -> ReadTypes] /\ reads[r] \in ReadTypes /\ schema["read"] \in Nat
      BY <1>b
    <3>3. reads' = [reads EXCEPT ![r] = [reads[r] EXCEPT !.phase = "fetched", !.deploy = schema["read"]]]
      BY <1>4 DEF Fetched
    <3>4. ASSUME NEW q \in Readers
          PROVE  reads'[q].deploy =< schema["read"] /\ reads'[q].floor =< floor[reads'[q].alias]
      <4>1. CASE q = r
        BY <3>2, <3>3, <4>1
      <4>2. CASE q # r
        BY <3>2, <3>3, <4>2
      <4>3. QED
        BY <4>1, <4>2
    <3>5. QED
      BY <3>1, <3>4
  <2>3. QED
    BY <2>1, <2>2
<1>5. ASSUME NEW r \in Readers, Upsert(r) PROVE CacheTypes' /\ NothingAhead'
  <2>1. CacheTypes'
    BY <1>5 DEF Upsert
  <2>2. NothingAhead'
    BY <1>5, <1>b DEF Upsert
  <2>3. QED
    BY <2>1, <2>2
<1>6. ASSUME NEW r \in Readers, Search(r) PROVE CacheTypes' /\ NothingAhead'
  <2>1. PICK phase \in {"done", "missed"} :
          reads' = [reads EXCEPT ![r] = [NoRead EXCEPT !.kind = "search", !.phase = phase]]
    BY <1>6 DEF Search
  <2>2. CacheTypes'
    <3>1. [NoRead EXCEPT !.kind = "search", !.phase = phase] \in ReadTypes
      BY <1>b DEF NoRead
    <3>2. reads' \in [Readers -> ReadTypes]
      BY <2>1, <3>1
    <3>3. UNCHANGED <<Describing, found, bills, hour>> /\ shared' \in BOOLEAN
      BY <1>6 DEF Search
    <3>4. QED
      BY <3>2, <3>3
  <2>3. NothingAhead'
    <3>1. /\ reads'[r].deploy = 0 /\ reads'[r].floor = 0 /\ reads'[r].alias \in Orgs
          /\ \A q \in Readers : q # r => reads'[q] = reads[q]
      BY <2>1, <1>b DEF NoRead
    <3>2. UNCHANGED <<schema, describes, floor, found, bills, hour>>
      BY <1>6 DEF Search
    <3>3. /\ schema["read"] \in Nat /\ 0 =< schema["read"]
          /\ floor[reads'[r].alias] \in Nat /\ 0 =< floor[reads'[r].alias]
      BY <3>1, <1>b
    <3>4. ASSUME NEW q \in Readers
          PROVE  reads'[q].deploy =< schema["read"] /\ reads'[q].floor =< floor[reads'[q].alias]
      <4>1. CASE q = r
        BY <3>1, <3>3, <4>1
      <4>2. CASE q # r
        BY <3>1, <4>2
      <4>3. QED
        BY <4>1, <4>2
    <3>5. QED
      BY <3>2, <3>4
  <2>4. QED
    BY <2>2, <2>3
<1>7. ASSUME NEW r \in Readers, NEW answered \in BOOLEAN, NEW charged \in BOOLEAN,
             PostSearch(r, answered, charged)
      PROVE  CacheTypes' /\ NothingAhead'
  <2>1. CacheTypes'
    BY <1>7 DEF PostSearch
  <2>2. NothingAhead'
    BY <1>7 DEF PostSearch
  <2>3. QED
    BY <2>1, <2>2
<1>8. ASSUME NEW r \in Readers, CacheWrite(r) \/ KillRead(r) PROVE CacheTypes' /\ NothingAhead'
  <2>1. CASE CacheWrite(r)
    BY <2>1 DEF CacheWrite
  <2>2. CASE KillRead(r)
    BY <2>2 DEF KillRead
  <2>3. QED
    BY <1>8, <2>1, <2>2
<1>9. ASSUME NEW o \in Orgs, BustAlias(o) PROVE CacheTypes' /\ NothingAhead'
  <2>1. CacheTypes'
    BY <1>9 DEF BustAlias, Bust, NoRow
  <2>2. NothingAhead'
    BY <1>9, <1>b DEF BustAlias, Bust, NoRow
  <2>3. QED
    BY <2>1, <2>2
<1>10. ASSUME VacuumStale PROVE CacheTypes' /\ NothingAhead'
  <2>1. CacheTypes'
    BY <1>10 DEF VacuumStale, NoRow
  <2>2. NothingAhead'
    BY <1>10, <1>b DEF VacuumStale, NoRow
  <2>3. QED
    BY <2>1, <2>2
<1>11. ASSUME Corrupt \/ ClearExpired \/ EndHour PROVE CacheTypes' /\ NothingAhead'
  <2>1. CASE Corrupt
    BY <2>1 DEF Corrupt
  <2>2. CASE ClearExpired
    BY <2>2 DEF ClearExpired, NoAnswer
  <2>3. CASE EndHour
    BY <2>3 DEF EndHour
  <2>4. QED
    BY <1>11, <2>1, <2>2, <2>3
<1>12. QED
  BY <1>1, <1>2, <1>3, <1>4, <1>5, <1>6, <1>7, <1>8, <1>9, <1>10, <1>11 DEF CacheNext

\* A bust is followed: what a get of the read org is answered with.
LEMMA FloorStays ==
  ASSUME CacheTypes, NothingAhead, CacheNext, FloorKept
  PROVE  FloorKept'
<1> SUFFICES ASSUME ~ raced' PROVE FloorKept'
  BY DEF FloorKept
<1> USE DEF CacheTypes, NothingAhead, Rows, ReadTypes, Apollo, Describing
<1>b. "read" \in Orgs /\ CacheTypes' /\ NothingAhead'
  BY CacheTyped DEF Orgs
<1>n. ~ raced
  BY DEF CacheNext, Deploy, Get, GetFails, Fetched, Upsert, Search, PostSearch, CacheWrite, KillRead,
     BustAlias, VacuumStale, Corrupt, ClearExpired, EndHour
<1>k. /\ describes["read"].at > 0 => describes["read"].deploy >= floor["read"]
      /\ \A r \in Readers : (reads[r].kind = "describe" /\ reads[r].alias = "read") =>
            /\ reads[r].phase = "fetched" => reads[r].deploy >= floor["read"]
            /\ reads[r].phase = "done" => reads[r].deploy >= reads[r].floor
  BY <1>n DEF FloorKept
<1>1. ASSUME NEW r \in Readers, NEW o \in Orgs, Get(r, o) PROVE FloorKept'
  <2>1. /\ reads'[r].kind = "describe" /\ reads'[r].alias = o /\ reads'[r].floor = floor[o]
        /\ reads'[r].phase = IF Fresh(describes[o]) THEN "done" ELSE "missed"
        /\ Fresh(describes[o]) => reads'[r].deploy = describes[o].deploy
        /\ \A q \in Readers : q # r => reads'[q] = reads[q]
        /\ UNCHANGED Describing
    BY <1>1 DEF Get
  <2>2. Fresh(describes[o]) => describes[o].at > 0
    BY DEF Fresh
  <2>3. QED
    BY <1>k, <2>1, <2>2, <1>b DEF FloorKept
<1>2. ASSUME NEW r \in Readers, GetFails(r) \/ CacheWrite(r) \/ KillRead(r) PROVE FloorKept'
  <2>1. /\ UNCHANGED <<describes, floor>>
        /\ \A q \in Readers : q # r => reads'[q] = reads[q]
        /\ reads'[r].kind = "search" \/ reads'[r].phase \in {"failed", "killed"}
    <3>1. CASE GetFails(r)
      BY <3>1 DEF GetFails
    <3>2. CASE CacheWrite(r)
      BY <3>2 DEF CacheWrite
    <3>3. CASE KillRead(r)
      BY <3>3 DEF KillRead
    <3>4. QED
      BY <1>2, <3>1, <3>2, <3>3
  <2>2. QED
    BY <1>k, <2>1 DEF FloorKept
<1>3. ASSUME NEW r \in Readers, NEW answered \in BOOLEAN, NEW charged \in BOOLEAN,
             PostSearch(r, answered, charged) PROVE FloorKept'
  BY <1>3, <1>k DEF FloorKept, PostSearch
<1>4. ASSUME NEW r \in Readers, Search(r) PROVE FloorKept'
  <2>1. /\ reads'[r].kind = "search" /\ \A q \in Readers : q # r => reads'[q] = reads[q]
        /\ UNCHANGED Describing
    BY <1>4 DEF Search, NoRead
  <2>2. QED
    BY <1>k, <2>1 DEF FloorKept
<1>5. ASSUME NEW r \in Readers, Fetched(r) PROVE FloorKept'
  BY <1>5, <1>k, <1>b DEF FloorKept, Fetched
<1>6. ASSUME NEW r \in Readers, Upsert(r) PROVE FloorKept'
  <2>1. /\ reads[r].kind = "describe" /\ reads[r].phase = "fetched"
        /\ reads'[r].phase = "done" /\ reads'[r].kind = "describe" /\ reads'[r].alias = reads[r].alias
        /\ reads'[r].deploy = reads[r].deploy /\ reads'[r].floor = reads[r].floor
        /\ \A q \in Readers : q # r => reads'[q] = reads[q]
        /\ UNCHANGED floor
    BY <1>6 DEF Upsert
  <2>2. describes'["read"] = IF reads[r].alias = "read" THEN [deploy |-> reads[r].deploy, at |-> hour]
                             ELSE describes["read"]
    BY <1>6, <1>b DEF Upsert
  <2>3. describes'["read"].at > 0 => describes'["read"].deploy >= floor["read"]
    BY <1>k, <2>1, <2>2, <1>b
  <2>4. reads[r].alias = "read" => reads[r].deploy >= reads[r].floor
    <3>1. ASSUME reads[r].alias = "read" PROVE reads[r].deploy >= reads[r].floor
      <4>1. reads[r].deploy >= floor["read"] /\ reads[r].floor =< floor["read"]
        BY <3>1, <1>k, <2>1
      <4>2. reads[r].deploy \in Nat /\ reads[r].floor \in Nat /\ floor["read"] \in Nat
        BY <1>b
      <4>3. QED
        BY <4>1, <4>2
    <3>2. QED
      BY <3>1
  <2>5. QED
    BY <1>k, <2>1, <2>3, <2>4 DEF FloorKept
<1>7. ASSUME NEW o \in Orgs, BustAlias(o) PROVE FloorKept'
  <2>1. /\ \A r \in Readers : ~ (reads[r].phase = "fetched" /\ reads[r].alias = o)
        /\ UNCHANGED reads
        /\ describes' = Bust(describes, o) /\ floor' = [floor EXCEPT ![o] = schema[o]]
    BY <1>7 DEF BustAlias
  <2>2. o = "read" => describes'["read"].at = 0
    BY <2>1, <1>b DEF Bust, NoRow
  <2>3. o # "read" => describes'["read"] = describes["read"] /\ floor'["read"] = floor["read"]
    BY <2>1, <1>b DEF Bust
  <2>4. QED
    BY <1>k, <2>1, <2>2, <2>3 DEF FloorKept
<1>8. ASSUME VacuumStale PROVE FloorKept'
  <2>1. UNCHANGED <<reads, floor>> /\ describes'["read"] \in {describes["read"], NoRow}
    BY <1>8, <1>b DEF VacuumStale
  <2>2. QED
    BY <1>k, <2>1 DEF FloorKept, NoRow
<1>9. ASSUME (\E o \in Orgs : Deploy(o)) \/ Corrupt \/ ClearExpired \/ EndHour PROVE FloorKept'
  <2>1. UNCHANGED <<describes, reads, floor>>
    BY <1>9 DEF Deploy, Corrupt, ClearExpired, EndHour
  <2>2. QED
    BY <1>k, <2>1 DEF FloorKept
<1>10. QED
  BY <1>1, <1>2, <1>3, <1>4, <1>5, <1>6, <1>7, <1>8, <1>9 DEF CacheNext

BillsKept == ChargeKept /\ SearchesApart /\ BillsApart

\* No charge is made beside another: what a search knows of the bills.
LEMMA BillsStay ==
  ASSUME CacheTypes, NothingAhead, CacheNext, ~ shared => BillsKept
  PROVE  ~ shared' => BillsKept'
<1> SUFFICES ASSUME ~ shared' PROVE BillsKept'
  OBVIOUS
<1> USE DEF CacheTypes, NothingAhead, ReadTypes, Apollo, Describing
<1>a. ApolloTtl \in Nat /\ LastHour \in Nat
  BY CacheAssumption
<1>n. ~ shared
  BY DEF CacheNext, Deploy, Get, GetFails, Fetched, Upsert, Search, PostSearch, CacheWrite, KillRead,
     BustAlias, VacuumStale, Corrupt, ClearExpired, EndHour
<1>k. ChargeKept /\ SearchesApart /\ BillsApart
  BY <1>n DEF BillsKept
<1>t. hour \in Nat /\ \A b \in bills : b.at \in Nat /\ b.at =< hour
  OBVIOUS
<1>1. ASSUME NEW r \in Readers, Search(r) PROVE BillsKept'
  <2>1. /\ \A q \in Readers : ~ Searching(q)
        /\ UNCHANGED <<found, bills, hour>>
        /\ reads'[r].kind = "search" /\ reads'[r].phase = IF Hit THEN "done" ELSE "missed"
        /\ \A q \in Readers : q # r => reads'[q] = reads[q]
    BY <1>1 DEF Search, NoRead
  <2>2. \A q \in Readers : ~ Charging(q)
    BY <2>1 DEF Searching, Charging
  <2>3. ~ Hit => \A b \in Answered : hour - b.at > ApolloTtl
    BY <1>k, <1>a, <1>t, <2>2 DEF ChargeKept, Answered, Hit
  <2>4. ChargeKept'
    BY <1>k, <2>1, <2>2 DEF ChargeKept, Answered
  <2>5. SearchesApart'
    BY <2>1, <2>3 DEF SearchesApart, Answered, Searching
  <2>6. QED
    BY <1>k, <2>1, <2>4, <2>5 DEF BillsKept, BillsApart
<1>2. ASSUME NEW r \in Readers, NEW answered \in BOOLEAN, NEW charged \in BOOLEAN,
             PostSearch(r, answered, charged)
      PROVE  BillsKept'
  <2> DEFINE bill == [at |-> hour, by |-> r, answered |-> answered]
  <2>1. /\ Searching(r) /\ reads[r].phase = "missed" /\ UNCHANGED <<found, hour>>
        /\ reads'[r].kind = "search" /\ reads'[r].phase = IF answered THEN "charged" ELSE "failed"
        /\ \A q \in Readers : q # r => reads'[q] = reads[q]
        /\ bills' = bills \/ bills' = bills \union {bill}
    BY <1>2 DEF PostSearch, Searching
  <2>2. \A b \in Answered : hour - b.at > ApolloTtl
    BY <1>k, <2>1 DEF SearchesApart
  <2>3. \A q \in Readers : Searching(q) => q = r
    BY <1>k, <2>1 DEF SearchesApart
  <2>b. /\ bill.at = hour /\ bill.answered = answered
        /\ \A b \in bills' : b \in bills \/ b = bill
    BY <2>1
  <2> HIDE DEF bill
  <2>4. ChargeKept'
    <3> SUFFICES ASSUME NEW b \in Answered'
                 PROVE  (hour - b.at > ApolloTtl)' \/ \E q \in Readers : Charging(q)'
      BY DEF ChargeKept
    <3>1. CASE b \in bills
      BY <2>1, <2>2, <3>1 DEF Answered
    <3>2. CASE b = bill
      BY <2>1, <2>b, <3>2 DEF Answered, Charging
    <3>3. QED
      BY <2>b, <3>1, <3>2 DEF Answered
  <2>5. SearchesApart'
    BY <2>1, <2>3 DEF SearchesApart, Answered, Searching
  <2>6. BillsApart'
    <3> SUFFICES ASSUME NEW a \in bills', NEW b \in bills', a # b, a.answered,
                        a.at =< b.at, b.at - a.at =< ApolloTtl
                 PROVE  a.at = b.at /\ ~ b.answered
      BY DEF BillsApart
    <3>1. CASE a \in bills /\ b \in bills
      BY <1>k, <3>1 DEF BillsApart
    <3>2. CASE a \in bills /\ b = bill
      <4>1. a \in Answered /\ b.at = hour
        BY <2>b, <3>2 DEF Answered
      <4>2. hour - a.at > ApolloTtl /\ hour \in Int /\ a.at \in Int
        BY <1>t, <2>2, <3>2, <4>1
      <4>3. hour - a.at =< ApolloTtl
        BY <4>1
      <4>4. QED
        BY <1>a, <4>2, <4>3
    <3>3. CASE a = bill /\ b \in bills
      <4>a. a.at = hour /\ hour =< b.at
        BY <2>b, <3>3
      <4>b. b.at \in Nat /\ b.at =< hour /\ hour \in Nat
        BY <1>t, <3>3
      <4>c. \A x, y \in Nat : x =< y /\ y =< x => x = y
        OBVIOUS
      <4>1. b.at = hour /\ a.at = hour
        <5> HIDE DEF CacheTypes, NothingAhead
        <5>1. b.at = hour
          BY <4>a, <4>b, <4>c
        <5>2. QED
          BY <4>a, <5>1
      <4>2. b.answered => hour - b.at > ApolloTtl
        BY <2>2, <3>3 DEF Answered
      <4>3. QED
        BY <1>a, <4>1, <4>2
    <3>4. QED
      BY <2>b, <3>1, <3>2, <3>3
  <2>7. QED
    BY <2>4, <2>5, <2>6 DEF BillsKept
<1>3. ASSUME NEW r \in Readers, CacheWrite(r) PROVE BillsKept'
  <2>1. /\ Charging(r) /\ Searching(r) /\ UNCHANGED <<bills, hour>>
        /\ found'.at = hour /\ found'.good
        /\ reads'[r].phase = "done"
        /\ \A q \in Readers : q # r => reads'[q] = reads[q]
    BY <1>3 DEF CacheWrite, Searching, Charging
  <2>2. \A q \in Readers : Searching(q) => q = r
    BY <1>k, <2>1 DEF SearchesApart
  <2>3. \A q \in Readers : ~ Searching(q)'
    BY <2>1, <2>2 DEF Searching
  <2>4. ChargeKept'
    BY <1>t, <2>1 DEF ChargeKept, Answered
  <2>5. SearchesApart'
    BY <2>3 DEF SearchesApart
  <2>6. BillsApart'
    BY <1>k, <2>1 DEF BillsApart
  <2>7. QED
    BY <2>4, <2>5, <2>6 DEF BillsKept
<1>4. ASSUME NEW r \in Readers,
             (\E o \in Orgs : Get(r, o)) \/ GetFails(r) \/ Fetched(r) \/ Upsert(r)
      PROVE  BillsKept'
  <2>1. /\ UNCHANGED <<found, bills, hour>> /\ reads[r].kind # "search" /\ reads'[r].kind # "search"
        /\ \A q \in Readers : q # r => reads'[q] = reads[q]
    BY <1>4 DEF Get, GetFails, Fetched, Upsert, NoRead
  <2>2. \A q \in Readers : (Searching(q)' <=> Searching(q)) /\ (Charging(q)' <=> Charging(q))
    BY <2>1 DEF Searching, Charging
  <2>3. ChargeKept'
    BY <1>k, <2>1, <2>2 DEF ChargeKept, Answered
  <2>4. SearchesApart'
    BY <1>k, <2>1, <2>2 DEF SearchesApart, Answered, Searching
  <2>5. QED
    BY <1>k, <2>1, <2>3, <2>4 DEF BillsKept, BillsApart
<1>5. ASSUME ClearExpired PROVE BillsKept'
  <2>1. UNCHANGED <<reads, bills, hour>> /\ hour - found.at > ApolloTtl
    BY <1>5 DEF ClearExpired
  <2>2. ChargeKept'
    BY <1>k, <1>a, <1>t, <2>1 DEF ChargeKept, Answered, Charging
  <2>3. SearchesApart' /\ BillsApart'
    BY <1>k, <2>1 DEF SearchesApart, Answered, Searching, BillsApart
  <2>4. QED
    BY <2>2, <2>3 DEF BillsKept
<1>6. ASSUME EndHour PROVE BillsKept'
  <2>1. UNCHANGED <<reads, found, bills>> /\ hour' = hour + 1
    BY <1>6 DEF EndHour
  <2>2. ASSUME NEW b \in Answered, hour - b.at > ApolloTtl PROVE hour' - b.at > ApolloTtl
    <3>1. b.at \in Int /\ hour \in Int
      BY <1>t DEF Answered
    <3>2. QED
      BY <1>a, <2>1, <2>2, <3>1
  <2>3. ChargeKept'
    BY <1>k, <2>1, <2>2 DEF ChargeKept, Answered, Charging
  <2>4. SearchesApart' /\ BillsApart'
    BY <1>k, <2>1, <2>2 DEF SearchesApart, Answered, Searching, BillsApart
  <2>5. QED
    BY <2>3, <2>4 DEF BillsKept
<1>7. ASSUME (\E o \in Orgs : Deploy(o) \/ BustAlias(o)) \/ VacuumStale PROVE BillsKept'
  <2>1. UNCHANGED <<reads, found, bills, hour>>
    BY <1>7 DEF Deploy, BustAlias, VacuumStale
  <2>2. QED
    BY <1>k, <2>1 DEF BillsKept, ChargeKept, Answered, Charging, SearchesApart, Searching, BillsApart
<1>8. ~ Corrupt /\ \A r \in Readers : ~ KillRead(r)
  BY DEF Corrupt, KillRead
<1>9. QED
  BY <1>1, <1>2, <1>3, <1>4, <1>5, <1>6, <1>7, <1>8 DEF CacheNext

\* What the caches keep, step by step.
THEOREM CachesInductive == CacheSpec => []CachesIInv
<1>1. CacheInit => CachesIInv
  <2> SUFFICES ASSUME CacheInit PROVE CachesIInv
    OBVIOUS
  <2>1. "read" \in Orgs
    BY DEF Orgs
  <2>2. NoRead \in ReadTypes /\ NoRow \in Rows /\ NoAnswer \in [at : Nat, good : BOOLEAN]
    BY <2>1 DEF NoRead, ReadTypes, NoRow, Rows, NoAnswer
  <2>3. CacheTypes
    <3>1. schema \in [Orgs -> Nat] /\ floor \in [Orgs -> Nat] /\ describes \in [Orgs -> Rows]
      BY <2>2 DEF CacheInit
    <3>2. reads \in [Readers -> ReadTypes]
      BY <2>2 DEF CacheInit
    <3>3. QED
      <4>1. found \in [at : Nat, good : BOOLEAN] /\ bills \subseteq [at : Nat, by : Readers, answered : BOOLEAN]
        BY <2>2 DEF CacheInit
      <4>a. shared \in BOOLEAN /\ raced \in BOOLEAN
        BY Zenon DEF CacheInit
      <4>b. hour = 1
        BY DEF CacheInit
      <4>2. shared \in BOOLEAN /\ raced \in BOOLEAN /\ hour \in Nat \ {0}
        BY <4>a, <4>b
      <4>3. QED
        BY <3>1, <3>2, <4>1, <4>2 DEF CacheTypes
  <2>4. /\ \A r \in Readers : /\ reads[r].kind = "none" /\ reads[r].deploy = 0
                               /\ reads[r].floor = 0 /\ reads[r].alias = "read"
        /\ \A o \in Orgs : describes[o].at = 0 /\ describes[o].deploy = 0
        /\ found.at = 0 /\ bills = {}
    BY DEF CacheInit, NoRead, NoRow, NoAnswer
  <2>5. NothingAhead /\ FloorKept
    BY <2>1, <2>4 DEF CacheInit, NothingAhead, FloorKept
  <2>6. ChargeKept /\ SearchesApart /\ BillsApart
    BY <2>4 DEF ChargeKept, Answered, SearchesApart, BillsApart, Searching
  <2>7. QED
    BY <2>3, <2>5, <2>6 DEF CachesIInv
<1>2. CachesIInv /\ [CacheNext]_cacheVars => CachesIInv'
  <2> SUFFICES ASSUME CachesIInv, [CacheNext]_cacheVars PROVE CachesIInv'
    OBVIOUS
  <2>1. CASE CacheNext
    BY <2>1, CacheTyped, FloorStays, BillsStay DEF CachesIInv, BillsKept
  <2>2. CASE UNCHANGED cacheVars
    BY <2>2 DEF CachesIInv, cacheVars, CacheTypes, NothingAhead, FloorKept, ChargeKept, Charging,
       SearchesApart, Answered, Searching, BillsApart
  <2>3. QED
    BY <2>1, <2>2
<1>3. QED
  BY <1>1, <1>2, PTL DEF CacheSpec

\* What the two caches promise, for any number of readers, deploys and hours:
\* no read misses a deploy whose bust came first, and what Apollo has answered
\* is not billed again while its row lives, whichever calls timed out before.
THEOREM CachesHold == CacheSpec => []CachesInv
<1>1. CachesIInv => CachesInv
  <2> SUFFICES ASSUME CachesIInv PROVE CachesInv
    OBVIOUS
  <2>1. CacheTypeOK
    BY DEF CachesIInv, CacheTypes, ReadTypes, NothingAhead, CacheTypeOK
  <2>2. BustIsFollowed
    BY DEF CachesIInv, FloorKept, BustIsFollowed
  <2>3. BilledOnce
    BY DEF CachesIInv, BillsApart, BilledOnce
  <2>4. QED
    BY <2>1, <2>2, <2>3 DEF CachesInv
<1>2. QED
  BY <1>1, CachesInductive, PTL
=============================================================================
