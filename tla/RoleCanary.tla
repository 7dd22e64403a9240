----------------------------- MODULE RoleCanary -----------------------------
(***************************************************************************)
(* agents/revops_support/schema/first_task_ceo_tier.py and                 *)
(* canary_poller.py: the one bundle that puts the CEO role into the org,   *)
(* its timetable of membership checks, and its roll-back.                  *)
(*                                                                         *)
(* Everything is kept in change.yaml, which each command reads as a whole  *)
(* and later writes as a whole, with calls to the org, to Slack and to the *)
(* database in between; people's commands and polls overlap.  Membership   *)
(* is a number that an edit of the org raises; the tolerance is below any  *)
(* edit.  A gate's decisions are ApprovalGates'.                           *)
(***************************************************************************)
EXTENDS Integers

CONSTANTS
    Commands,       \* processes that run commands
    Polls,          \* processes that poll
    Intervals,      \* FOLLOWUP_INTERVALS_MIN, on the clock's scale
    Deploys,        \* bound: successful deploys, within RATE_BUCKET
    MaxMembership, MaxMinute   \* bounds

ASSUME CanaryAssumption == /\ Intervals \subseteq Nat \ {0} /\ Deploys \in Nat
                           /\ MaxMembership \in Nat /\ MaxMinute \in Nat

VARIABLES
    manifest,   \* change.yaml
    gate,       \* approval_gates: of the create, "pending" or "approved"
    undoGate,   \* the gate of the roll-back: "none", "pending", "both"
    role,       \* the org: whether the CEO role is there
    members,    \* the org: membership of the roles
    hand,       \* what each process is doing
    minute,
    deployNo,   \* history: deploys the org has taken
    baseline,   \* history: membership handed to the latest of them
    undone,     \* history: deployNo at the last call for a roll-back
    alerted,    \* history: interval -> alerts, two for more
    unsent,    \* history: intervals whose alert failed or died
    blurred     \* history: a stale copy was written, two polls or two commands
                \*   that call the org overlapped, or the org's answer was lost

canaryVars == <<manifest, gate, undoGate, role, members, hand, minute, deployNo, baseline, undone,
                alerted, unsent, blurred>>

Hands == Commands \union Polls
Unset == -1                                 \* no pre_snapshot, no timetable
Checks == {"none", "passed", "drift"}
Manifest == [status : {"proposed", "sandbox_passed", "sandbox_failed", "deployed",
                       "deploy_failed"},
             sandbox : {"none", "passed", "failed"},
             pre : 0 .. MaxMembership \union {Unset},
             from : 0 .. MaxMinute \union {Unset},           \* scheduled_verifications
             checked : [Intervals -> Checks],                \* verifications
             undo : {"none", "pending", "deployed", "failed"}]
NewManifest == [status |-> "proposed", sandbox |-> "none", pre |-> Unset, from |-> Unset,
                checked |-> [i \in Intervals |-> "none"], undo |-> "none"]
AtRest == [op |-> "none", step |-> "idle", copy |-> NewManifest, ok |-> FALSE, pre |-> 0,
           todo |-> {}, at |-> 0]

(* propose_ceo_role has run.                                               *)
CanaryInit ==
    /\ manifest = NewManifest
    /\ gate = "pending" /\ undoGate = "none"
    /\ role = FALSE /\ members = 0
    /\ hand = [p \in Hands |-> AtRest]
    /\ minute = 0 /\ deployNo = 0 /\ baseline = Unset /\ undone = Unset
    /\ alerted = [i \in Intervals |-> 0]
    /\ unsent = {} /\ blurred = FALSE

World == <<gate, undoGate, role, members, minute, deployNo, baseline, undone>>
Heard == <<alerted, unsent>>

Doing(p, op, step) == hand[p].op = op /\ hand[p].step = step
(* A command that calls the org, under way.                                *)
Calling == \E q \in Hands : hand[q].op \in {"deploy", "execute"}
Rests(p) == hand' = [hand EXCEPT ![p] = AtRest]
Moves(p, record) == hand' = [hand EXCEPT ![p] = record]

-----------------------------------------------------------------------------

(* A command's read of the file.                                           *)
Opens(p, op, step) ==
    /\ hand[p].step = "idle"
    /\ Moves(p, [AtRest EXCEPT !.op = op, !.step = step, !.copy = manifest])
    /\ UNCHANGED <<manifest, World, Heard>>

(* The write of a copy, as the command has changed it.                     *)
Saves(p, copy) ==
    /\ manifest' = copy
    /\ blurred' = (blurred \/ manifest # hand[p].copy)
    /\ Rests(p)

(* sandbox_test, from the org's answer on: read and write are one step     *)
(* where no call lies between them.                                        *)
SandboxTest(p) ==
    /\ hand[p].step = "idle"
    /\ \E ok \in BOOLEAN :
        manifest' = [manifest EXCEPT
                       !.sandbox = IF ok THEN "passed" ELSE "failed",
                       !.status = IF ok THEN "sandbox_passed" ELSE "sandbox_failed"]
    /\ UNCHANGED <<hand, World, Heard, blurred>>

(* deploy: its checks, the caller's snapshot into the file, the org,       *)
(* and the same copy once more.                                            *)
DeployRole(p) ==
    /\ manifest.sandbox = "passed" /\ gate = "approved" /\ deployNo < Deploys
    /\ hand[p].step = "idle"
    /\ \E pre \in {members, 0} :
        LET copy == [manifest EXCEPT !.pre = pre] IN
        /\ manifest' = copy
        /\ Moves(p, [AtRest EXCEPT !.op = "deploy", !.step = "call", !.copy = copy, !.pre = pre])
    /\ blurred' = (blurred \/ Calling)
    /\ UNCHANGED <<World, Heard>>

(* The org takes the package or refuses it; an exception hides which.      *)
CallDeploy(p, taken, answered) ==
    /\ Doing(p, "deploy", "call") /\ deployNo < Deploys
    /\ role' = (role \/ taken)
    /\ deployNo' = IF taken THEN deployNo + 1 ELSE deployNo
    /\ baseline' = IF taken THEN hand[p].pre ELSE baseline
    /\ IF answered THEN Moves(p, [hand[p] EXCEPT !.step = "save", !.ok = taken]) ELSE Rests(p)
    /\ blurred' = (blurred \/ ~ answered)
    /\ UNCHANGED <<manifest, gate, undoGate, members, minute, undone, Heard>>

SaveDeployed(p) ==
    /\ Doing(p, "deploy", "save")
    /\ Saves(p, [hand[p].copy EXCEPT !.status = IF hand[p].ok THEN "deployed"
                                                ELSE "deploy_failed"])
    /\ UNCHANGED <<World, Heard>>

(* schedule_verifications.                                                 *)
Schedule(p) ==
    /\ hand[p].step = "idle"
    /\ manifest' = [manifest EXCEPT !.from = minute]
    /\ UNCHANGED <<hand, World, Heard, blurred>>

(* prepare_rollback, whose gate is another after every call.               *)
PrepareRollback(p) == Opens(p, "prepare", "save") /\ UNCHANGED blurred

SavePrepared(p) ==
    /\ Doing(p, "prepare", "save")
    /\ Saves(p, [hand[p].copy EXCEPT !.undo = "pending"])
    /\ undoGate' = "pending"
    /\ UNCHANGED <<gate, role, members, minute, deployNo, baseline, undone, Heard>>

(* execute_rollback: nothing to do once it is done; both approvals.        *)
ExecuteRollback(p) ==
    /\ manifest.undo \in {"pending", "failed"} /\ undoGate = "both"
    /\ Opens(p, "execute", "call")
    /\ blurred' = (blurred \/ Calling)

CallRollback(p, taken) ==
    /\ Doing(p, "execute", "call")
    /\ role' = (role /\ ~ taken)
    /\ undone' = deployNo
    /\ \E told \in {taken, FALSE} :
        /\ Moves(p, [hand[p] EXCEPT !.step = "save", !.ok = told])
        /\ blurred' = (blurred \/ told # taken)
    /\ UNCHANGED <<manifest, gate, undoGate, members, minute, deployNo, baseline, Heard>>

(* A roll-back that ends without reading whether it was taken.             *)
SaveRollback_Blind(p) ==
    /\ Doing(p, "execute", "save")
    /\ Saves(p, [hand[p].copy EXCEPT !.undo = "deployed"])
    /\ UNCHANGED <<World, Heard>>

SaveRollback(p) ==
    /\ Doing(p, "execute", "save")
    /\ Saves(p, [hand[p].copy EXCEPT !.undo = IF hand[p].ok THEN "deployed" ELSE "failed"])
    /\ UNCHANGED <<World, Heard>>

-----------------------------------------------------------------------------
(* poll and verify                                                         *)

(* _already_verified and the timetable.                                    *)
DueNow == {i \in Intervals : manifest.from + i =< minute /\ manifest.checked[i] = "none"}

(* _load_canary_manifests and the loop's guards, all on that one read.     *)
StartCanaryPoll(p) ==
    /\ manifest.status = "deployed" /\ manifest.pre # Unset /\ manifest.from # Unset
    /\ hand[p].step = "idle" /\ DueNow # {}
    /\ Moves(p, [AtRest EXCEPT !.op = "poll", !.step = "next", !.todo = DueNow,
                               !.pre = manifest.pre])
    /\ blurred' = (blurred \/ \E q \in Hands : hand[q].op = "poll")
    /\ UNCHANGED <<manifest, World, Heard>>

(* verify: the snapshot, against the one the poll read, and the entry.    *)
Verify(p, i) ==
    LET passed == members = hand[p].pre IN
    /\ Doing(p, "poll", "next") /\ i \in hand[p].todo
    /\ manifest' = [manifest EXCEPT !.checked[i] = IF passed THEN "passed" ELSE "drift"]
    /\ Moves(p, [hand[p] EXCEPT !.step = IF passed THEN "next" ELSE "alert", !.at = i,
                                !.todo = @ \ {i}])
    /\ UNCHANGED <<World, Heard, blurred>>

(* _drift_alert, whose failure is logged.                                  *)
DriftAlert(p, sent) ==
    /\ Doing(p, "poll", "alert")
    /\ alerted' = IF sent THEN [alerted EXCEPT ![hand[p].at] = IF @ = 0 THEN 1 ELSE 2] ELSE alerted
    /\ unsent' = IF sent THEN unsent ELSE unsent \union {hand[p].at}
    /\ Moves(p, [hand[p] EXCEPT !.step = "next"])
    /\ UNCHANGED <<manifest, World, blurred>>

EndPoll(p) ==
    /\ Doing(p, "poll", "next") /\ hand[p].todo = {}
    /\ Rests(p)
    /\ UNCHANGED <<manifest, World, Heard, blurred>>

KillHand(p) ==
    /\ hand[p].step # "idle"
    /\ unsent' = IF hand[p].step = "alert" THEN unsent \union {hand[p].at} ELSE unsent
    /\ blurred' = (blurred \/ hand[p].op \in {"deploy", "execute"})
    /\ Rests(p)
    /\ UNCHANGED <<manifest, World, alerted>>

(* People and time.                                                        *)
Approve ==
    /\ \/ gate = "pending" /\ gate' = "approved" /\ UNCHANGED undoGate
       \/ undoGate = "pending" /\ undoGate' = "both" /\ UNCHANGED gate
    /\ UNCHANGED <<manifest, role, members, hand, minute, deployNo, baseline, undone, Heard,
                   blurred>>

Reassign ==
    /\ members < MaxMembership /\ members' = members + 1
    /\ UNCHANGED <<manifest, gate, undoGate, role, hand, minute, deployNo, baseline, undone, Heard,
                   blurred>>

MinutePasses ==
    /\ minute < MaxMinute /\ minute' = minute + 1
    /\ UNCHANGED <<manifest, gate, undoGate, role, members, hand, deployNo, baseline, undone, Heard,
                   blurred>>

CanaryNext ==
    \/ \E p \in Commands :
        \/ SandboxTest(p) \/ DeployRole(p) \/ SaveDeployed(p) \/ Schedule(p)
        \/ \E taken \in BOOLEAN : CallRollback(p, taken)
        \/ \E taken, answered \in BOOLEAN : CallDeploy(p, taken, answered)
        \/ PrepareRollback(p) \/ SavePrepared(p) \/ ExecuteRollback(p) \/ SaveRollback(p)
    \/ \E p \in Polls :
        \/ StartCanaryPoll(p) \/ EndPoll(p)
        \/ \E i \in Intervals : Verify(p, i)
        \/ \E sent \in BOOLEAN : DriftAlert(p, sent)
    \/ \E p \in Hands : KillHand(p)
    \/ Approve \/ Reassign \/ MinutePasses

CanarySpec == CanaryInit /\ [][CanaryNext]_canaryVars

-----------------------------------------------------------------------------

CanaryTypeOK ==
    /\ manifest \in Manifest
    /\ gate \in {"pending", "approved"} /\ undoGate \in {"none", "pending", "both"}
    /\ role \in BOOLEAN /\ members \in 0 .. MaxMembership /\ minute \in 0 .. MaxMinute
    /\ \A p \in Hands : hand[p].copy \in Manifest /\ hand[p].todo \subseteq Intervals
    /\ deployNo \in 0 .. Deploys /\ unsent \subseteq Intervals

(* O is told of drift once for each check of the timetable, and of every   *)
(* drift that stands in the file, over polls that die, alerts that fail    *)
(* and commands in between; a stale copy written over the file, two polls  *)
(* or two commands that call the org at once, and an answer that was lost, *)
(* may repeat or hide one (poll, _already_verified).                       *)
DriftIsHeardOnce ==
    ~ blurred => \A i \in Intervals :
        /\ alerted[i] =< 1
        /\ manifest.checked[i] = "drift" =>
            \/ alerted[i] = 1 \/ i \in unsent
            \/ \E p \in Hands : hand[p].step = "alert" /\ hand[p].at = i

(* A deployed canary is checked against the membership that was handed to  *)
(* the deploy the org took last, when none of that happened (deploy, poll). *)
CheckedAgainstItsOwn ==
    (~ blurred /\ manifest.status = "deployed" /\ \A p \in Hands : hand[p].op # "deploy")
        => manifest.pre = baseline

(* A file that says the roll-back is deployed speaks of an org without the *)
(* role, until it is deployed anew (execute_rollback, "Idempotent:         *)
(* re-running after success no-ops").                                      *)
RolledBackIsGone ==
    (~ blurred /\ manifest.undo = "deployed" /\ deployNo = undone) => ~ role

(* What the canary keeps: its checks and its way back.                     *)
CanaryInv ==
    CanaryTypeOK /\ DriftIsHeardOnce /\ CheckedAgainstItsOwn /\ RolledBackIsGone
=============================================================================
