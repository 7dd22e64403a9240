---------------------------- MODULE ReviewTasks -----------------------------
(***************************************************************************)
(* agents/revops_support/data_quality: the polls that file a task for a    *)
(* person to review, validation_monitor.py for validation rules and        *)
(* bad_conversions.py for leads that were converted into too little.       *)
(*                                                                         *)
(* A poll reads the org, looks its findings up among the tasks, and files  *)
(* those that have none in one transaction.  The rules are those of one    *)
(* object, whose description is fetched once per poll.                     *)
(***************************************************************************)
EXTENDS Integers, Sequences, SequencesExt, FiniteSets

CONSTANTS
    Rules, Leads,       \* ids
    CustomFields,       \* custom fields that formulas name
    ReviewPolls,        \* polls, each run once
    MaxTasks            \* bound on the tasks table

ASSUME ReviewAssumption == MaxTasks \in Nat /\ IsFiniteSet(Rules) /\ IsFiniteSet(Leads)

VARIABLES
    fields,     \* the custom fields that exist
    rules,      \* rule -> the fields its formula names, and whether it is old
    leads,      \* converted lead -> what its conversion left out
    visible,    \* whether the answer holds formulas: _RULE_QUERY leaves them out
    tasks,      \* the tasks table: subject, issue, status; history: due
    polls,      \* poll -> phase, findings, and those it is about to file
    overlapped  \* history: two polls were under way at once

reviewVars == <<fields, rules, leads, visible, tasks, polls, overlapped>>

Parts == {"no_opportunity", "no_account", "no_contact"}
NoReview == [phase |-> "ready", found |-> {}, file |-> {}]
UnderWay(p) == polls[p].phase \in {"found", "filing"}

ReviewInit ==
    /\ fields = CustomFields
    /\ rules \in [Rules -> [names : SUBSET CustomFields, old : {FALSE}]]
    /\ leads = [l \in Leads |-> {}]
    /\ visible \in BOOLEAN
    /\ tasks = <<>> /\ polls = [p \in ReviewPolls |-> NoReview] /\ overlapped = FALSE

-----------------------------------------------------------------------------
(* What the polls find                                                     *)

(* A field that is missing from what the description told.                 *)
Missing(r, known) == rules[r].names \ known # {}

(* A monitor that takes rules without a formula for orphans as well.       *)
Orphans_Blind(known) == {r \in Rules : ~ visible \/ Missing(r, known)}

(* detect_orphans; none when no rule's formula can be read.                *)
Orphans(known) == {r \in Rules : visible /\ Missing(r, known)}

(* A finding, and whether it is so.                                        *)
Finding(subject, issue, due) == [subject |-> subject, issue |-> issue, due |-> due]

(* The orphans and the stale rules; a description that fails leaves no     *)
(* field known, which is why a finding may not be so.                      *)
RuleFindings(described) ==
    LET known == IF described THEN fields ELSE {} IN
    {Finding(r, {"orphaned"}, Missing(r, fields)) : r \in Orphans(known)}
        \union {Finding(r, {"stale"}, TRUE) : r \in {q \in Rules : rules[q].old}}

(* scan: one finding per lead, whose title names all that is missing.      *)
LeadFindings == {Finding(l, leads[l], TRUE) : l \in {k \in Leads : leads[k] # {}}}

StartPoll(p, found) ==
    /\ polls[p] = NoReview
    /\ polls' = [polls EXCEPT ![p] = [phase |-> "found", found |-> found, file |-> {}]]
    /\ overlapped' = (overlapped \/ \E q \in ReviewPolls : UnderWay(q))
    /\ UNCHANGED <<fields, rules, leads, visible, tasks>>

PollRules(p) == \E described \in BOOLEAN : StartPoll(p, RuleFindings(described))
PollLeads(p) == StartPoll(p, LeadFindings)

-----------------------------------------------------------------------------
(* _task_for_review                                                        *)

SameTitle(t, f) == t.subject = f.subject /\ t.issue = f.issue

(* A look-up by subject alone.                                             *)
Asked_Subject(f) ==
    \E i \in DOMAIN tasks : tasks[i].subject = f.subject /\ tasks[i].status = "pending"

(* SELECT ... WHERE title = :title AND status = 'pending'.                 *)
Asked(f) == \E i \in DOMAIN tasks : SameTitle(tasks[i], f) /\ tasks[i].status = "pending"

LookUp(p) ==
    /\ polls[p].phase = "found"
    /\ polls' = [polls EXCEPT ![p].phase = "filing",
                              ![p].file = {f \in polls[p].found : ~ Asked(f)}]
    /\ UNCHANGED <<fields, rules, leads, visible, tasks, overlapped>>

TaskOf(f) == [subject |-> f.subject, issue |-> f.issue, due |-> f.due, status |-> "pending"]

(* The transaction commits, and the audit row is written.                  *)
CommitTasks(p) ==
    /\ polls[p].phase = "filing" /\ Len(tasks) + Cardinality(polls[p].file) =< MaxTasks
    /\ tasks' = tasks \o SetToSeq({TaskOf(f) : f \in polls[p].file})
    /\ polls' = [polls EXCEPT ![p].phase = "done"]
    /\ UNCHANGED <<fields, rules, leads, visible, overlapped>>

KillReview(p) ==
    /\ UnderWay(p) /\ polls' = [polls EXCEPT ![p] = [NoReview EXCEPT !.phase = "killed"]]
    /\ UNCHANGED <<fields, rules, leads, visible, tasks, overlapped>>

-----------------------------------------------------------------------------
(* People                                                                  *)

CloseTask(i) ==
    /\ tasks[i].status = "pending" /\ tasks' = [tasks EXCEPT ![i].status = "done"]
    /\ UNCHANGED <<fields, rules, leads, visible, polls, overlapped>>

DropField(f) ==
    /\ f \in fields /\ fields' = fields \ {f}
    /\ UNCHANGED <<rules, leads, visible, tasks, polls, overlapped>>

AgeRule(r) ==
    /\ ~ rules[r].old /\ rules' = [rules EXCEPT ![r].old = TRUE]
    /\ UNCHANGED <<fields, leads, visible, tasks, polls, overlapped>>

Convert(l, missing) ==
    /\ leads[l] # missing /\ leads' = [leads EXCEPT ![l] = missing]
    /\ UNCHANGED <<fields, rules, visible, tasks, polls, overlapped>>

ReviewNext ==
    \/ \E p \in ReviewPolls :
        PollRules(p) \/ PollLeads(p) \/ LookUp(p) \/ CommitTasks(p) \/ KillReview(p)
    \/ \E i \in DOMAIN tasks : CloseTask(i)
    \/ \E f \in CustomFields : DropField(f)
    \/ \E r \in Rules : AgeRule(r)
    \/ \E l \in Leads : \/ Convert(l, {"no_opportunity"})
                        \/ Convert(l, {"no_opportunity", "no_account"})

ReviewSpec == ReviewInit /\ [][ReviewNext]_reviewVars

-----------------------------------------------------------------------------

ReviewTypeOK ==
    /\ fields \subseteq CustomFields
    /\ rules \in [Rules -> [names : SUBSET CustomFields, old : BOOLEAN]]
    /\ leads \in [Leads -> SUBSET Parts] /\ Len(tasks) =< MaxTasks
    /\ \A p \in ReviewPolls : polls[p].file \subseteq polls[p].found

(* While polls do not overlap, nobody is asked twice at once about the     *)
(* same issue of the same thing, however often the poll runs, is killed,   *)
(* or its tasks are closed (_task_for_review).                             *)
AskedOnceAtATime ==
    ~ overlapped => \A i, j \in DOMAIN tasks :
        (i # j /\ SameTitle(tasks[i], tasks[j])) => "done" \in {tasks[i].status, tasks[j].status}

(* A poll that has ended leaves a pending task for each of its findings,   *)
(* or the one that was there has been closed since; a finding whose task   *)
(* was closed before is asked about again (poll).                          *)
FindingsAreAsked ==
    \A p \in ReviewPolls : polls[p].phase = "done" =>
        \A f \in polls[p].found : \E i \in DOMAIN tasks : SameTitle(tasks[i], f)

(* Without the permission to read formulas, no rule is called an orphan    *)
(* (detect_orphans degrades to nothing).                                   *)
NoOrphanUnread ==
    ~ visible => \A i \in DOMAIN tasks : "orphaned" \notin tasks[i].issue

(* What the polls keep of the tasks they file.                             *)
TasksInv == /\ ReviewTypeOK /\ AskedOnceAtATime /\ FindingsAreAsked /\ NoOrphanUnread

(* A task that calls a rule an orphan was filed for a formula with a field *)
(* that was gone (validation_monitor.py, "formula references a custom      *)
(* field that no longer exists on the object").                            *)
OrphansAreReal == \A i \in DOMAIN tasks : tasks[i].due
=============================================================================
