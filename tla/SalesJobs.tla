----------------------------- MODULE SalesJobs -----------------------------
(***************************************************************************)
(* The jobs of agents/sales_reps: the grader (the launchd poll, the        *)
(* batch-grade and the grade command), the pre-demo briefs (the launchd    *)
(* scan and the brief command), the Momentum sync check and the            *)
(* leaderboard.  They run in processes of their own, at the same time, over *)
(* one database: the table of grades, the audit log, which is also what a  *)
(* scan knows of earlier briefs, and the hourly limits of RateLimits.      *)
(***************************************************************************)
EXTENDS RateLimits

CONSTANTS
  Calls, Opps, Reps,
  RepOf,        \* the rep of a call
  NameOf,       \* the name its transcript gives the rep, if any
  Grader, SyncAlert,   \* the buckets of rate_gates._LIMITS the jobs use
  NoItem,
  BriefWindow,  \* _BRIEF_IDEMPOTENCY_HOURS
  MaxJobs,      \* bounds the jobs that are started
  MaxCrashes    \* bounds the jobs that are killed

ASSUME BucketsUsed == {Grader, SyncAlert} \subseteq Buckets
ASSUME RepAssumption == RepOf \in [Calls -> Reps]
ASSUME ItemAssumption == Calls \cap Opps = {} /\ NoItem \notin Calls \cup Opps
ASSUME BoundAssumption == BriefWindow \in Nat /\ MaxJobs \in Nat /\ MaxCrashes \in Nat

VARIABLES
  job,        \* per process: what it runs
  grades,     \* sales_reps_call_grades: the calls that have a row
  briefs,     \* the audit rows of briefs, numbered as they are written
  board,      \* the calls the last leaderboard counts, per rep; {}: none yet
  stores,     \* how often each process has stored a grade of each call
  started, crashes

salesVars == <<job, grades, briefs, board, stores, started, crashes>>
vars == <<rateVars, salesVars>>

Ticks == {"grader_poll", "brief_scan", "sync_tick"}
Batches == {"grader_poll", "batch_grade"}
Kinds == Ticks \cup {"none", "batch_grade", "grade", "brief", "sync_check"}

Job_(kind, pc, todo, item) == [kind |-> kind, pc |-> pc, todo |-> todo, item |-> item]

NoJob == Job_("none", "idle", {}, NoItem)

Job ==
  [kind : Kinds, pc : {"idle", "rows", "slot", "work"},
   todo : (SUBSET Calls) \cup (SUBSET Opps), item : Calls \cup Opps \cup {NoItem}]

Init ==
  /\ RateInit
  /\ job = [p \in Callers |-> NoJob]
  /\ grades = {}
  /\ briefs = {}
  /\ board = {}
  /\ stores = [p \in Callers |-> [c \in Calls |-> 0]]
  /\ started = 0
  /\ crashes = 0

-----------------------------------------------------------------------------
(* The start and the end of a job.                                         *)

\* launchd starts no tick that still runs.
Start(p, kind, pc, todo, item) ==
  /\ job[p] = NoJob
  /\ started < MaxJobs
  /\ kind \in Ticks => \A q \in Callers : job[q].kind # kind
  /\ job' = [job EXCEPT ![p] = Job_(kind, pc, todo, item)]
  /\ started' = started + 1

GoOn(p, pc, todo, item) == job' = [job EXCEPT ![p] = Job_(@.kind, pc, todo, item)]

Finish(p) == job' = [job EXCEPT ![p] = NoJob]

\* A poll grades what Fireflies has of the day, a batch a range of dates.
StartBatch(p, kind, rows) ==
  /\ Start(p, kind, "rows", rows, NoItem)
  /\ UNCHANGED <<rateVars, grades, briefs, board, stores, crashes>>

\* The command for one call: it looks for no grade and asks for no slot.
StartGrade(p, c) ==
  /\ Start(p, "grade", "work", {}, c)
  /\ UNCHANGED <<rateVars, grades, briefs, board, stores, crashes>>

\* The opportunities of the demos that the calendar has ahead.
StartScan(p, opps) ==
  /\ Start(p, "brief_scan", "rows", opps, NoItem)
  /\ UNCHANGED <<rateVars, grades, briefs, board, stores, crashes>>

StartBrief(p, o) ==
  /\ Start(p, "brief", "work", {}, o)
  /\ UNCHANGED <<rateVars, grades, briefs, board, stores, crashes>>

\* A check that finds calls Salesforce does not have asks for the alert's slot;
\* one that finds none, or cannot reach Momentum, says so and changes nothing.
StartSync(p, kind) ==
  /\ Start(p, kind, "slot", {}, NoItem)
  /\ RateSelect(p, SyncAlert)
  /\ UNCHANGED <<grades, briefs, board, stores, crashes>>

\* The loop over the rows is at its end.
Done(p) ==
  /\ job[p].pc = "rows" /\ job[p].todo = {}
  /\ Finish(p)
  /\ UNCHANGED <<rateVars, grades, briefs, board, stores, started, crashes>>

-----------------------------------------------------------------------------
(* One row of a batch.                                                     *)

SkipGraded(p, c) ==
  /\ job[p].kind \in Batches /\ job[p].pc = "rows" /\ c \in job[p].todo
  /\ c \in grades
  /\ GoOn(p, "rows", job[p].todo \ {c}, NoItem)
  /\ UNCHANGED <<rateVars, grades, briefs, board, stores, started, crashes>>

\* A bug the loop could have: it does not look for a grade.
AskSlot_NoLookup(p, c) ==
  /\ job[p].kind \in Batches /\ job[p].pc = "rows" /\ c \in job[p].todo
  /\ GoOn(p, "slot", job[p].todo, c)
  /\ RateSelect(p, Grader)
  /\ UNCHANGED <<grades, briefs, board, stores, started, crashes>>

AskSlot(p, c) ==
  /\ job[p].kind \in Batches /\ job[p].pc = "rows" /\ c \in job[p].todo
  /\ c \notin grades
  /\ GoOn(p, "slot", job[p].todo, c)
  /\ RateSelect(p, Grader)
  /\ UNCHANGED <<grades, briefs, board, stores, started, crashes>>

SlotWrite(p) == RateWrite(p) /\ UNCHANGED salesVars

\* A granted slot goes on to the call, a refused one stops the run, and what the
\* INSERT raises stops it too, nobody catching it.  A sync check is over with
\* any answer: told, suppressed or raised.
SlotAnswer(p) ==
  /\ job[p].pc = "slot" /\ check[p].pc = "answered"
  /\ IF check[p].answer = "granted" /\ job[p].kind \in Batches
     THEN GoOn(p, "work", job[p].todo, job[p].item)
     ELSE Finish(p)
  /\ RateEnd(p)
  /\ UNCHANGED <<grades, briefs, board, stores, started, crashes>>

\* The next row, or the end of a command.
Next_(p) ==
  IF job[p].kind \in Ticks \cup Batches
  THEN GoOn(p, "rows", job[p].todo \ {job[p].item}, NoItem)
  ELSE Finish(p)

\* grade_one at its end: upsert_grade keeps one row of a call.
StoreGrade(p) ==
  /\ job[p].pc = "work" /\ job[p].item \in Calls
  /\ grades' = grades \cup {job[p].item}
  /\ stores' = [stores EXCEPT ![p][job[p].item] =
                  IF job[p].kind \in Batches THEN @ + 1 ELSE @]
  /\ Next_(p)
  /\ UNCHANGED <<rateVars, briefs, board, started, crashes>>

\* A call that is not for grading leaves no row, nor does one that failed.
LeaveUngraded(p) ==
  /\ job[p].pc = "work" /\ job[p].item \in Calls
  /\ Next_(p)
  /\ UNCHANGED <<rateVars, grades, briefs, board, stores, started, crashes>>

-----------------------------------------------------------------------------
(* One candidate of a scan.                                                *)

\* A bug the lookup could have: it goes by the clock of the brief's hour only.
BriefRecently_SameHour(o) == \E b \in briefs : b.opp = o /\ b.at = clock

\* _brief_recently_generated, by the audit log.
BriefRecently(o) == \E b \in briefs : b.opp = o /\ b.at + BriefWindow >= clock

Candidate(p, o) ==
  /\ job[p].kind = "brief_scan" /\ job[p].pc = "rows" /\ o \in job[p].todo
  /\ IF BriefRecently(o)
     THEN GoOn(p, "rows", job[p].todo \ {o}, NoItem)
     ELSE GoOn(p, "work", job[p].todo, o)
  /\ UNCHANGED <<rateVars, grades, briefs, board, stores, started, crashes>>

\* generate writes its row at the end, for the scan and for the command alike.
WriteBrief(p) ==
  /\ job[p].pc = "work" /\ job[p].item \in Opps
  /\ briefs' = briefs \cup {[no |-> Cardinality(briefs), opp |-> job[p].item,
                              at |-> clock, by |-> job[p].kind]}
  /\ Next_(p)
  /\ UNCHANGED <<rateVars, grades, board, stores, started, crashes>>

\* It finds no opportunity, or fails.
NoBrief(p) ==
  /\ job[p].pc = "work" /\ job[p].item \in Opps
  /\ Next_(p)
  /\ UNCHANGED <<rateVars, grades, briefs, board, stores, started, crashes>>

-----------------------------------------------------------------------------
(* The leaderboard.                                                        *)

GradedOf(rep) == {c \in grades : RepOf[c] = rep}

\* GROUP BY rep_email, rep_name: one row for each name the rep goes by.
Groups(rep) == {{d \in GradedOf(rep) : NameOf[d] = NameOf[c]} : c \in GradedOf(rep)}

\* The rows become a dictionary by rep_email alone: the last row of a rep is what
\* is left of it, and the query orders nothing.  One leaderboard is enough here.
Leaderboard ==
  /\ board = {}
  /\ \E kept \in [{RepOf[c] : c \in grades} -> SUBSET grades] :
       /\ \A rep \in DOMAIN kept : kept[rep] \in Groups(rep)
       /\ board' = {[rep |-> rep, counted |-> kept[rep], graded |-> GradedOf(rep)] :
                      rep \in DOMAIN kept}
  /\ UNCHANGED <<rateVars, job, grades, briefs, stores, started, crashes>>

-----------------------------------------------------------------------------
\* The process is killed, or the machine sleeps through it.
Crash(p) ==
  /\ crashes < MaxCrashes
  /\ job[p] # NoJob
  /\ crashes' = crashes + 1
  /\ Finish(p)
  /\ RateEnd(p)
  /\ UNCHANGED <<grades, briefs, board, stores, started>>

Tick == RateTick /\ UNCHANGED salesVars

Next ==
  \/ \E p \in Callers :
       \/ \E rows \in (SUBSET Calls) \ {{}} : StartBatch(p, "grader_poll", rows)
       \/ \E rows \in (SUBSET Calls) \ {{}} : StartBatch(p, "batch_grade", rows)
       \/ \E c \in Calls : StartGrade(p, c) \/ SkipGraded(p, c) \/ AskSlot(p, c)
       \/ \E opps \in (SUBSET Opps) \ {{}} : StartScan(p, opps)
       \/ \E o \in Opps : StartBrief(p, o) \/ Candidate(p, o)
       \/ StartSync(p, "sync_tick") \/ StartSync(p, "sync_check") \/ SlotWrite(p) \/ SlotAnswer(p)
       \/ StoreGrade(p) \/ LeaveUngraded(p) \/ WriteBrief(p) \/ NoBrief(p)
       \/ Done(p) \/ Crash(p)
  \/ Leaderboard
  \/ Tick

Spec == Init /\ [][Next]_vars

-----------------------------------------------------------------------------
(* Properties *)

\* Every table and every job holds only values of its type; only a job that waits
\* for a slot is in a check, and only the jobs that brief work at opportunities.
TypeOK ==
  /\ RateTypeOK
  /\ job \in [Callers -> Job]
  /\ \A p \in Callers : job[p].pc = "slot" <=> check[p].pc # "idle"
  /\ \A p \in Callers : job[p].item \in Opps => job[p].kind \in {"brief_scan", "brief"}
  /\ grades \subseteq Calls
  /\ briefs \subseteq
       [no : Nat, opp : Opps, at : Windows, by : {"brief_scan", "brief"}]
  /\ board \subseteq [rep : Reps, counted : SUBSET Calls, graded : SUBSET Calls]
  /\ stores \in [Callers -> [Calls -> Nat]]
  /\ started \in 0 .. MaxJobs /\ crashes \in 0 .. MaxCrashes

\* Replaying a range is idempotent: however polls, batches and commands overlap
\* and whichever of them are killed, no process stores the grade of one call
\* from a batch twice.
GradedOncePerRunner == \A p \in Callers, c \in Calls : stores[p][c] <= 1

\* An opportunity whose demo is moved is not briefed again: two briefs that
\* scans write for one opportunity are further apart than the window, though
\* the scan looks before the brief is composed and the row is written after it.
ScanBriefsApart ==
  \A b1, b2 \in briefs :
    /\ b1.opp = b2.opp /\ b1.no < b2.no
    /\ b1.by = "brief_scan" /\ b2.by = "brief_scan"
    => b2.at > b1.at + BriefWindow

\* A rep's line of the leaderboard is over all the calls of the rep that were
\* graded (leaderboards.py: "Aggregate call grades per rep").
BoardCountsEveryCall == \A row \in board : row.counted = row.graded
=============================================================================
