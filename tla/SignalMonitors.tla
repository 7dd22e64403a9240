--------------------------- MODULE SignalMonitors ---------------------------
(***************************************************************************)
(* The sweeps that turn a condition of the org into a task and an alert,   *)
(* and mark what they have said so that the next sweep is silent: the CS   *)
(* renewal stall, churn risk and expansion sweeps, O's board monitor, and  *)
(* the revops monitors that go through surface_task.                       *)
(*                                                                         *)
(* They differ in the order of mark, task and alert and in what the mark   *)
(* is; a monitor is written as that order.  Every step is a database       *)
(* transaction or a message of its own: other sweeps, people, midnight and *)
(* a crash come in between.  The dedup SELECT of a task and its INSERT are *)
(* two steps too, for SQLite takes no lock before the INSERT.              *)
(***************************************************************************)
EXTENDS Naturals, Sequences, FiniteSets

CONSTANTS
    Subjects,       \* opportunities, accounts, messages, flows, ...
    Sweeps,         \* processes that run a sweep
    LastDate,       \* bound of the clock
    MostTasks       \* bound on the tasks of a subject

ASSUME MonitorAssumption == LastDate \in Nat /\ MostTasks \in Nat /\ Subjects # {}

VARIABLES
    monitor,    \* which monitor this is
    signal,     \* the org: subject -> what a sweep would see
    tasked,     \* tasks: subject -> the tasks with its source, oldest first
    scored,     \* cs_churn_risk: <<subject, date, level>>
    sweep,      \* what each process is doing
    said,       \* history: <<subject, date of the sweep>> -> alerts
    overtaken,  \* history: subjects two sweeps worked on at once
    cutOff,     \* history: subjects whose sweep broke off behind its mark
    date

monitorVars == <<monitor, signal, tasked, scored, sweep, said, overtaken, cutOff, date>>

(* What a sweep sees: "quiet" is scored or filed without an alert.         *)
Levels == {"none", "quiet", "loud"}
Dates == 0 .. LastDate

(* A monitor: what it does for a subject, in order; whether the date is    *)
(* part of the task's source; whether a completed task still counts;       *)
(* whether a failing alert is swallowed.                                   *)
RenewalStall == [steps |-> <<"look", "check", "insert", "alert">>,
                 daily |-> TRUE, openOnly |-> FALSE, swallows |-> FALSE]
ChurnRisk    == [steps |-> <<"look", "row", "alert", "check", "insert">>,
                 daily |-> TRUE, openOnly |-> FALSE, swallows |-> FALSE]
Expansion    == [steps |-> <<"check", "insert">>,
                 daily |-> TRUE, openOnly |-> FALSE, swallows |-> FALSE]
Board        == [steps |-> <<"look", "insert", "alert">>,
                 daily |-> FALSE, openOnly |-> FALSE, swallows |-> TRUE]
Surface      == [steps |-> <<"check", "insert">>,
                 daily |-> FALSE, openOnly |-> TRUE, swallows |-> FALSE]

Monitors == {RenewalStall, ChurnRisk, Expansion, Board, Surface}

OffDuty == [at |-> 0, subject |-> CHOOSE i \in Subjects : TRUE, level |-> "none",
            marked |-> FALSE, todo |-> {}, seen |-> [i \in Subjects |-> "none"], now |-> 0]

MonitorInit ==
    /\ monitor \in Monitors
    /\ signal = [i \in Subjects |-> "none"]
    /\ tasked = [i \in Subjects |-> <<>>]
    /\ scored = {}
    /\ sweep = [p \in Sweeps |-> OffDuty]
    /\ said = [k \in Subjects \X Dates |-> 0]
    /\ overtaken = {} /\ cutOff = {}
    /\ date = 0

-----------------------------------------------------------------------------

(* A dedup query that counts open tasks only.                              *)
HasTask_Open(i, now) == \E n \in DOMAIN tasked[i] :
                          /\ monitor.daily => tasked[i][n].day = now
                          /\ tasked[i][n].open

(* The dedup query of a task.                                              *)
HasTask(i, now) == \E n \in DOMAIN tasked[i] :
                      /\ monitor.daily => tasked[i][n].day = now
                      /\ monitor.openOnly => tasked[i][n].open

(* _already_scored_today.                                                  *)
ScoredToday(i, now) == \E d \in now .. LastDate, l \in Levels : <<i, d, l>> \in scored

Does(step, level) ==
    CASE step = "look" -> monitor # RenewalStall \/ level = "loud"
      [] step = "row" -> TRUE
      [] step = "alert" -> level = "loud"
      [] step \in {"check", "insert"} ->
            level = "loud" \/ (monitor = Board /\ level = "quiet")

NextStep(at, level) ==
    LET later == {n \in at .. Len(monitor.steps) : Does(monitor.steps[n], level)}
    IN  IF later = {} THEN 0 ELSE CHOOSE n \in later : \A o \in later : n =< o

At(p, step) == sweep[p].at # 0 /\ monitor.steps[sweep[p].at] = step
WorksOn(p, i) == sweep[p].at # 0 /\ sweep[p].subject = i

(* The sweep goes on with its subject, as one of this level.               *)
GoOn(p, level, marks) ==
    sweep' = [sweep EXCEPT ![p].at = NextStep(sweep[p].at + 1, level),
                           ![p].level = level, ![p].marked = @ \/ marks]

GiveUp(p) == sweep' = [sweep EXCEPT ![p].at = 0]

(* The query that lists the subjects; now is taken before it.              *)
StartSweep(p) ==
    /\ sweep[p].at = 0 /\ sweep[p].todo = {}
    /\ sweep' = [sweep EXCEPT ![p] = [OffDuty EXCEPT !.todo = Subjects, !.seen = signal,
                                                     !.now = date]]
    /\ UNCHANGED <<monitor, signal, tasked, scored, said, overtaken, cutOff, date>>

Begin(p, i) ==
    /\ sweep[p].at = 0 /\ i \in sweep[p].todo
    /\ sweep' = [sweep EXCEPT ![p].todo = @ \ {i}, ![p].subject = i, ![p].marked = FALSE,
                              ![p].level = sweep[p].seen[i],
                              ![p].at = NextStep(1, sweep[p].seen[i])]
    /\ overtaken' = IF \E q \in Sweeps \ {p} : WorksOn(q, i)
                    THEN overtaken \union {i} ELSE overtaken
    /\ UNCHANGED <<monitor, signal, tasked, scored, said, cutOff, date>>

(* The look before anything is done, and the look of the task's insert.    *)
Look(p) ==
    LET i == sweep[p].subject
        found == IF monitor = ChurnRisk /\ At(p, "look")
                 THEN ScoredToday(i, sweep[p].now) ELSE HasTask(i, sweep[p].now)
        skips == At(p, "look") \/ ~ \E n \in sweep[p].at .. Len(monitor.steps) :
                                        monitor.steps[n] = "alert"
    IN
    /\ At(p, "look") \/ At(p, "check")
    /\ CASE ~ found -> GoOn(p, sweep[p].level, FALSE)
         [] found /\ skips -> GiveUp(p)
         [] found /\ ~ skips -> sweep' = [sweep EXCEPT ![p].at = sweep[p].at + 2]
    /\ UNCHANGED <<monitor, signal, tasked, scored, said, overtaken, cutOff, date>>

(* A score whose alert goes by what the list of accounts said.             *)
Score_Stale(p) ==
    LET i == sweep[p].subject IN
    /\ At(p, "row")
    /\ scored' = scored \union {<<i, sweep[p].now, signal[i]>>}
    /\ GoOn(p, sweep[p].level, TRUE)
    /\ UNCHANGED <<monitor, signal, tasked, said, overtaken, cutOff, date>>

(* score_account on what the org shows now, and _persist.                  *)
Score(p) ==
    LET i == sweep[p].subject IN
    /\ At(p, "row")
    /\ scored' = scored \union {<<i, sweep[p].now, signal[i]>>}
    /\ GoOn(p, signal[i], TRUE)
    /\ UNCHANGED <<monitor, signal, tasked, said, overtaken, cutOff, date>>

InsertTask(p) ==
    LET i == sweep[p].subject IN
    /\ At(p, "insert") /\ Len(tasked[i]) < MostTasks
    /\ tasked' = [tasked EXCEPT ![i] = Append(@, [day |-> sweep[p].now, open |-> TRUE,
                                                  level |-> sweep[p].level])]
    /\ GoOn(p, sweep[p].level, TRUE)
    /\ UNCHANGED <<monitor, signal, scored, said, overtaken, cutOff, date>>

SendAlert(p) ==
    LET k == <<sweep[p].subject, sweep[p].now>> IN
    /\ At(p, "alert")
    /\ said' = [said EXCEPT ![k] = @ + 1]
    /\ GoOn(p, sweep[p].level, FALSE)
    /\ UNCHANGED <<monitor, signal, tasked, scored, overtaken, cutOff, date>>

(* Slack is down: the sweep ends with the exception, or goes on.           *)
AlertFails(p) ==
    /\ At(p, "alert")
    /\ IF monitor.swallows THEN GoOn(p, sweep[p].level, FALSE)
       ELSE sweep' = [sweep EXCEPT ![p] = OffDuty]
    /\ cutOff' = cutOff \union {sweep[p].subject}
    /\ UNCHANGED <<monitor, signal, tasked, scored, said, overtaken, date>>

KillSweep(p) ==
    /\ sweep[p] # OffDuty
    /\ sweep' = [sweep EXCEPT ![p] = OffDuty]
    /\ cutOff' = IF sweep[p].at # 0 /\ sweep[p].marked
                 THEN cutOff \union {sweep[p].subject} ELSE cutOff
    /\ UNCHANGED <<monitor, signal, tasked, scored, said, overtaken, date>>

(* People and the org.                                                     *)
CompleteTask(i, n) ==
    /\ tasked[i][n].open
    /\ tasked' = [tasked EXCEPT ![i][n].open = FALSE]
    /\ UNCHANGED <<monitor, signal, scored, sweep, said, overtaken, cutOff, date>>

OrgChanges(i, level) ==
    /\ level # signal[i]
    /\ signal' = [signal EXCEPT ![i] = level]
    /\ UNCHANGED <<monitor, tasked, scored, sweep, said, overtaken, cutOff, date>>

Midnight ==
    /\ date < LastDate
    /\ date' = date + 1
    /\ UNCHANGED <<monitor, signal, tasked, scored, sweep, said, overtaken, cutOff>>

MonitorNext ==
    \/ \E p \in Sweeps :
        \/ StartSweep(p) \/ Look(p) \/ Score(p) \/ InsertTask(p)
        \/ SendAlert(p) \/ AlertFails(p) \/ KillSweep(p)
        \/ \E i \in Subjects : Begin(p, i)
    \/ \E i \in Subjects :
        \/ \E n \in DOMAIN tasked[i] : CompleteTask(i, n)
        \/ \E level \in Levels : OrgChanges(i, level)
    \/ Midnight

MonitorSpec == MonitorInit /\ [][MonitorNext]_monitorVars

-----------------------------------------------------------------------------

MonitorTypeOK ==
    /\ monitor \in Monitors /\ date \in Dates
    /\ signal \in [Subjects -> Levels]
    /\ \A i \in Subjects : Len(tasked[i]) =< MostTasks
    /\ scored \subseteq Subjects \X Dates \X Levels
    /\ \A p \in Sweeps : /\ sweep[p].at \in 0 .. Len(monitor.steps)
                         /\ sweep[p].subject \in Subjects /\ sweep[p].todo \subseteq Subjects

(* A sweep says a thing once: one alert a day about a renewal, an account  *)
(* or a message (for a message: ever), one task per dated source, one open *)
(* task per problem, however often sweeps run, die, and cross midnight and *)
(* people complete tasks.  Only two sweeps at work on one subject at the   *)
(* same time say it twice (run_sweep, scan_slack, surface_task).           *)
EachSignalOnce ==
    \A i \in Subjects \ overtaken :
        /\ \A d \in Dates : said[<<i, d>>] =< 1
        /\ monitor = Board => \A d, e \in Dates : said[<<i, d>>] + said[<<i, e>>] =< 1 \/ d = e
        /\ \A m, n \in DOMAIN tasked[i] :
            m # n => \/ monitor.daily /\ tasked[i][m].day # tasked[i][n].day
                     \/ monitor.openOnly /\ ~ (tasked[i][m].open /\ tasked[i][n].open)

(* What is marked as said was said: behind the mark that keeps the next    *)
(* sweep silent stands an alert, or a sweep is on its way to it, or the    *)
(* sweep died or Slack failed in between.                                  *)
NothingMarkedUnsaid ==
    \A i \in Subjects \ (cutOff \union overtaken) :
        (\A p \in Sweeps : ~ WorksOn(p, i)) =>
            /\ \A d \in Dates : <<i, d, "loud">> \in scored =>
                    said[<<i, d>>] = 1 /\ \E n \in DOMAIN tasked[i] : tasked[i][n].day = d
            /\ monitor \in {RenewalStall, Board} =>
                \A n \in DOMAIN tasked[i] :
                    tasked[i][n].level = "loud" => said[<<i, tasked[i][n].day>>] = 1

(* What the sweeps keep: no signal is said twice, and none is marked as    *)
(* said that was not (run_sweep, poll, scan_slack, surface_task).          *)
SignalInv == MonitorTypeOK /\ EachSignalOnce /\ NothingMarkedUnsaid
=============================================================================
