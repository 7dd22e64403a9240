---------------------------- MODULE StallAlerts -----------------------------
(***************************************************************************)
(* agents/onboarding/milestone_monitor.py and stall_actions.py: the scan   *)
(* for onboardings that stand still, its alerts with the 72-hour window in *)
(* onboarding_stall_alerts, and the button that snoozes them.              *)
(*                                                                         *)
(* The clock counts days; day 0 is a Monday.  A scan fetches the records,  *)
(* then goes through them: the look into the window, the post and the      *)
(* record are three steps, and buttons and other scans come in between.    *)
(* A scan does not outlast the day.                                        *)
(***************************************************************************)
EXTENDS Integers, FiniteSets

CONSTANTS
    Onboardings,
    Stages,         \* stage fingerprints
    Scanners,       \* processes that call scan
    Threshold,      \* DEFAULT_STALL_THRESHOLD_BUSINESS_DAYS
    Window,         \* ALERT_DEDUP_WINDOW, in days
    ExtendDays,     \* EXTEND_BUSINESS_DAYS
    FirstDay, LastDay  \* bounds of the clock

ASSUME StallAssumption == /\ Onboardings # {} /\ Stages # {}
                          /\ Threshold \in Nat /\ Window \in Nat /\ ExtendDays \in Nat
                          /\ FirstDay \in Nat /\ LastDay \in Nat /\ FirstDay =< LastDay

VARIABLES
    stage,      \* the org: onboarding -> its stage and the day it got there
    alerts,     \* onboarding_stall_alerts: <<onboarding, stage>> -> last_alerted_at
    scanner,    \* what each scan is doing
    posted,     \* history: <<onboarding, stage>> -> day of the last alert
    promise,    \* history: <<onboarding, stage>> -> day until which a snooze silenced it
    repeated,   \* history: an alert too many that the code cannot exclude
    broken,     \* history: an alert came too soon after another
    woken,      \* history: an alert came before the promised day
    day

stallVars == <<stage, alerts, scanner, posted, promise, repeated, broken, woken, day>>

Days == FirstDay .. LastDay
NoDay == -9                            \* no row; further back than any window
Weekday(d) == d % 7 < 5
BusinessDays(from, to) == Cardinality({d \in from .. to - 1 : Weekday(d)})

(* _advance_business_days: the one day its loop stops at.                  *)
AdvanceBusinessDays(d, n) ==
    {e \in d .. d + 2 * n + 2 : /\ Cardinality({x \in d + 1 .. e : Weekday(x)}) = n
                                /\ e = d \/ Weekday(e)}

NoScan == [step |-> "idle", todo |-> {}, seen |-> <<>>, at |-> CHOOSE o \in Onboardings : TRUE]

StallInit ==
    /\ stage = [o \in Onboardings |-> [name |-> CHOOSE s \in Stages : TRUE, since |-> 0]]
    /\ alerts = [k \in Onboardings \X Stages |-> NoDay]
    /\ scanner = [p \in Scanners |-> NoScan]
    /\ posted = [k \in Onboardings \X Stages |-> NoDay]
    /\ promise = [k \in Onboardings \X Stages |-> NoDay]
    /\ repeated = {} /\ broken = {} /\ woken = {}
    /\ day = FirstDay

-----------------------------------------------------------------------------

(* evaluate_stall on a record as it was fetched.                           *)
Stalled(rec) == BusinessDays(rec.since, day) >= Threshold

Fetch(p) ==
    /\ scanner[p].step = "idle"
    /\ scanner' = [scanner EXCEPT ![p] = [NoScan EXCEPT !.step = "check", !.seen = stage,
                                                        !.todo = {o \in Onboardings :
                                                                    Stalled(stage[o])}]]
    /\ UNCHANGED <<stage, alerts, posted, promise, repeated, broken, woken, day>>

Key(p) == <<scanner[p].at, scanner[p].seen[scanner[p].at].name>>

(* A window that begins anew after midnight.                               *)
RecentlyAlerted_Today(k) == alerts[k] = day

RecentlyAlerted(k) == day - alerts[k] < Window

CheckWindow(p, o) ==
    LET k == <<o, scanner[p].seen[o].name>> IN
    /\ scanner[p].step = "check" /\ o \in scanner[p].todo
    /\ scanner' = [scanner EXCEPT ![p].todo = @ \ {o}, ![p].at = o,
                                  ![p].step = IF RecentlyAlerted(k) THEN "check" ELSE "post"]
    /\ repeated' = IF ~ RecentlyAlerted(k) /\ \E q \in Scanners \ {p} :
                            scanner[q].step \in {"post", "record"} /\ Key(q) = k
                   THEN repeated \union {o} ELSE repeated
    /\ UNCHANGED <<stage, alerts, posted, promise, broken, woken, day>>

(* _post_stall_alert.                                                      *)
Post(p) ==
    LET k == Key(p) IN
    /\ scanner[p].step = "post"
    /\ broken' = IF day - posted[k] < Window THEN broken \union {k[1]} ELSE broken
    /\ woken' = IF day < promise[k] THEN woken \union {k[1]} ELSE woken
    /\ posted' = [posted EXCEPT ![k] = day]
    /\ scanner' = [scanner EXCEPT ![p].step = "record"]
    /\ UNCHANGED <<stage, alerts, promise, repeated, day>>

(* A record under a fixed stage.                                           *)
Record_OneStage(p) ==
    /\ scanner[p].step = "record"
    /\ alerts' = [alerts EXCEPT ![<<scanner[p].at, CHOOSE s \in Stages : TRUE>>] = day]
    /\ scanner' = [scanner EXCEPT ![p].step = "check"]
    /\ UNCHANGED <<stage, posted, promise, repeated, broken, woken, day>>

(* _record_alert and the audit row.                                        *)
Record(p) ==
    /\ scanner[p].step = "record"
    /\ alerts' = [alerts EXCEPT ![Key(p)] = day]
    /\ scanner' = [scanner EXCEPT ![p].step = "check"]
    /\ UNCHANGED <<stage, posted, promise, repeated, broken, woken, day>>

FinishScan(p) ==
    /\ scanner[p].step = "check" /\ scanner[p].todo = {}
    /\ scanner' = [scanner EXCEPT ![p] = NoScan]
    /\ UNCHANGED <<stage, alerts, posted, promise, repeated, broken, woken, day>>

KillScan(p) ==
    /\ scanner[p].step # "idle"
    /\ repeated' = IF scanner[p].step = "record" THEN repeated \union {scanner[p].at} ELSE repeated
    /\ scanner' = [scanner EXCEPT ![p] = NoScan]
    /\ UNCHANGED <<stage, alerts, posted, promise, broken, woken, day>>

(* handle_extend_3d: every row of the onboarding.  Pressed while a scan    *)
(* is between look and record, it is overtaken.                            *)
Extend(o) ==
    LET rows == {k \in DOMAIN alerts : k[1] = o /\ alerts[k] # NoDay} IN
    /\ \E s \in Stages : posted[<<o, s>>] # NoDay
    /\ \E until \in AdvanceBusinessDays(day, ExtendDays) :
        /\ alerts' = [k \in DOMAIN alerts |-> IF k \in rows THEN until ELSE alerts[k]]
        /\ promise' = [k \in DOMAIN alerts |-> IF k \in rows THEN until ELSE promise[k]]
    /\ repeated' = IF \E p \in Scanners : scanner[p].step \in {"post", "record"}
                                          /\ scanner[p].at = o
                   THEN repeated \union {o} ELSE repeated
    /\ UNCHANGED <<stage, scanner, posted, broken, woken, day>>

(* The org: an onboarding moves on, or back.                               *)
Advance(o, s) ==
    /\ s # stage[o].name
    /\ stage' = [stage EXCEPT ![o] = [name |-> s, since |-> day]]
    /\ UNCHANGED <<alerts, scanner, posted, promise, repeated, broken, woken, day>>

NextDay ==
    /\ day < LastDay /\ \A p \in Scanners : scanner[p].step = "idle"
    /\ day' = day + 1
    /\ UNCHANGED <<stage, alerts, scanner, posted, promise, repeated, broken, woken>>

StallNext ==
    \/ \E p \in Scanners :
        \/ Fetch(p) \/ Post(p) \/ Record(p) \/ FinishScan(p) \/ KillScan(p)
        \/ \E o \in Onboardings : CheckWindow(p, o)
    \/ \E o \in Onboardings :
        \/ Extend(o)
        \/ \E s \in Stages : Advance(o, s)
    \/ NextDay

StallSpec == StallInit /\ [][StallNext]_stallVars

-----------------------------------------------------------------------------

StallTypeOK ==
    /\ \A o \in Onboardings : stage[o].name \in Stages /\ stage[o].since \in 0 .. LastDay
    /\ alerts \in [Onboardings \X Stages -> {NoDay} \union 0 .. LastDay + 2 * ExtendDays + 2]
    /\ \A p \in Scanners : /\ scanner[p].step \in {"idle", "check", "post", "record"}
                           /\ scanner[p].todo \subseteq Onboardings
                           /\ scanner[p].at \in Onboardings
    /\ day \in Days

(* An onboarding that stands still is alerted about once in 72 hours, and  *)
(* one that was snoozed not before the day the button's answer names, as   *)
(* long as it is in a stage it was alerted in, however scans, buttons and  *)
(* stages interleave: only a scan that died or was overtaken between its   *)
(* look and its record breaks either (scan, _record_alert,                 *)
(* handle_extend_3d).                                                      *)
AlertsKeepApart == broken \union woken \subseteq repeated

(* What the stall scan keeps: its window and its promises (scan,           *)
(* handle_extend_3d).                                                      *)
StallInv == StallTypeOK /\ AlertsKeepApart
=============================================================================
