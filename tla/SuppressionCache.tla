-------------------------- MODULE SuppressionCache --------------------------
(***************************************************************************)
(* agents/top_of_funnel/suppression.py: the check every prospect passes    *)
(* before anybody writes to it.  Fresh answers come from one table of the  *)
(* agent's state.db, which manual suppressions share; older ones are asked *)
(* of Salesforce and written back.                                         *)
(*                                                                         *)
(* A process reads the table, asks Salesforce and writes the table in      *)
(* three steps, and others act in between.  The clock counts hours.  A     *)
(* check does not outlast an hour: the sf CLI is cut off after a minute.   *)
(***************************************************************************)
EXTENDS Naturals, FiniteSets

CONSTANTS
    Emails,         \* the addresses
    Checkers,       \* the processes that call is_suppressed
    Competitors,    \* addresses whose domain is on the competitor list
    CacheHours,     \* _DEFAULT_CACHE_TTL_DAYS
    MaxHour         \* bound: the clock stops here

ASSUME EmailsAssumption == Emails # {}
ASSUME CompetitorsAssumption == Competitors \subseteq Emails
ASSUME CacheAssumption == CacheHours \in Nat /\ MaxHour \in Nat

VARIABLES
    cache,      \* suppression_cache: address -> row
    blocked,    \* the org: address -> hour since when a Lead, Contact or
                \*   Account there rules it out
    checks,     \* what each process has read and not used yet
    hour,       \* the clock
    manual,     \* history: address -> hour of the last manual suppression
    overtaken   \* history: addresses whose manual row an older check replaced

suppressionVars == <<cache, blocked, checks, hour, manual, overtaken>>

Hours == 0 .. MaxHour
Sources == {"manual", "salesforce", "competitor", "none", "fail_open"}
NoRow == [suppressed |-> FALSE, source |-> "absent", at |-> 0]
Never == MaxHour + 1
Row == [suppressed : BOOLEAN, source : Sources, at : Hours] \union {NoRow}
Result == [suppressed : BOOLEAN, source : Sources]
Clear == [suppressed |-> FALSE, source |-> "none"]
FailOpen == [suppressed |-> FALSE, source |-> "fail_open"]
Check == [step : {"idle", "ask", "store", "answered"},
          email : Emails, result : Result, late : BOOLEAN]

(* A lookup that believes what Salesforce said and asks again otherwise.   *)
Fresh_SkipsManual(e) ==
    /\ cache[e] # NoRow
    /\ cache[e].at + CacheHours >= hour
    /\ cache[e].source # "manual"

(* A lookup without its cutoff.                                            *)
Fresh_Forever(e) == cache[e] # NoRow

(* _cache_lookup: a row younger than the time to live, whoever wrote it.   *)
Fresh(e) == cache[e] # NoRow /\ cache[e].at + CacheHours >= hour

Cached(e) == [suppressed |-> cache[e].suppressed, source |-> cache[e].source]

(* _check_salesforce and the competitor list, in their order: what a check *)
(* that reached Salesforce concludes.  The opt-out, customer and activity  *)
(* layers all say the same thing and are one.                              *)
Verdict(e) ==
    IF blocked[e] # Never THEN [suppressed |-> TRUE, source |-> "salesforce"]
    ELSE IF e \in Competitors THEN [suppressed |-> TRUE, source |-> "competitor"]
    ELSE Clear

NoCheck(e) == [step |-> "idle", email |-> e, result |-> Clear, late |-> FALSE]
Idle == NoCheck(CHOOSE e \in Emails : TRUE)

SuppressionInit ==
    /\ cache = [e \in Emails |-> NoRow]
    /\ blocked = [e \in Emails |-> Never]
    /\ checks = [p \in Checkers |-> Idle]
    /\ hour = 0
    /\ manual = [e \in Emails |-> Never]
    /\ overtaken = {}

-----------------------------------------------------------------------------

(* is_suppressed up to its first call to Salesforce.                       *)
Lookup(p, e) ==
    /\ checks[p].step = "idle"
    /\ checks' = [checks EXCEPT ![p] =
                    IF Fresh(e)
                    THEN [step |-> "answered", email |-> e,
                          result |-> Cached(e), late |-> FALSE]
                    ELSE [NoCheck(e) EXCEPT !.step = "ask"]]
    /\ UNCHANGED <<cache, blocked, hour, manual, overtaken>>

(* The queries: an outage answers "not suppressed" and is not cached.      *)
AskSalesforce(p) ==
    /\ checks[p].step = "ask"
    /\ \/ checks' = [checks EXCEPT ![p].step = "answered", ![p].result = FailOpen]
       \/ checks' = [checks EXCEPT ![p].step = "store",
                                   ![p].result = Verdict(checks[p].email)]
    /\ UNCHANGED <<cache, blocked, hour, manual, overtaken>>

(* _cache_write: the upsert takes the row whatever is there by now.        *)
CacheWrite(p) ==
    LET e == checks[p].email IN
    /\ checks[p].step = "store"
    /\ cache' = [cache EXCEPT ![e] =
                    [suppressed |-> checks[p].result.suppressed,
                     source |-> checks[p].result.source, at |-> hour]]
    /\ overtaken' = IF checks[p].late THEN overtaken \union {e} ELSE overtaken
    /\ checks' = [checks EXCEPT ![p].step = "answered"]
    /\ UNCHANGED <<blocked, hour, manual>>

(* The caller has the answer and goes on.                                  *)
Answered(p) ==
    /\ checks[p].step = "answered"
    /\ checks' = [checks EXCEPT ![p] = Idle]
    /\ UNCHANGED <<cache, blocked, hour, manual, overtaken>>

(* add_manual.  The checks of this address under way are late from now on. *)
AddManual(e) ==
    /\ cache' = [cache EXCEPT ![e] =
                    [suppressed |-> TRUE, source |-> "manual", at |-> hour]]
    /\ manual' = [manual EXCEPT ![e] = hour]
    /\ overtaken' = overtaken \ {e}
    /\ checks' = [p \in Checkers |->
                    IF checks[p].step \in {"ask", "store"} /\ checks[p].email = e
                    THEN [checks[p] EXCEPT !.late = TRUE] ELSE checks[p]]
    /\ UNCHANGED <<blocked, hour>>

(* clear_expired.                                                          *)
ClearExpired ==
    /\ \E e \in Emails : cache[e] # NoRow /\ ~ Fresh(e)
    /\ cache' = [e \in Emails |-> IF cache[e] # NoRow /\ Fresh(e)
                                  THEN cache[e] ELSE NoRow]
    /\ UNCHANGED <<blocked, checks, hour, manual, overtaken>>

(* Salesforce: somebody opts out, becomes a customer or is being talked to. *)
Block(e) ==
    /\ blocked[e] = Never
    /\ blocked' = [blocked EXCEPT ![e] = hour]
    /\ UNCHANGED <<cache, checks, hour, manual, overtaken>>

HourGoes ==
    /\ hour < MaxHour
    /\ \A p \in Checkers : checks[p].step = "idle"
    /\ hour' = hour + 1
    /\ UNCHANGED <<cache, blocked, checks, manual, overtaken>>

SuppressionNext ==
    \/ \E p \in Checkers :
        \/ \E e \in Emails : Lookup(p, e)
        \/ AskSalesforce(p) \/ CacheWrite(p) \/ Answered(p)
    \/ \E e \in Emails : AddManual(e) \/ Block(e)
    \/ ClearExpired
    \/ HourGoes

SuppressionSpec == SuppressionInit /\ [][SuppressionNext]_suppressionVars

-----------------------------------------------------------------------------

SuppressionTypeOK ==
    /\ cache \in [Emails -> Row]
    /\ blocked \in [Emails -> Hours \union {Never}]
    /\ checks \in [Checkers -> Check]
    /\ hour \in Hours
    /\ manual \in [Emails -> Hours \union {Never}]
    /\ overtaken \subseteq Emails

(* Whom O suppresses stays suppressed for the seven days the answer names, *)
(* although checks of the same address write the same row: nothing but a   *)
(* check that had missed the row before O wrote it can take it away        *)
(* (add_manual's answer, _cache_lookup, _cache_write).                     *)
ManualHolds ==
    \A e \in Emails :
        (/\ manual[e] # Never
         /\ hour =< manual[e] + CacheHours
         /\ e \notin overtaken) => cache[e] # NoRow /\ cache[e].suppressed

(* An opt-out is seen by every check later than the time to live of an     *)
(* answer from before it, unless Salesforce cannot be asked: what the      *)
(* cache may hide is bounded (is_suppressed, _cache_lookup's cutoff).      *)
OptOutIsSeen ==
    \A p \in Checkers :
        LET c == checks[p] IN
        (/\ c.step = "answered" /\ ~ c.result.suppressed
         /\ c.result.source # "fail_open"
         /\ blocked[c.email] # Never) => hour =< blocked[c.email] + CacheHours

(* What the suppression cache keeps: a manual opt-out holds for its week   *)
(* and no opt-out of the org stays unseen for longer than an answer lives  *)
(* (is_suppressed, add_manual).                                            *)
SuppressionInv == SuppressionTypeOK /\ ManualHolds /\ OptOutIsSeen
=============================================================================
