----------------------------- MODULE DealWatch ------------------------------
(***************************************************************************)
(* agents/sales_reps: the two sweeps that tell managers about open deals,  *)
(* deal_risk.py every two hours and pipeline_hygiene.py every morning.     *)
(*                                                                         *)
(* Both judge deal by deal, so one deal stands for all.  Its past is the   *)
(* field history that Salesforce keeps.  Every query answers with 200 or   *)
(* 500 rows at most, of all deals together: of the rows of one deal it may *)
(* answer with any part.  Days and amounts are on a small scale.           *)
(***************************************************************************)
EXTENDS Integers, Sequences, FiniteSets, FiniteSetsExt

CONSTANTS
    Prices,         \* values of Amount, 0 being none
    Dates,          \* values of CloseDate
    WatchWindow,    \* HISTORY_WINDOW_DAYS
    PushAt, BigPush,\* PUSHED_CLOSE_THRESHOLD_DAYS, and the days of a high one
    StaleDays,      \* stale_days
    MaxMishaps,     \* bound on what goes wrong in a sweep
    MaxMoves,       \* bound on the history
    LastWatch       \* bound on days

ASSUME WatchAssumption ==
    /\ Prices \subseteq Nat /\ Dates \subseteq Nat
    /\ WatchWindow \in Nat /\ StaleDays \in Nat /\ MaxMishaps \in Nat /\ MaxMoves \in Nat
    /\ PushAt \in Nat \ {0} /\ BigPush \in Nat /\ BigPush >= PushAt /\ LastWatch \in Nat

VARIABLES
    watched,    \* the deal: stage, amount, close, touched, step, roles
    moves,      \* OpportunityFieldHistory
    champion,   \* the primary contact: 0 while active, else Contact.LastModifiedDate
    mention,    \* the day of the last call of this deal that names a competitor, or 0
    date,       \* today
    sweep,      \* today's last risk sweep: day, signals, errors; history: the
                \* detectors that were not answered in full, and what was due
    hygiene     \* today's last hygiene sweep: day, whether it was reported, issues;
                \* history: the queries that stopped short of the deal, its stage

watchVars == <<watched, moves, champion, mention, date, sweep, hygiene>>

Never == 0                                  \* LastActivityDate of an untouched deal
AdvancedStages == {"Demo", "Sent"}          \* _DEFAULT_ADVANCED_STAGES, two of them
WatchedStages == AdvancedStages \union {"Meeting"}  \* _DEFAULT_OPEN_STAGES
WatchStages == WatchedStages \union {"Renamed", "Closed"}
IsOpen == watched.stage # "Closed"

Detectors == {"pushed_close", "amount_drop", "champion_gone", "competitor_mention"}
Swallowing == {"champion_gone", "competitor_mention"}
Raising == Detectors \ {"champion_gone"}
Queries == {"stale_activity", "missing_next_step", "past_close", "single_threaded"}
NoSignals == [d \in Detectors |-> {}]
NoSweep == [on |-> 0, signals |-> {}, errors |-> {}, partial |-> {}, due |-> NoSignals]
NoHygiene == [on |-> 0, reported |-> FALSE, issues |-> {}, beyond |-> {}, stage |-> "none"]

-----------------------------------------------------------------------------
(* The org                                                                 *)

(* A change of CloseDate or Amount goes into the history.                  *)
MoveField(field, from, to, deal) ==
    /\ Len(moves) < MaxMoves /\ from # to
    /\ watched' = deal
    /\ moves' = Append(moves, [field |-> field, old |-> from, new |-> to, on |-> date])
    /\ UNCHANGED <<champion, mention, date, sweep, hygiene>>

Reprice(p) == MoveField("amount", watched.amount, p, [watched EXCEPT !.amount = p])
Reschedule(d) == MoveField("close", watched.close, d, [watched EXCEPT !.close = d])

EditDeal(new) ==
    /\ new # watched /\ new.close = watched.close /\ new.amount = watched.amount
    /\ watched' = new
    /\ UNCHANGED <<moves, champion, mention, date, sweep, hygiene>>

MoveOn == EditDeal([watched EXCEPT !.stage = "Sent", !.step = FALSE])
Rename == EditDeal([watched EXCEPT !.stage = "Renamed"])
CloseDeal == EditDeal([watched EXCEPT !.stage = "Closed"])
Call == EditDeal([watched EXCEPT !.touched = date, !.step = TRUE])
AddRole == watched.roles < 2 /\ EditDeal([watched EXCEPT !.roles = @ + 1])

(* The primary contact is made inactive, or edited when it is; or it is    *)
(* active again.                                                           *)
EditChampion ==
    /\ champion' \in {0, date} \ {champion}
    /\ UNCHANGED <<watched, moves, mention, date, sweep, hygiene>>

NameCompetitor ==
    /\ mention # date /\ mention' = date
    /\ UNCHANGED <<watched, moves, champion, date, sweep, hygiene>>

Tomorrow ==
    /\ date < LastWatch /\ date' = date + 1
    /\ sweep' = NoSweep /\ hygiene' = NoHygiene
    /\ UNCHANGED <<watched, moves, champion, mention>>

-----------------------------------------------------------------------------
(* deal_risk.py                                                            *)

Recent(on) == on >= date - WatchWindow

(* The places in the history that the query asks for, and those that it    *)
(* may be answered: the rows of other deals may fill it.                   *)
Due(field) == {i \in DOMAIN moves : moves[i].field = field /\ Recent(moves[i].on)}
Answered(field) == SUBSET Due(field)

(* Some row moves the close date by so many days.                          *)
Moves(rows, days) == \E i \in rows : moves[i].new - moves[i].old >= days

(* _detect_pushed_close: the longest single move tells.                    *)
PushedClose(rows) ==
    IF IsOpen /\ Moves(rows, PushAt)
    THEN {<<"pushed_close", IF Moves(rows, BigPush) THEN "high" ELSE "warn">>} ELSE {}

(* _detect_amount_drops: each drop by a fifth that leaves something.       *)
AmountDrops(rows) ==
    {<<"amount_drop",
       IF 2 * (moves[i].old - moves[i].new) >= moves[i].old THEN "high" ELSE "warn">> :
        i \in {j \in rows : /\ IsOpen /\ moves[j].old > 0 /\ moves[j].new > 0
                            /\ 5 * (moves[j].old - moves[j].new) >= moves[j].old}}

(* _detect_champion_gone: any edit of a contact that left dates it anew.   *)
ChampionGone ==
    IF IsOpen /\ champion > 0 /\ Recent(champion) THEN {<<"champion_gone", "high">>} ELSE {}

(* _detect_competitor_mentions: calls since the day of 26 hours ago, back  *)
(* days before today.                                                      *)
CompetitorMentions(back) ==
    IF IsOpen /\ mention > 0 /\ mention >= date - back
    THEN {<<"competitor_mention", "warn">>} ELSE {}

(* What each detector finds over the rows it is answered.                  *)
Detected(pushes, drops, back) ==
    [d \in Detectors |-> CASE d = "pushed_close" -> PushedClose(pushes)
                           [] d = "amount_drop" -> AmountDrops(drops)
                           [] d = "champion_gone" -> ChampionGone
                           [] OTHER -> CompetitorMentions(back)]

(* A sweep that gives up with the first detector that fails.               *)
Collect_AllOrNothing(found, failing) ==
    IF failing = {} THEN UNION {found[d] : d \in Detectors} ELSE {}

(* run_sweep's loop: a detector that raises costs its own signals.         *)
Collect(found, failing) == UNION {found[d] : d \in Detectors \ failing}

(* failing: the detectors that raise, each an entry of errors.  quiet: the *)
(* two that swallow the failure of their query or of a call, or find the   *)
(* deal beyond its limit: no signal and no entry.                          *)
RiskSweep(failing, quiet) ==
    \E pushes \in Answered("close"), drops \in Answered("amount"), back \in {1, 2} :
        LET found == Detected(pushes, drops, back)
        IN  /\ sweep' = [on |-> date,
                         signals |-> Collect([d \in Detectors |-> IF d \in quiet THEN {}
                                                                  ELSE found[d]], failing),
                         errors |-> failing,
                         partial |-> quiet \union {d \in {"pushed_close"} : pushes # Due("close")}
                                           \union {d \in {"amount_drop"} : drops # Due("amount")},
                         due |-> Detected(Due("close"), Due("amount"), back)]
            /\ UNCHANGED <<watched, moves, champion, mention, date, hygiene>>

-----------------------------------------------------------------------------
(* pipeline_hygiene.py                                                     *)

(* _soql_stale: a date that is null is not before anything.                *)
StaleActivity ==
    IsOpen /\ watched.stage \in WatchedStages
           /\ watched.touched # Never /\ watched.touched < date - StaleDays
MissingNextStep == IsOpen /\ watched.stage \in AdvancedStages /\ ~ watched.step
PastClose == IsOpen /\ watched.stage \in WatchedStages /\ watched.close < date
SingleThreaded == IsOpen /\ watched.stage \in AdvancedStages /\ watched.roles =< 1

Issues ==
    {issue \in Queries :
        CASE issue = "stale_activity" -> StaleActivity
          [] issue = "missing_next_step" -> MissingNextStep
          [] issue = "past_close" -> PastClose
          [] OTHER -> SingleThreaded}

(* run: one query that fails and there is neither a report nor an audit    *)
(* row.  A query stops at 500 rows, in the order of owners and close dates *)
(* (LIMIT): the deal may be beyond.                                        *)
HygieneSweep(fails, beyond) ==
    /\ hygiene' = [on |-> date, reported |-> ~ fails, beyond |-> beyond, stage |-> watched.stage,
                   issues |-> IF fails THEN {} ELSE Issues \ beyond]
    /\ UNCHANGED <<watched, moves, champion, mention, date, sweep>>

WatchInit ==
    /\ watched \in [stage : {"Meeting"}, amount : Prices, close : Dates, touched : {Never, 1},
                    step : {FALSE}, roles : {1}]
    /\ moves = <<>> /\ champion = 0 /\ mention = 0 /\ date = 1
    /\ sweep = NoSweep /\ hygiene = NoHygiene

(* What the risk sweep looks at, and what the hygiene sweep looks at.      *)
RiskNext ==
    \/ \E p \in Prices : Reprice(p)
    \/ \E d \in Dates : Reschedule(d)
    \/ CloseDeal \/ EditChampion \/ NameCompetitor \/ Tomorrow
    \/ \E failing \in SUBSET Raising, quiet \in SUBSET Swallowing :
        Cardinality(failing) + Cardinality(quiet) =< MaxMishaps /\ RiskSweep(failing, quiet)

HygieneNext ==
    \/ \E d \in Dates : Reschedule(d)
    \/ MoveOn \/ Rename \/ CloseDeal \/ Call \/ AddRole \/ Tomorrow
    \/ \E fails \in BOOLEAN, beyond \in SUBSET Queries :
        Cardinality(beyond) =< MaxMishaps /\ HygieneSweep(fails, beyond)

WatchNext == RiskNext \/ HygieneNext

WatchSpec == WatchInit /\ [][WatchNext]_watchVars

-----------------------------------------------------------------------------

WatchTypeOK ==
    /\ watched.stage \in WatchStages /\ watched.amount \in Prices /\ watched.close \in Dates
    /\ watched.touched =< date /\ Len(moves) =< MaxMoves /\ champion =< date /\ mention =< date
    /\ sweep.on =< date /\ sweep.errors \subseteq Raising /\ hygiene.on =< date

(* The moves of the close date that a sweep of today still sees.           *)
RecentMoves == {i \in DOMAIN moves : moves[i].field = "close" /\ Recent(moves[i].on)}

(* How far the close date is from where the first of them found it.        *)
Slipped == IF RecentMoves = {} THEN 0 ELSE watched.close - moves[Min(RecentMoves)].old

(* A deal that slipped within the window, by the threshold for each move,  *)
(* is found by a sweep that is answered in full: one of the moves must     *)
(* have been that long (_detect_pushed_close takes the longest).           *)
SlipsAreSeen ==
    (IsOpen /\ RecentMoves # {} /\ Slipped >= PushAt * Cardinality(RecentMoves)) =>
        PushedClose(RecentMoves) # {}

(* A detector that fails hides its own signals and no other's: what a      *)
(* sweep misses is of a detector in its errors, or of one that was not     *)
(* answered in full.  That is a history or a list beyond its limit, and a  *)
(* query of contacts, or a call, that failed: which the log knows and the  *)
(* sweep does not tell (run_sweep, "one detector failing must not stop the *)
(* sweep").                                                                *)
OthersAreStillTold ==
    sweep.on > 0 =>
        \A d \in Detectors \ (sweep.errors \union sweep.partial) :
            sweep.due[d] \subseteq sweep.signals

(* A history query that is cut off may hide a signal or soften it, and     *)
(* never makes one up.                                                     *)
CutOffOnlyHides ==
    sweep.on > 0 =>
        \A s \in sweep.signals : \E r \in sweep.due[s[1]] : s[2] = "high" => r[2] = "high"

(* A morning's report is of an open deal in a stage the queries know, and  *)
(* a deal nobody has touched since a day that is long past is in it,       *)
(* unless it is renamed or closed, or 500 quiet deals come before it       *)
(* (_soql_stale, limit=500; a deal that was never touched is not).         *)
QuietDealIsReported ==
    hygiene.reported =>
        /\ hygiene.issues # {} => hygiene.stage \in WatchedStages
        /\ (/\ watched.touched \in 1 .. hygiene.on - StaleDays - 1
            /\ hygiene.stage \in WatchedStages) =>
               "stale_activity" \in hygiene.issues \union hygiene.beyond

(* What the two sweeps keep.                                               *)
WatchInv == /\ WatchTypeOK /\ SlipsAreSeen /\ OthersAreStillTold /\ CutOffOnlyHides
            /\ QuietDealIsReported

(* An open deal that slipped by the threshold is found (run_sweep,         *)
(* "pushed_close: CloseDate moved forward").                               *)
SlowSlipsAreSeen ==
    (IsOpen /\ RecentMoves # {} /\ Slipped >= PushAt) => PushedClose(RecentMoves) # {}
=============================================================================
