--------------------------- MODULE ForecastReplay ---------------------------
(***************************************************************************)
(* agents/slt_metrics/forecast: the replay of a deal's past through the    *)
(* scorer (backtest.py), and the forecast_history rows that hold its       *)
(* results and the weights in force (weights.py, weight_tuner.py).         *)
(*                                                                         *)
(* The replay's sums run over deals one by one, so one deal stands for     *)
(* them.  Its change log is complete and in no order: each change keeps    *)
(* its place as changed_at.  Scores are DealForecast's; here a weighted    *)
(* deal is one that is scored.                                             *)
(***************************************************************************)
EXTENDS Integers, Sequences, FiniteSetsExt

CONSTANTS
    Acvs, Closes,       \* values of ACV__c and CloseDate
    LastDay,            \* bound
    MaxChanges,         \* bound: changes of the deal
    MaxRows,            \* bound: rows of forecast_history
    Samples             \* ForecastWeights that are sampled or typed in

ASSUME ReplayAssumption == /\ Acvs \subseteq Nat /\ Closes \subseteq Nat /\ LastDay \in Nat
                           /\ MaxChanges \in Nat /\ MaxRows \in Nat

VARIABLES
    opp,        \* the deal as it is: stage, acv, close, touched
    changes,    \* OpportunityHistory and OpportunityFieldHistory
    stood,      \* history: day -> the deal at the end of it, up to yesterday
    closedOn,   \* history: the day it was closed, 0 while open
    disturbed,  \* history: it was changed after it was closed
    day,
    history,    \* forecast_history, in the order of its ids
    proposed,   \* the proposals last shown to O: their version
    saved,      \* history: the weights of the last save that made a row
    dropped     \* history: the last save met a row of the same key

replayVars == <<opp, changes, stood, closedOn, disturbed, day, history, proposed, saved, dropped>>

OpenStages == {"Demo", "Proposal"}
ClosedStages == {"Won", "Lost"}
Closed(d) == d.stage \in ClosedStages
Seed == [n |-> 1, label |-> "seed", on |-> 0]
NoVersion == [n |-> 0, label |-> "none", on |-> 0]
SeedWeights == "seed"                                           \* WEIGHT_SEEDS

ReplayInit ==
    /\ opp \in [stage : {"Demo"}, acv : Acvs, close : Closes, touched : {1}]
    /\ changes = <<>> /\ stood = <<>> /\ closedOn = 0 /\ disturbed = FALSE
    /\ day = 1
    /\ history = <<>> /\ proposed = NoVersion /\ saved = SeedWeights /\ dropped = FALSE

Org == <<opp, changes, stood, closedOn, disturbed>>
Weighing == <<history, proposed, saved, dropped>>

-----------------------------------------------------------------------------
(* The org                                                                 *)

(* One field of the deal changes, and the log keeps the old value.         *)
Changes(field, new) ==
    /\ Len(changes) < MaxChanges /\ opp[field] # new
    /\ opp' = [opp EXCEPT ![field] = new]
    /\ changes' = Append(changes, [field |-> field, old |-> opp[field], on |-> day])
    /\ disturbed' = (disturbed \/ Closed(opp))
    /\ UNCHANGED <<stood, day, Weighing>>

EditAcv(a) == Changes("acv", a) /\ UNCHANGED closedOn
EditClose(c) == Changes("close", c) /\ UNCHANGED closedOn

ChangeStage(s) ==
    /\ Changes("stage", s)
    /\ closedOn' = IF s \in ClosedStages THEN day ELSE 0

Touch ==
    /\ opp.touched # day /\ opp' = [opp EXCEPT !.touched = day]
    /\ UNCHANGED <<changes, stood, closedOn, disturbed, day, Weighing>>

EndDay ==
    /\ day < LastDay /\ day' = day + 1
    /\ stood' = Append(stood, opp)
    /\ UNCHANGED <<opp, changes, closedOn, disturbed, Weighing>>

-----------------------------------------------------------------------------
(* The replay                                                              *)

(* The places of the changes of a field after a day.                       *)
After(field, asOf) == {i \in DOMAIN changes : changes[i].field = field /\ changes[i].on > asOf}

(* A rewind that undoes the last change only.                              *)
Undone_Last(field, asOf) ==
    IF After(field, asOf) = {} THEN opp[field] ELSE changes[Max(After(field, asOf))].old

(* The old value of the earliest change after the day.                     *)
Undone(field, asOf) ==
    IF After(field, asOf) = {} THEN opp[field] ELSE changes[Min(After(field, asOf))].old

(* Closed now, and by its close date of then not yet.                      *)
Reopened(asOf) == Closed(opp) /\ Undone("close", asOf) > asOf

(* _infer_open_stage.                                                      *)
InferOpenStage(stage) == IF stage \in ClosedStages THEN "Proposal" ELSE stage

(* _rewind_opp, of a deal created on the first day: what the log does not  *)
(* hold is as it is now.                                                   *)
RewindOpp(asOf) ==
    [stage |-> IF After("stage", asOf) = {} /\ Reopened(asOf) THEN InferOpenStage(opp.stage)
               ELSE Undone("stage", asOf),
     acv |-> Undone("acv", asOf), close |-> Undone("close", asOf),
     touched |-> opp.touched]

IsClosed(asOf) == Closed(opp) /\ ~ Reopened(asOf)

(* backtest's loop: whether the deal is scored as of a day.                *)
InCohort(asOf) == ~ (IsClosed(asOf) /\ Undone("close", asOf) =< asOf)

(* What a cohort's prediction is measured against.                         *)
Actual(asOf, end) == IF opp.stage = "Won" /\ opp.close \in asOf .. end THEN opp.acv ELSE 0

(* Whether the deal is among the brier pairs of a cohort.                  *)
Graded(asOf) == InCohort(asOf) /\ Closed(opp)

(* The cohort days of a window up to yesterday, those with something       *)
(* actual, which are summed, and those that are graded.                    *)
BacktestResult(start) ==
    LET cohorts == {d \in start .. Len(stood) : InCohort(d)} IN
    [deals |-> cohorts, actuals |-> {d \in cohorts : Actual(d, Len(stood)) > 0},
     graded |-> {d \in cohorts : Graded(d)}]

-----------------------------------------------------------------------------
(* forecast_history                                                        *)

WeightRows == {i \in DOMAIN history : history[i].kind = "weights_update"}

(* get_current_weights: ORDER BY run_date DESC, id DESC.                   *)
LatestRow ==
    CHOOSE i \in WeightRows : \A j \in WeightRows :
        history[j].date < history[i].date \/ (history[j].date = history[i].date /\ j =< i)
CurrentWeights == IF WeightRows = {} THEN SeedWeights ELSE history[LatestRow].weights
CurrentVersion == IF WeightRows = {} THEN Seed ELSE history[LatestRow].version

(* bump_version, whose label names the kind of the change.                 *)
BumpVersion(version, label) == [n |-> version.n + 1, label |-> label, on |-> day]

(* ON CONFLICT (run_date, horizon_quarter, weights_version) DO NOTHING.    *)
Taken(horizon, version) ==
    \E i \in DOMAIN history : /\ history[i].date = day /\ history[i].horizon = horizon
                              /\ history[i].version = version

(* save_weights; a row that is there answers with its own id.              *)
SaveWeights(weights, version) ==
    /\ Len(history) < MaxRows
    /\ dropped' = Taken("FY-CURRENT", version)
    /\ IF dropped' THEN UNCHANGED <<history, saved>>
       ELSE /\ history' = Append(history, [date |-> day, horizon |-> "FY-CURRENT",
                  kind |-> "weights_update", version |-> version, weights |-> weights])
            /\ saved' = weights
    /\ UNCHANGED <<Org, day, proposed>>

(* O types weights in, under the next version.                             *)
SetWeights(w) == SaveWeights(w, BumpVersion(CurrentVersion, "o-manual"))

(* propose_weight_tunings: every sample gets the same version.             *)
Propose ==
    /\ proposed # BumpVersion(CurrentVersion, "tuned")
    /\ proposed' = BumpVersion(CurrentVersion, "tuned")
    /\ UNCHANGED <<Org, day, history, saved, dropped>>

(* O promotes one of the proposals, that day or later.                     *)
Promote(w) == proposed # NoVersion /\ SaveWeights(w, proposed)

(* persist_backtest_result, INSERT OR IGNORE under the quarter's label.    *)
PersistBacktest ==
    /\ stood # <<>> /\ Len(history) < MaxRows /\ ~ Taken("quarter", CurrentVersion)
    /\ history' = Append(history, [date |-> day, horizon |-> "quarter", kind |-> "backtest",
                                   version |-> CurrentVersion, weights |-> CurrentWeights])
    /\ UNCHANGED <<Org, day, proposed, saved, dropped>>

OrgNext ==
    \/ \E a \in Acvs : EditAcv(a)
    \/ \E c \in Closes : EditClose(c)
    \/ \E s \in OpenStages \union ClosedStages : ChangeStage(s)
    \/ Touch \/ EndDay

WeightsNext ==
    \/ Propose \/ EndDay \/ PersistBacktest
    \/ \E w \in Samples : SetWeights(w) \/ Promote(w)

ReplayNext == OrgNext \/ WeightsNext

ReplaySpec == ReplayInit /\ [][ReplayNext]_replayVars

-----------------------------------------------------------------------------

ReplayTypeOK ==
    /\ opp.stage \in OpenStages \union ClosedStages /\ opp.acv \in Acvs /\ opp.close \in Closes
    /\ Len(changes) =< MaxChanges /\ Len(stood) = day - 1 /\ Len(history) =< MaxRows
    /\ closedOn # 0 <=> Closed(opp)

(* A deal that is open, or was closed on its close date and left alone     *)
(* since, is replayed as it stood: no day scores it once it was closed,    *)
(* none leaves it out while it was open and not past due, and its stage,   *)
(* ACV and close date are those of the day (_rewind_opp, "rolled back to   *)
(* its state on as_of (inclusive)").                                       *)
ReplayedAsItStood ==
    (~ disturbed /\ closedOn \in {0, opp.close}) => \A d \in DOMAIN stood :
        /\ InCohort(d) => /\ ~ Closed(stood[d])
                          /\ \A f \in {"stage", "acv", "close"} : RewindOpp(d)[f] = stood[d][f]
        /\ (~ Closed(stood[d]) /\ stood[d].close > d) => InCohort(d)

(* The actuals that a window's cohorts are measured against are those of   *)
(* deals that the cohorts hold, won inside the window (backtest).          *)
ActualsAreOfTheCohort ==
    (~ disturbed /\ closedOn \in {0, opp.close}) => \A s \in DOMAIN stood :
        \A d \in BacktestResult(s).actuals : closedOn \in d .. Len(stood)

(* The weights in force are those of the last save that made a row: a save *)
(* that found its key taken changes nothing, and no result of a backtest   *)
(* becomes weights (save_weights, get_current_weights).                    *)
LastSaveIsInForce == CurrentWeights = saved

(* A save is dropped only where a proposal's shared version, or a version  *)
(* counted from it, is used twice in a day; O's own weights, one after the *)
(* other, never are (bump_version).                                        *)
OwnWeightsAreKept == dropped => \E i \in WeightRows : history[i].version.label = "tuned"

(* What the replay and the weights' history keep.                          *)
ReplayInv ==
    /\ ReplayTypeOK /\ ReplayedAsItStood /\ ActualsAreOfTheCohort /\ LastSaveIsInForce
    /\ OwnWeightsAreKept

(* A replayed deal's last activity is not after the day it is replayed for *)
(* (backtest.py, "rolls each opp back to its state on each prior week").   *)
ActivityIsOfTheDay == \A d \in DOMAIN stood : InCohort(d) => RewindOpp(d).touched =< d

(* A deal is graded by its outcome only when that fell inside the window   *)
(* (backtest, "the grader uses those as ground truth when the opp closed   *)
(* inside the window").                                                    *)
GradedInsideTheWindow ==
    \A s \in DOMAIN stood : BacktestResult(s).graded # {} => opp.close =< Len(stood)
=============================================================================
