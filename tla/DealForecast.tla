---------------------------- MODULE DealForecast ----------------------------
(***************************************************************************)
(* agents/slt_metrics/forecast: the five pillars of a deal's score         *)
(* (pillars.py, call_intel.py), the score and its category (scorer.py,     *)
(* categories.py), its risk flags (risk_flags.py), and the roll-up of      *)
(* scored deals against the quotas (commit_best.py, gap_to_quota.py).      *)
(*                                                                         *)
(* A pillar's value is counted in 1/300, a weight in hundredths, money in  *)
(* thousands and a weighted ACV in hundredths of that.  The scores of the  *)
(* code are floats, whose error decides ties of the rounding only.  Dates  *)
(* are kept as days from today; Blank is None.                             *)
(***************************************************************************)
EXTENDS Integers, FiniteSets

CONSTANTS
    Weights,        \* ForecastWeights
    Offered,        \* bound: the deals that are scored
    MaxDeals,       \* bound: deals of one forecast
    Owners,         \* owner names, "unassigned" among them
    Quotas,         \* owner -> quota, for the owners that have one
    RiskyOwners,    \* rep_risk_owners
    Verdicts,       \* the classifier's averages, in 1/300
    Elapsed         \* quarter_elapsed_pct, in hundredths

Blank == 9999

(* OppRecord with the signals of its calls; no number of days is one off   *)
(* what stands for none.  A credit has an ACV below zero.                  *)
Days == {x \in Int : x # Blank - 1 /\ x # Blank + 1}
Calls == [n : Nat, hits : Nat, buyers : Nat, items : Nat, bad : Nat]
DealRecords == [stage : STRING, icp : Nat, locations : Nat, acv : Int, ent : BOOLEAN,
          inbound : BOOLEAN, idle : Days, due : Days, inStage : Days, turned : Days,
          owner : Owners, contacts : BOOLEAN, products : BOOLEAN,
          calls : Calls]

ASSUME ForecastAssumption ==
    /\ Offered \subseteq DealRecords /\ IsFiniteSet(Owners) /\ "none" \notin Owners
    /\ Weights \in [{"icp", "stage", "activity", "timeline", "call"} -> Nat]
    /\ Weights.icp + Weights.stage + Weights.activity + Weights.timeline + Weights.call = 100
    /\ "unassigned" \in Owners /\ RiskyOwners \subseteq Owners
    /\ DOMAIN Quotas \subseteq Owners /\ \A o \in DOMAIN Quotas : Quotas[o] \in Nat
    /\ Verdicts \subseteq 0 .. 300 /\ MaxDeals \in Nat /\ Elapsed \subseteq Nat

VARIABLES
    deal,       \* the deal being scored, or NoDeal
    verdict,    \* what the classifier says of its calls, Blank for nothing
    rollup,     \* ForecastRollup.by_owner, with the number of deals
    totals,     \* its totals
    quotaReport \* QuotaReport

forecastVars == <<deal, verdict, rollup, totals, quotaReport>>

Full == 300
Between(x, low, high) == IF x < low THEN low ELSE IF x > high THEN high ELSE x

-----------------------------------------------------------------------------
(* The pillars                                                             *)

(* _normalize_icp, of a raw value in hundredths: 0-1, 0-10 or 0-100.       *)
NormalizeIcp(raw) ==
    Between(3 * (IF raw =< 100 THEN raw ELSE IF raw =< 1000 THEN raw \div 10 ELSE raw \div 100),
            0, Full)

(* _icp_proxy: an ACV counts up to a cap, and below zero without one.      *)
IcpProxy(d) ==
    (90 * Between(d.locations, 0, 50)) \div 50
    + (90 * (IF d.acv > 150 THEN 150 ELSE d.acv)) \div 150
    + (IF d.ent THEN 60 ELSE 0) + (IF d.inbound THEN 60 ELSE 0)

(* icp, where ICP_PROXY_CAP is one half.                                   *)
Icp(d) == IF d.icp # Blank THEN NormalizeIcp(d.icp) ELSE Between(IcpProxy(d), 0, 150)

StageScores == [NoShow |-> 0, Disqualified |-> 0, ClosedLost |-> 0, NewMeetingSet |-> 5,
                Demo |-> 10, BusinessCase |-> 20, Pilot |-> 23, Proposal |-> 25, ClosedWon |-> 25]

(* stage; one that the table does not know scores nothing.                 *)
StagePillar(d) == IF d.stage \in DOMAIN StageScores THEN 12 * StageScores[d.stage] ELSE 0

Late(d) == d.stage = "Proposal"                               \* LATE_PHASE_STAGES
NearValid(d) == d.stage \in {"Proposal", "Pilot", "BusinessCase"}
Idle(d) == IF d.idle < 0 THEN 0 ELSE d.idle

(* _activity_band_score.                                                   *)
BandScore(days) ==
    CASE days =< 7 -> 25 [] days \in 8 .. 14 -> 20 [] days \in 15 .. 21 -> 15
      [] days \in 22 .. 30 -> 10 [] days \in 31 .. 45 -> 5 [] days \in 46 .. 60 -> 2
      [] OTHER -> 0

(* activity.                                                               *)
Activity(d) ==
    IF d.idle = Blank THEN 0
    ELSE 12 * Between(BandScore(Idle(d)) + (IF Idle(d) =< 3 THEN 5 ELSE 0)
                        - (IF Idle(d) > 60 /\ Late(d) THEN 10 ELSE 0), 0, 25)

(* _stage_mismatch, and the timeline pillar's stall.                       *)
StageMismatch(d) == d.inStage # Blank /\ d.inStage > 60 /\ Late(d)

(* A stall looked for in every stage.                                      *)
Stalled_AnyPhase(d) == d.inStage # Blank /\ d.inStage > 60

Stalled(d) == d.inStage # Blank /\ d.inStage > 60 /\ Late(d)

(* timeline's bands, before the stall.                                     *)
Horizon(d) ==
    IF d.due < 0 THEN 60
    ELSE IF d.due =< 30 THEN (IF NearValid(d) THEN 300 ELSE 180)
    ELSE IF d.due =< 90 THEN 300 - 2 * (d.due - 30) ELSE 120

(* timeline.                                                               *)
Timeline(d) ==
    IF d.due = Blank THEN 0
    ELSE Between(Horizon(d) - (IF Stalled(d) THEN 90 ELSE 0), 0, Full)

(* _score_one: distinct keywords, two buyers, an action item of ours, and  *)
(* a negative keyword.                                                     *)
KeywordScore(d) ==
    IF d.calls.n = 0 THEN 0
    ELSE Between(20 * d.calls.hits + (IF d.calls.buyers >= 2 THEN 90 ELSE 0)
                   + (IF d.calls.items > 0 THEN 60 ELSE 0) - (IF d.calls.bad > 0 THEN 90 ELSE 0),
                 0, Full)

(* _in_ambiguous_range.                                                    *)
Ambiguous(x) == x \in 120 .. 180

(* score_call_intel: the classifier may be absent, fail, or not see a deal *)
(* outside the twenty largest; _apply_classifier_verdict halves the two.   *)
CallSignal(d, v) ==
    IF v # Blank /\ Ambiguous(KeywordScore(d)) THEN (KeywordScore(d) + v) \div 2
    ELSE KeywordScore(d)

-----------------------------------------------------------------------------
(* The score                                                               *)

(* int(round(x / 300)), half to even.                                      *)
RoundedScore(x) ==
    LET q == x \div 300
        r == x % 300 IN
    IF r > 150 \/ (r = 150 /\ q % 2 = 1) THEN q + 1 ELSE q

(* score_deal.                                                             *)
Score(d, v) ==
    RoundedScore(Between(Weights.icp * Icp(d) + Weights.stage * StagePillar(d)
                           + Weights.activity * Activity(d) + Weights.timeline * Timeline(d)
                           + Weights.call * CallSignal(d, v), 0, 30000))

(* score_to_band: the probability, in hundredths, by PROBABILITY_BANDS.    *)
Probability(score) ==
    CASE score >= 80 -> 80 [] score \in 60 .. 79 -> 50 [] score \in 40 .. 59 -> 22
      [] score \in 20 .. 39 -> 10 [] OTHER -> 3

(* compute_risk_flags.                                                     *)
SilentFor(d, days) == d.idle # Blank /\ Idle(d) > days

Flags(d) ==
    {f \in {"STAGE_MISMATCH"} : StageMismatch(d)}
    \union {f \in {"NO_ENGAGEMENT"} : SilentFor(d, 30)}
    \union {f \in {"ENTERPRISE_STALL"} : d.ent /\ Late(d) /\ SilentFor(d, 45)}
    \union {f \in {"ZOMBIE"} : SilentFor(d, 90) /\ d.turned # Blank /\ d.turned > 90}
    \union {f \in {"ORPHANED"} : d.owner = "unassigned" \/ ~ d.contacts}
    \union {f \in {"ACV_MISSING"} : d.acv =< 0}
    \union {f \in {"NO_PRODUCTS"} : ~ d.products}
    \union {f \in {"REP_RISK"} : d.owner \in RiskyOwners /\ d.owner # "unassigned"}

-----------------------------------------------------------------------------
(* The forecast                                                            *)

NoDeal == [owner |-> "none"]
EmptyBucket == [commit |-> 0, best |-> 0, weighted |-> 0, count |-> 0]
NoReport == [risky |-> {}, team |-> FALSE, made |-> FALSE]

ForecastInit ==
    /\ deal = NoDeal /\ verdict = Blank
    /\ rollup = [o \in Owners |-> EmptyBucket]
    /\ totals = EmptyBucket
    /\ quotaReport = NoReport

(* score_all takes the next deal, with what its calls are worth.           *)
TakeDeal ==
    /\ deal = NoDeal /\ ~ quotaReport.made /\ totals.count < MaxDeals
    /\ deal' \in Offered /\ verdict' \in Verdicts \union {Blank}
    /\ UNCHANGED <<rollup, totals, quotaReport>>

(* _accumulate.                                                            *)
Accumulated(bucket, acv, score) ==
    [commit |-> bucket.commit + (IF score >= 80 THEN acv ELSE 0),
     best |-> bucket.best + (IF score >= 50 THEN acv ELSE 0),
     weighted |-> bucket.weighted + acv * Probability(score),
     count |-> bucket.count + 1]

(* roll_up's loop.                                                         *)
RollUp ==
    LET score == Score(deal, verdict) IN
    /\ deal # NoDeal
    /\ rollup' = [rollup EXCEPT ![deal.owner] = Accumulated(@, deal.acv, score)]
    /\ totals' = Accumulated(totals, deal.acv, score)
    /\ deal' = NoDeal /\ verdict' = Blank
    /\ UNCHANGED quotaReport

(* at_risk: past the middle of the quarter, and short by more than 30%.    *)
AtRisk(quota, weighted, elapsed) ==
    elapsed > 40 /\ quota > 0 /\ 100 * quota - weighted > 30 * quota

(* The sums of f over the sets of its domain.                             *)
Sums(f) ==
    LET sum[part \in SUBSET DOMAIN f] ==
            IF part = {} THEN 0
            ELSE LET x == CHOOSE y \in part : TRUE IN f[x] + sum[part \ {x}]
    IN sum
Sum(f) == Sums(f)[DOMAIN f]

(* quotas.get.                                                             *)
QuotaOf == [o \in Owners |-> IF o \in DOMAIN Quotas THEN Quotas[o] ELSE 0]

(* build_quota_report.                                                     *)
BuildQuotaReport(elapsed) ==
    /\ deal = NoDeal /\ ~ quotaReport.made
    /\ quotaReport' = [made |-> TRUE,
                       risky |-> {o \in Owners :
                                    AtRisk(QuotaOf[o], rollup[o].weighted, elapsed)},
                       team |-> AtRisk(Sum(QuotaOf), totals.weighted, elapsed)]
    /\ UNCHANGED <<deal, verdict, rollup, totals>>

ForecastNext ==
    \/ TakeDeal \/ RollUp
    \/ \E e \in Elapsed : BuildQuotaReport(e)

ForecastSpec == ForecastInit /\ [][ForecastNext]_forecastVars

-----------------------------------------------------------------------------

ForecastTypeOK ==
    /\ deal.owner \in Owners \union {"none"} /\ verdict \in Verdicts \union {Blank}
    /\ \A o \in Owners : rollup[o].count =< totals.count
    /\ totals.count =< MaxDeals
    /\ quotaReport.risky \subseteq DOMAIN Quotas

(* What may be left of the calls once the window has moved by a day.       *)
CallsLeft(calls) == [n : 0 .. calls.n, hits : 0 .. calls.hits, buyers : 0 .. calls.buyers,
                     items : 0 .. calls.items, bad : 0 .. calls.bad]

DayLater(d, left) ==
    LET older(x) == IF x = Blank THEN Blank ELSE x + 1 IN
    [d EXCEPT !.idle = older(@), !.inStage = older(@), !.turned = older(@), !.calls = left,
              !.due = IF @ = Blank THEN Blank ELSE @ - 1]

(* A deal that nothing happens to does not score higher a day later,       *)
(* unless its close date comes nearer through the middle band, or the last *)
(* call with a negative keyword leaves the window of fourteen days: that   *)
(* lifts at most the penalty's share of the call pillar.  A classifier     *)
(* that has a say may say something else about fewer calls (score_deal,    *)
(* timeline's ramp, CALL_LOOKBACK_DAYS, CALL_NEGATIVE_PENALTY).            *)
SilenceNeverHelps ==
    (deal # NoDeal /\ deal.due \notin 31 .. 91) =>
        \A left \in CallsLeft(deal.calls) :
            (left = deal.calls \/ verdict = Blank) =>
                Score(DayLater(deal, left), verdict)
                    =< Score(deal, verdict)
                       + (IF deal.calls.bad > 0 /\ left.bad = 0
                          THEN (90 * Weights.call) \div 300 + 1 ELSE 0)

(* Nobody's forecast is a strong commit without a score of Salesforce's or *)
(* a call that was heard: the proxy's cap and the three other pillars do   *)
(* not reach it (ICP_PROXY_CAP, COMMIT_SCORE_THRESHOLD), as long as the    *)
(* tuner leaves the two signals enough weight; the seed weights give 55.   *)
StrongNeedsASignal ==
    (deal # NoDeal /\ Score(deal, verdict) >= 80 /\ Weights.icp + 2 * Weights.call > 41)
        => deal.icp # Blank \/ deal.calls.n > 0

(* The flags tell why a score fell: the stall that the timeline docks is   *)
(* flagged, no zombie and no stalled enterprise deal is without            *)
(* NO_ENGAGEMENT, and that flag means at most a fifth of the activity      *)
(* pillar (risk_flags.py, "mirrors the timeline pillar's stall penalty").  *)
FlagsTellTheScore ==
    deal # NoDeal =>
        /\ (deal.due # Blank /\ Timeline(deal) < Horizon(deal)) => "STAGE_MISMATCH" \in Flags(deal)
        /\ Flags(deal) \intersect {"ZOMBIE", "ENTERPRISE_STALL"} # {}
             => "NO_ENGAGEMENT" \in Flags(deal)
        /\ "NO_ENGAGEMENT" \in Flags(deal) => Activity(deal) =< 60

(* The recency bonus and the silence penalty never change a score: the     *)
(* pillar is full before the one and empty before the other (activity,     *)
(* RECENT_TOUCH_BONUS, SILENCE_PENALTY).                                   *)
BonusAndPenaltyAreLost ==
    (deal # NoDeal /\ deal.idle # Blank) => Activity(deal) = 12 * BandScore(Idle(deal))

(* The classifier moves no deal out of the middle: what it has a say in    *)
(* stays between 60 and 240 of 300 (CALL_CLASSIFIER_AMBIGUOUS_RANGE).      *)
VerdictIsATiebreak ==
    (deal # NoDeal /\ CallSignal(deal, verdict) # KeywordScore(deal))
        => CallSignal(deal, verdict) \in 60 .. 240

(* A team at risk has an owner at risk, or one whose deals are worth less  *)
(* than nothing and who has no quota: else the deals of owners without a   *)
(* quota, and one owner's surplus, only ever hide a gap                    *)
(* (build_quota_report).                                                   *)
TeamRiskHasAnOwner ==
    quotaReport.team =>
        \/ quotaReport.risky # {}
        \/ \E o \in Owners : QuotaOf[o] = 0 /\ rollup[o].weighted < 0

(* No deal is lost between owners and totals (_UNASSIGNED).                *)
TotalsAreTheOwners ==
    /\ totals.weighted = Sum([o \in Owners |-> rollup[o].weighted])
    /\ totals.commit = Sum([o \in Owners |-> rollup[o].commit])

(* What the forecast may be relied on for.                                 *)
ForecastInv ==
    /\ ForecastTypeOK /\ SilenceNeverHelps /\ StrongNeedsASignal /\ FlagsTellTheScore
    /\ BonusAndPenaltyAreLost /\ VerdictIsATiebreak /\ TeamRiskHasAnOwner /\ TotalsAreTheOwners
=============================================================================
