--------------------------- MODULE ProspectScores ---------------------------
(***************************************************************************)
(* The two scores that decide who is worked on: the fit of a prospect      *)
(* (top_of_funnel/icp_scorer.py, with the points of icp_weights.yaml) and  *)
(* the churn risk of a customer (cs/risk/scoring.py).                      *)
(*                                                                         *)
(* Contributions to a risk are in hundredths, as scoring.py rounds them.   *)
(* A state is one prospect or one customer with its score.                 *)
(***************************************************************************)
EXTENDS Integers, FiniteSets

CONSTANTS
    Locations,      \* location counts that occur, Unknown among them
    Stacks,         \* sets of integrations that occur
    Healths,        \* health scores that occur, Unknown among them
    CaseCounts      \* pairs of cases of the last and the prior 30 days

ASSUME ScoresAssumption ==
    /\ Locations \subseteq Nat
    /\ Healths \subseteq 0 .. 100 \union {999} /\ CaseCounts \subseteq Nat \X Nat

VARIABLES
    prospect, fit,      \* an account, and its total and tier
    customer, risk      \* an account's inputs, and its score, tier and factors

scoreVars == <<prospect, fit, customer, risk>>

Unknown == 999

-----------------------------------------------------------------------------
(* icp_scorer.py                                                           *)

OwnershipPoints == [franchise_group_multi_brand |-> 25, franchise_group_single_brand |-> 18,
                    single_brand_franchisee |-> 10, independent |-> 0, unknown |-> 0]
VerticalPoints == [QSR |-> 20, Fast_Casual |-> 15, Casual_Dining |-> 8, Fine_Dining |-> 3,
                   Other |-> 0, unknown |-> 0]
GrowthKinds == {"recent_ma_activity", "funding_round_last_12mo", "new_openings_velocity"}

Prospects == [ownership : DOMAIN OwnershipPoints, locations : Locations,
              vertical : DOMAIN VerticalPoints, growth : SUBSET GrowthKinds,
              stack : Stacks, products : BOOLEAN]

(* _score_location_count; the lowest band begins at no location at all.    *)
LocationPoints(n) ==
    CASE n = Unknown -> 0 [] n >= 50 /\ n # Unknown -> 25 [] n \in 10 .. 49 -> 18
      [] n \in 3 .. 9 -> 10 [] OTHER -> 3

(* The points of a kind that is there, and a sum as far as a maximum.      *)
Points(kind, found, points) == IF kind \in found THEN points ELSE 0
Capped(sum, cap) == IF sum > cap THEN cap ELSE sum

GrowthSignals(found) ==
    Capped(Points("recent_ma_activity", found, 10) + Points("funding_round_last_12mo", found, 6)
             + Points("new_openings_velocity", found, 4), 20)

TechStack(found) ==
    Capped(Points("pos_toast", found, 5) + Points("pos_square", found, 5)
             + Points("pos_other_integrated", found, 3)
             + Points("modern_loyalty_platform", found, 3)
             + Points("delivery_platform_integrated", found, 2), 10)

(* Bonus, and the five dimensions of score_account.                        *)
IcpSignals(p) ==
    [ownership |-> OwnershipPoints[p.ownership], location_count |-> LocationPoints(p.locations),
     brand_vertical |-> VerticalPoints[p.vertical],
     growth_signals |-> GrowthSignals(p.growth),
     tech_stack_fit |-> TechStack(p.stack),
     product_attach |-> IF p.products THEN 5 ELSE 0]

SumOfSignals(s) ==
    s.ownership + s.location_count + s.brand_vertical + s.growth_signals + s.tech_stack_fit
    + s.product_attach

IcpTier(total) ==
    CASE total >= 70 -> "A"
      [] total \in 45 .. 69 -> "B"
      [] total \in 25 .. 44 -> "C"
      [] OTHER -> "D"

Fit(p) ==
    LET total == SumOfSignals(IcpSignals(p)) IN [total |-> total, tier |-> IcpTier(total)]

-----------------------------------------------------------------------------
(* scoring.py                                                              *)

Customers == [health : Healths, before : Healths,
              nps : {"detractor", "passive", "promoter", "unknown"},
              cases : CaseCounts, renewal : {Unknown, 120, 121}, call : {Unknown, 44, 45},
              activity : {Unknown, 60, 120, 180}]

(* A ratio from nought to one of a weight, in hundredths, to the nearest   *)
(* (score_account's round(v * weight, 2)).                                 *)
Share(weight, part, whole) ==
    IF part < 0 THEN 0
    ELSE IF part > whole THEN 100 * weight ELSE (200 * weight * part + whole) \div (2 * whole)

HealthDrop(c) ==
    IF c.health = Unknown \/ c.before \in {0, Unknown} THEN 0
    ELSE Share(35, 2 * (c.before - c.health), c.before)

(* A health that is not known counted as none at all.                      *)
HealthLow_Worst(c) == IF c.health = Unknown THEN 2000 ELSE Share(20, 100 - c.health, 100)

(* _norm_health_absolute.                                                  *)
HealthLow(c) == IF c.health = Unknown THEN 0 ELSE Share(20, 100 - c.health, 100)

NpsPart(c) ==
    CASE c.nps = "detractor" -> 1000 [] c.nps = "passive" -> 400 [] c.nps = "promoter" -> 0
      [] OTHER -> 300

(* _norm_case_spike, of the cases of the last and of the prior 30 days.    *)
CaseSpike(c) ==
    IF c.cases[2] = 0 THEN (IF c.cases[1] >= 3 THEN 1500 ELSE 0)
    ELSE Share(15, c.cases[1] - c.cases[2], c.cases[2])

RenewalQuiet(c) ==
    IF c.renewal =< 120 /\ (c.call = Unknown \/ c.call >= 45) THEN 1500 ELSE 0

Stagnation(c) == IF c.activity = Unknown THEN 0 ELSE Share(5, c.activity - 60, 120)

Contributions(c) ==
    [health_drop |-> HealthDrop(c), health_absolute_low |-> HealthLow(c), nps |-> NpsPart(c),
     case_spike |-> CaseSpike(c), renewal_no_conversation |-> RenewalQuiet(c),
     stagnation |-> Stagnation(c)]

SumOfContributions(s) ==
    s.health_drop + s.health_absolute_low + s.nps + s.case_spike + s.renewal_no_conversation
    + s.stagnation

(* round(), which takes a half to the even side.                           *)
Rounded(hundredths) ==
    LET whole == hundredths \div 100
        rest == hundredths % 100
    IN IF rest > 50 \/ (rest = 50 /\ whole % 2 = 1) THEN whole + 1 ELSE whole

TierFor(score) ==
    CASE score >= 85 -> 85 [] score \in 70 .. 84 -> 70 [] score \in 50 .. 69 -> 50 [] OTHER -> 0

Factors(c) == Cardinality({k \in DOMAIN Contributions(c) : Contributions(c)[k] > 0})

Risk(c) ==
    LET score == Rounded(SumOfContributions(Contributions(c)))
    IN [score |-> score, tier |-> TierFor(score), factors |-> Factors(c)]

-----------------------------------------------------------------------------

NoProspect == [ownership |-> "unknown", locations |-> Unknown, vertical |-> "unknown",
               growth |-> {}, stack |-> {}, products |-> FALSE]
NoCustomer == [health |-> Unknown, before |-> Unknown, nps |-> "unknown", cases |-> <<0, 0>>,
               renewal |-> Unknown, call |-> Unknown, activity |-> Unknown]

ScoresInit ==
    /\ prospect = NoProspect /\ fit = Fit(NoProspect)
    /\ customer = NoCustomer /\ risk = Risk(NoCustomer)

(* score_domain, of the newest candidate of the domain.                    *)
ScoreProspect ==
    /\ prospect = NoProspect /\ customer = NoCustomer
    /\ \E p \in Prospects : prospect' = p /\ fit' = Fit(p)
    /\ UNCHANGED <<customer, risk>>

ScoreCustomer ==
    /\ prospect = NoProspect /\ customer = NoCustomer
    /\ \E c \in Customers : customer' = c /\ risk' = Risk(c)
    /\ UNCHANGED <<prospect, fit>>

ScoresNext == ScoreProspect \/ ScoreCustomer

ScoresSpec == ScoresInit /\ [][ScoresNext]_scoreVars

-----------------------------------------------------------------------------

ScoresTypeOK ==
    /\ fit.total \in 0 .. 105 /\ fit.tier \in {"A", "B", "C", "D"}
    /\ risk.score \in 0 .. 100 /\ risk.tier \in {0, 50, 70, 85} /\ risk.factors \in 0 .. 6

(* What is not known about a prospect never helps it, and no two           *)
(* dimensions make up for all the others: tier A stands on three of six    *)
(* points or more (score_account).                                         *)
UnknownNeverHelps ==
    prospect # NoProspect =>
    /\ \A k \in DOMAIN NoProspect : Fit([prospect EXCEPT ![k] = NoProspect[k]]).total =< fit.total
    /\ fit.tier = "A" =>
         Cardinality({k \in DOMAIN IcpSignals(prospect) : IcpSignals(prospect)[k] >= 6}) >= 3

(* A customer of whom no health is stored never sets off an alarm,         *)
(* whatever else is wrong (scoring.py, the two health factors are 55 of    *)
(* the 100 points).  While the health source is out the last score stands; *)
(* it is an account without a score there, or matched to none, that is     *)
(* never alarming.                                                         *)
NoHealthNoAlarm == customer.health = Unknown => risk.tier = 0

(* An alert's score rests on three factors at least, so that the guard of  *)
(* churn_risk.py against a single one never holds an alert back.           *)
AlertsRestOnThree == risk.tier >= 70 => risk.factors >= 3

(* A worse signal is never a lower risk: less health, more cases, a longer *)
(* silence, a worse answer (score_account).                                *)
WorseIsNoBetter ==
    customer # NoCustomer =>
    \A c \in {[customer EXCEPT !.nps = "detractor"], [customer EXCEPT !.activity = 180],
              [customer EXCEPT !.cases = <<customer.cases[1] + 1, customer.cases[2]>>]}
        \union {[customer EXCEPT !.health = h] :
                    h \in {g \in Healths : g < customer.health /\ customer.health # Unknown}} :
        Risk(c).score >= risk.score

(* What the scores keep.                                                   *)
ScoresInv == /\ ScoresTypeOK /\ UnknownNeverHelps /\ NoHealthNoAlarm /\ AlertsRestOnThree
             /\ WorseIsNoBetter
=============================================================================
