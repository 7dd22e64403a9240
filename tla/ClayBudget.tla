----------------------------- MODULE ClayBudget -----------------------------
(***************************************************************************)
(* CreditBudget of agents/top_of_funnel/enrichment/clay_client.py: the     *)
(* month's ledger of Clay credits with its alerts at 80% and 100%.  The    *)
(* SELECT of spend and its UPDATE are two statements, the mark of a        *)
(* refused request is a transaction of its own, and the alerts go out      *)
(* after the commit.                                                       *)
(***************************************************************************)
EXTENDS Naturals, FiniteSets

CONSTANTS
    Spenders,       \* processes that enrich contacts
    Months,
    Requests,       \* credits asked for at once
    Caps,           \* CLAY_MONTHLY_BUDGET_CREDITS before and after a top-up
    MaxSpends       \* bound

ASSUME CapsAssumption == Caps \subseteq Nat \ {0} /\ Requests \subseteq Nat /\ Months # {}

VARIABLES
    budget,     \* monthly_cap, read from the environment
    ledger,     \* clay_credit_ledger: month -> row
    spender,    \* what each process has read
    used,       \* history: month -> credits really spent
    told80,     \* history: month -> alerts at 80%
    told100,
    mixed,      \* history: months in which two requests overlapped
    muted,      \* history: months in which a process died before its alert
    spends

clayVars == <<budget, ledger, spender, used, told80, told100, mixed, muted, spends>>

ResetSpender == [step |-> "idle", month |-> CHOOSE m \in Months : TRUE, credits |-> 0,
                 before |-> 0, seen80 |-> FALSE, seen100 |-> FALSE]

ClayInit ==
    /\ budget \in Caps
    /\ ledger = [m \in Months |-> [consumed |-> 0, at80 |-> FALSE, at100 |-> FALSE]]
    /\ spender = [p \in Spenders |-> ResetSpender]
    /\ used = [m \in Months |-> 0]
    /\ told80 = [m \in Months |-> 0]
    /\ told100 = [m \in Months |-> 0]
    /\ mixed = {}
    /\ muted = {}
    /\ spends = 0

-----------------------------------------------------------------------------

(* _ensure_row and the SELECT of spend.                                    *)
SelectBudget(p, m, n) ==
    /\ spender[p].step = "idle" /\ spends < MaxSpends
    /\ spends' = spends + 1
    /\ spender' = [spender EXCEPT ![p] =
                     [step |-> "read", month |-> m, credits |-> n,
                      before |-> ledger[m].consumed,
                      seen80 |-> ledger[m].at80, seen100 |-> ledger[m].at100]]
    /\ mixed' = IF \E o \in Spenders \ {p} : spender[o].step = "read" /\ spender[o].month = m
                THEN mixed \union {m} ELSE mixed
    /\ UNCHANGED <<budget, ledger, used, told80, told100, muted>>

After(p) == spender[p].before + spender[p].credits

(* A mark that forgets who was told.                                       *)
Crosses80_Always(p) == 5 * After(p) >= 4 * budget

(* Which thresholds a request reaches that nobody has been told of.        *)
Crosses80(p) == /\ 5 * spender[p].before < 4 * budget /\ 4 * budget =< 5 * After(p)
                /\ ~ spender[p].seen80
Reaches100(p) == After(p) = budget /\ ~ spender[p].seen100

(* Within the cap: the sum as it was read, and the marks.                  *)
ApplySpend(p) ==
    LET m == spender[p].month IN
    /\ spender[p].step = "read" /\ After(p) =< budget
    /\ ledger' = [ledger EXCEPT ![m] = [consumed |-> After(p),
                                        at80 |-> ledger[m].at80 \/ Crosses80(p),
                                        at100 |-> ledger[m].at100 \/ Reaches100(p)]]
    /\ used' = [used EXCEPT ![m] = @ + spender[p].credits]
    /\ spender' = [spender EXCEPT ![p].step = "alert",
                                  ![p].seen80 = ~ Crosses80(p),
                                  ![p].seen100 = ~ Reaches100(p)]
    /\ UNCHANGED <<budget, told80, told100, mixed, muted, spends>>

(* Over the cap: the mark, if there was none, and ClayBudgetExceeded.      *)
RefuseSpend(p) ==
    LET m == spender[p].month IN
    /\ spender[p].step = "read" /\ After(p) > budget
    /\ ledger' = [ledger EXCEPT ![m].at100 = @ \/ ~ spender[p].seen100]
    /\ spender' = [spender EXCEPT ![p].step = "alert", ![p].seen80 = TRUE]
    /\ UNCHANGED <<budget, used, told80, told100, mixed, muted, spends>>

(* _alert, for the marks this request made.                                *)
Alert(p) ==
    LET m == spender[p].month IN
    /\ spender[p].step = "alert"
    /\ told80' = IF spender[p].seen80 THEN told80 ELSE [told80 EXCEPT ![m] = @ + 1]
    /\ told100' = IF spender[p].seen100 THEN told100 ELSE [told100 EXCEPT ![m] = @ + 1]
    /\ spender' = [spender EXCEPT ![p] = ResetSpender]
    /\ UNCHANGED <<budget, ledger, used, mixed, muted, spends>>

KillSpender(p) ==
    /\ spender[p].step # "idle"
    /\ muted' = IF spender[p].step = "alert" THEN muted \union {spender[p].month} ELSE muted
    /\ spender' = [spender EXCEPT ![p] = ResetSpender]
    /\ UNCHANGED <<budget, ledger, used, told80, told100, mixed, spends>>

(* A restart with another cap.                                             *)
TopUp(c) ==
    /\ c > budget /\ \A p \in Spenders : spender[p].step = "idle"
    /\ budget' = c
    /\ UNCHANGED <<ledger, spender, used, told80, told100, mixed, muted, spends>>

ClayNext ==
    \/ \E p \in Spenders :
        \/ \E m \in Months, n \in Requests : SelectBudget(p, m, n)
        \/ ApplySpend(p) \/ RefuseSpend(p) \/ Alert(p) \/ KillSpender(p)
    \/ \E c \in Caps : TopUp(c)

ClaySpec == ClayInit /\ [][ClayNext]_clayVars

-----------------------------------------------------------------------------

ClayTypeOK ==
    /\ budget \in Caps
    /\ ledger \in [Months -> [consumed : Nat, at80 : BOOLEAN, at100 : BOOLEAN]]
    /\ \A p \in Spenders : /\ spender[p].step \in {"idle", "read", "alert"}
                           /\ spender[p].month \in Months /\ spender[p].before \in Nat
    /\ used \in [Months -> Nat] /\ mixed \subseteq Months /\ muted \subseteq Months
    /\ told80 \in [Months -> Nat] /\ told100 \in [Months -> Nat]

(* Spending past a threshold is announced, and once: over any number of    *)
(* requests, refusals, kills and top-ups, a month in which no two requests *)
(* overlapped has one alert for each threshold that was crossed, unless    *)
(* the process died between its commit and its alert; and its ledger is    *)
(* what was spent, within the cap (CreditBudget.spend, "fires exactly once *)
(* per threshold per month").                                              *)
ThresholdsAnnounced ==
    \A m \in Months \ mixed :
        /\ used[m] = ledger[m].consumed /\ used[m] =< budget
        /\ told80[m] =< 1 /\ told100[m] =< 1
        /\ (m \notin muted /\ \A p \in Spenders : spender[p].step = "idle") =>
               /\ 5 * used[m] >= 4 * budget => told80[m] = 1
               /\ used[m] = budget => told100[m] = 1

(* What the credit budget keeps: its ledger and its two announcements      *)
(* (CreditBudget.spend).                                                   *)
ClayInv == ClayTypeOK /\ ThresholdsAnnounced
=============================================================================
