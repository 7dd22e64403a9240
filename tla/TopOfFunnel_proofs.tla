------------------------- MODULE TopOfFunnel_proofs -------------------------
(***************************************************************************)
(* What Top of Funnel keeps for every number of addresses, accounts,       *)
(* processes, SDRs, months and kills: suppression (SuppressionInv), the    *)
(* credit budget (ClayInv), the night's run with the morning's briefing    *)
(* (LeadInv), and the rotation of a segment (RoutingInv).  Each has an     *)
(* inductive invariant, one lemma for every action, and a theorem.         *)
(***************************************************************************)
EXTENDS SuppressionCache, ClayBudget, LeadPipeline, LeadRouting, FiniteSetTheorems,
        TLAPS

-----------------------------------------------------------------------------
(* Suppression *)

(* The week that a manual opt-out of this address holds for.               *)
InWeek(e) == manual[e] # Never /\ hour =< manual[e] + CacheHours

(* Nothing is dated later than now.                                        *)
Dated ==
    \A e \in Emails :
        /\ cache[e] # NoRow => cache[e].at =< hour
        /\ manual[e] # Never => manual[e] =< hour
        /\ blocked[e] # Never => blocked[e] =< hour

(* In the week of a manual opt-out there is a row at least as young: what  *)
(* others write over it is younger, and clear_expired spares it.           *)
RowInWeek == \A e \in Emails : InWeek(e) => cache[e] # NoRow /\ cache[e].at >= manual[e]

(* A check under way that a manual opt-out did not meet on its way looked  *)
(* the address up when no such week ran.                                   *)
OnTime ==
    \A p \in Checkers :
        (checks[p].step \in {"ask", "store"} /\ ~ checks[p].late) => ~ InWeek(checks[p].email)

(* A row that clears an address, and a check that is about to write one,   *)
(* come from before the org ruled the address out.                         *)
ClearRows ==
    \A e \in Emails :
        (cache[e] # NoRow /\ ~ cache[e].suppressed /\ blocked[e] # Never)
            => cache[e].at =< blocked[e]
ClearStores ==
    \A p \in Checkers :
        (/\ checks[p].step = "store" /\ ~ checks[p].result.suppressed
         /\ blocked[checks[p].email] # Never) => hour =< blocked[checks[p].email]

SuppressionIInv == /\ SuppressionTypeOK /\ Dated
        /\ RowInWeek /\ OnTime /\ ManualHolds
        /\ ClearRows /\ ClearStores /\ OptOutIsSeen

-----------------------------------------------------------------------------
(* Types *)

LEMMA IdleCheckType == Idle \in Check /\ Idle.step = "idle"
<1>1. (CHOOSE e \in Emails : TRUE) \in Emails
  BY EmailsAssumption
<1>2. QED
  BY <1>1 DEF Idle, NoCheck, Check, Result, Clear, Sources

LEMMA VerdictType == ASSUME NEW e \in Emails PROVE Verdict(e) \in Result
  BY DEF Verdict, Clear, Result, Sources

LEMMA CachedType ==
  ASSUME SuppressionTypeOK, NEW e \in Emails, cache[e] # NoRow
  PROVE  Cached(e) \in Result
  BY DEF SuppressionTypeOK, Row, Cached, Result

(* What is written is a row.                                               *)
LEMMA WrittenRow ==
  ASSUME NEW r \in Result, NEW h \in Hours
  PROVE  /\ [suppressed |-> r.suppressed, source |-> r.source, at |-> h] \in Row
         /\ [suppressed |-> r.suppressed, source |-> r.source, at |-> h] # NoRow
  BY DEF Result, Row, NoRow, Sources

LEMMA ClockType ==
  /\ Hours \subseteq Nat /\ Never \in Nat /\ Never \notin Hours /\ CacheHours \in Nat
  BY CacheAssumption DEF Hours, Never

LEMMA InitSuppression == SuppressionInit => SuppressionIInv
<1> SUFFICES ASSUME SuppressionInit PROVE SuppressionIInv
  OBVIOUS
<1>1. 0 \in Hours
  BY CacheAssumption DEF Hours
<1>2. SuppressionTypeOK
  BY <1>1, IdleCheckType DEF SuppressionInit, SuppressionTypeOK, Row
<1>3. \A p \in Checkers : checks[p].step = "idle"
  BY IdleCheckType DEF SuppressionInit
<1>4. QED
  BY <1>2, <1>3 DEF SuppressionInit, SuppressionIInv, Dated, RowInWeek, InWeek, OnTime, ManualHolds,
     ClearRows, ClearStores, OptOutIsSeen

-----------------------------------------------------------------------------
(* One lemma for each step *)

LEMMA LookupStep ==
  ASSUME SuppressionIInv, NEW p \in Checkers, NEW e \in Emails, Lookup(p, e)
  PROVE  SuppressionIInv'
<1> DEFINE C == checks[p]'
<1>1. /\ checks' = [checks EXCEPT ![p] = C] /\ C.email = e
      /\ \/ Fresh(e) /\ C.step = "answered" /\ C.result = Cached(e) /\ C.late = FALSE
         \/ ~ Fresh(e) /\ C.step = "ask" /\ C.result = Clear /\ C.late = FALSE
      /\ C \in Check
  <2>1. CASE Fresh(e)
    <3>1. Cached(e) \in Result
      BY <2>1, CachedType DEF SuppressionIInv, Fresh
    <3>2. QED
      BY <2>1, <3>1 DEF Lookup, SuppressionIInv, SuppressionTypeOK, Check
  <2>2. CASE ~ Fresh(e)
    BY <2>2 DEF Lookup, SuppressionIInv, SuppressionTypeOK, Check, NoCheck, Result, Clear, Sources
  <2>3. QED
    BY <2>1, <2>2
<1>2. UNCHANGED <<cache, blocked, hour, manual, overtaken>>
  BY DEF Lookup
<1>3. \A q \in Checkers : checks'[q] = IF q = p THEN C ELSE checks[q]
  BY <1>1 DEF SuppressionIInv, SuppressionTypeOK
<1>4. SuppressionTypeOK'
  BY <1>1, <1>2 DEF SuppressionIInv, SuppressionTypeOK
<1>5. Dated' /\ RowInWeek' /\ ManualHolds' /\ ClearRows'
  BY <1>2 DEF SuppressionIInv, Dated, RowInWeek, InWeek, ManualHolds, ClearRows
<1>6. ~ Fresh(e) => ~ InWeek(e)
  <2>1. InWeek(e) => cache[e] # NoRow /\ cache[e].at >= manual[e]
    BY DEF SuppressionIInv, RowInWeek
  <2>2. hour \in Nat /\ manual[e] \in Nat /\ (cache[e] # NoRow => cache[e].at \in Nat)
    BY ClockType DEF SuppressionIInv, SuppressionTypeOK, Row
  <2>3. QED
    BY <2>1, <2>2, ClockType DEF InWeek, Fresh
<1>7. OnTime'
  BY <1>1, <1>2, <1>3, <1>6 DEF SuppressionIInv, OnTime, InWeek
<1>8. ClearStores'
  BY <1>1, <1>2, <1>3 DEF SuppressionIInv, ClearStores
<1>9. OptOutIsSeen'
  <2>1. ASSUME Fresh(e), ~ Cached(e).suppressed, blocked[e] # Never
        PROVE  hour =< blocked[e] + CacheHours
    <3>1. cache[e].at =< blocked[e] /\ cache[e].at + CacheHours >= hour
      BY <2>1 DEF SuppressionIInv, ClearRows, Fresh, Cached
    <3>2. hour \in Nat /\ blocked[e] \in Nat /\ cache[e].at \in Nat
      BY <2>1, ClockType DEF SuppressionIInv, SuppressionTypeOK, Row, Fresh
    <3>3. QED
      BY <3>1, <3>2, ClockType
  <2>2. QED
    BY <1>1, <1>2, <1>3, <2>1 DEF SuppressionIInv, OptOutIsSeen
<1>10. QED
  BY <1>4, <1>5, <1>7, <1>8, <1>9 DEF SuppressionIInv

LEMMA AskStep ==
  ASSUME SuppressionIInv, NEW p \in Checkers, AskSalesforce(p)
  PROVE  SuppressionIInv'
<1> DEFINE C == checks[p]'
           e == checks[p].email
<1>0. checks[p] \in Check /\ e \in Emails /\ checks[p].step = "ask"
  BY DEF AskSalesforce, SuppressionIInv, SuppressionTypeOK, Check
<1>1. /\ checks' = [checks EXCEPT ![p] = C] /\ C.email = e /\ C.late = checks[p].late
      /\ C \in Check
      /\ \/ C.step = "answered" /\ C.result = FailOpen
         \/ C.step = "store" /\ C.result = Verdict(e)
  <2>1. CASE checks' = [checks EXCEPT ![p].step = "answered", ![p].result = FailOpen]
    <3>1. C = [checks[p] EXCEPT !.step = "answered", !.result = FailOpen]
      BY <2>1 DEF SuppressionIInv, SuppressionTypeOK
    <3>2. FailOpen \in Result
      BY DEF FailOpen, Result, Sources
    <3>3. QED
      BY <1>0, <2>1, <3>1, <3>2 DEF SuppressionIInv, SuppressionTypeOK, Check
  <2>2. CASE checks' = [checks EXCEPT ![p].step = "store", ![p].result = Verdict(e)]
    <3>1. C = [checks[p] EXCEPT !.step = "store", !.result = Verdict(e)]
      BY <2>2 DEF SuppressionIInv, SuppressionTypeOK
    <3>2. Verdict(e) \in Result
      BY <1>0, VerdictType
    <3>3. QED
      BY <1>0, <2>2, <3>1, <3>2 DEF SuppressionIInv, SuppressionTypeOK, Check
  <2>3. QED
    BY <2>1, <2>2 DEF AskSalesforce
<1>2. UNCHANGED <<cache, blocked, hour, manual, overtaken>>
  BY DEF AskSalesforce
<1>3. \A q \in Checkers : checks'[q] = IF q = p THEN C ELSE checks[q]
  BY <1>1 DEF SuppressionIInv, SuppressionTypeOK
<1>4. SuppressionTypeOK'
  BY <1>1, <1>2 DEF SuppressionIInv, SuppressionTypeOK
<1>5. Dated' /\ RowInWeek' /\ ManualHolds' /\ ClearRows'
  BY <1>2 DEF SuppressionIInv, Dated, RowInWeek, InWeek, ManualHolds, ClearRows
<1>6. OnTime'
  BY <1>0, <1>1, <1>2, <1>3 DEF SuppressionIInv, OnTime, InWeek
<1>7. ClearStores'
  BY <1>1, <1>2, <1>3 DEF SuppressionIInv, ClearStores, Verdict
<1>8. OptOutIsSeen'
  BY <1>1, <1>2, <1>3 DEF SuppressionIInv, OptOutIsSeen, FailOpen
<1>9. QED
  BY <1>4, <1>5, <1>6, <1>7, <1>8 DEF SuppressionIInv

LEMMA WriteStep ==
  ASSUME SuppressionIInv, NEW p \in Checkers, CacheWrite(p)
  PROVE  SuppressionIInv'
<1> DEFINE e == checks[p].email
           row == [suppressed |-> checks[p].result.suppressed,
                   source |-> checks[p].result.source, at |-> hour]
<1>0. /\ checks[p] \in Check /\ e \in Emails /\ checks[p].step = "store"
      /\ checks[p].result \in Result /\ hour \in Hours /\ hour \in Nat
  BY ClockType DEF CacheWrite, SuppressionIInv, SuppressionTypeOK, Check
<1>1. row \in Row /\ row # NoRow
  BY <1>0, WrittenRow
<1>2. /\ \A f \in Emails : cache'[f] = IF f = e THEN row ELSE cache[f]
      /\ cache' \in [Emails -> Row]
  BY <1>0, <1>1 DEF CacheWrite, SuppressionIInv, SuppressionTypeOK
<1>3. /\ checks' = [checks EXCEPT ![p].step = "answered"]
      /\ \A q \in Checkers \ {p} : checks'[q] = checks[q]
      /\ checks'[p].step = "answered" /\ checks'[p].email = e
      /\ checks'[p].result = checks[p].result
      /\ checks' \in [Checkers -> Check]
  BY <1>0 DEF CacheWrite, SuppressionIInv, SuppressionTypeOK, Check
<1>4. /\ UNCHANGED <<blocked, hour, manual>>
      /\ overtaken' = IF checks[p].late THEN overtaken \union {e} ELSE overtaken
  BY DEF CacheWrite
<1>5. SuppressionTypeOK'
  BY <1>0, <1>2, <1>3, <1>4 DEF SuppressionIInv, SuppressionTypeOK
<1>6. Dated'
  BY <1>0, <1>2, <1>4 DEF SuppressionIInv, Dated
<1>7. RowInWeek'
  BY <1>0, <1>1, <1>2, <1>4 DEF SuppressionIInv, Dated, RowInWeek, InWeek
<1>8. OnTime'
  BY <1>3, <1>4 DEF SuppressionIInv, OnTime, InWeek
<1>9. ManualHolds'
  <2>1. ~ checks[p].late => ~ InWeek(e)
    BY <1>0 DEF SuppressionIInv, OnTime
  <2>2. QED
    BY <1>2, <1>4, <2>1 DEF SuppressionIInv, ManualHolds, InWeek
<1>10. ClearRows'
  BY <1>0, <1>2, <1>4 DEF SuppressionIInv, ClearRows, ClearStores
<1>11. ClearStores'
  BY <1>3, <1>4 DEF SuppressionIInv, ClearStores
<1>12. OptOutIsSeen'
  <2>1. ASSUME ~ checks[p].result.suppressed, blocked[e] # Never
        PROVE  hour =< blocked[e] + CacheHours
    <3>1. hour =< blocked[e]
      BY <1>0, <2>1 DEF SuppressionIInv, ClearStores
    <3>2. blocked[e] \in Nat
      BY <1>0, ClockType DEF SuppressionIInv, SuppressionTypeOK
    <3>3. QED
      BY <1>0, <3>1, <3>2, ClockType
  <2>2. QED
    BY <1>3, <1>4, <2>1 DEF SuppressionIInv, OptOutIsSeen
<1>13. QED
  BY <1>5, <1>6, <1>7, <1>8, <1>9, <1>10, <1>11, <1>12 DEF SuppressionIInv

LEMMA AnsweredStep ==
  ASSUME SuppressionIInv, NEW p \in Checkers, Answered(p)
  PROVE  SuppressionIInv'
<1>1. /\ \A q \in Checkers : checks'[q] = IF q = p THEN Idle ELSE checks[q]
      /\ checks' \in [Checkers -> Check]
  BY IdleCheckType DEF Answered, SuppressionIInv, SuppressionTypeOK
<1>2. UNCHANGED <<cache, blocked, hour, manual, overtaken>>
  BY DEF Answered
<1>3. SuppressionTypeOK'
  BY <1>1, <1>2 DEF SuppressionIInv, SuppressionTypeOK
<1>4. Dated' /\ RowInWeek' /\ ManualHolds' /\ ClearRows'
  BY <1>2 DEF SuppressionIInv, Dated, RowInWeek, InWeek, ManualHolds, ClearRows
<1>5. OnTime' /\ ClearStores' /\ OptOutIsSeen'
  BY <1>1, <1>2, IdleCheckType DEF SuppressionIInv, OnTime, InWeek, ClearStores, OptOutIsSeen
<1>6. QED
  BY <1>3, <1>4, <1>5 DEF SuppressionIInv

LEMMA ManualStep ==
  ASSUME SuppressionIInv, NEW e \in Emails, AddManual(e)
  PROVE  SuppressionIInv'
<1> DEFINE row == [suppressed |-> TRUE, source |-> "manual", at |-> hour]
<1>0. hour \in Hours /\ hour \in Nat /\ hour # Never
  BY ClockType DEF SuppressionIInv, SuppressionTypeOK
<1>1. row \in Row /\ row # NoRow
  BY <1>0 DEF Row, NoRow, Sources
<1>2. /\ \A f \in Emails : cache'[f] = IF f = e THEN row ELSE cache[f]
      /\ cache' \in [Emails -> Row]
      /\ \A f \in Emails : manual'[f] = IF f = e THEN hour ELSE manual[f]
      /\ manual' \in [Emails -> Hours \union {Never}]
      /\ overtaken' = overtaken \ {e}
      /\ UNCHANGED <<blocked, hour>>
  BY <1>0, <1>1 DEF AddManual, SuppressionIInv, SuppressionTypeOK
<1>3. /\ \A q \in Checkers : /\ checks'[q].step = checks[q].step
                             /\ checks'[q].email = checks[q].email
                             /\ checks'[q].result = checks[q].result
                             /\ checks'[q].late = \/ checks[q].late
                                                  \/ /\ checks[q].step \in {"ask", "store"}
                                                     /\ checks[q].email = e
      /\ checks' \in [Checkers -> Check]
  BY DEF AddManual, SuppressionIInv, SuppressionTypeOK, Check
<1>4. SuppressionTypeOK'
  BY <1>2, <1>3 DEF SuppressionIInv, SuppressionTypeOK
<1>5. Dated' /\ RowInWeek' /\ ManualHolds' /\ ClearRows'
  BY <1>0, <1>1, <1>2 DEF SuppressionIInv, Dated, RowInWeek, InWeek, ManualHolds, ClearRows
<1>6. \A q \in Checkers : checks[q].email \in Emails
  BY DEF SuppressionIInv, SuppressionTypeOK, Check
<1>7. OnTime'
  BY <1>2, <1>3, <1>6 DEF SuppressionIInv, OnTime, InWeek
<1>8. ClearStores' /\ OptOutIsSeen'
  BY <1>2, <1>3 DEF SuppressionIInv, ClearStores, OptOutIsSeen
<1>9. QED
  BY <1>4, <1>5, <1>7, <1>8 DEF SuppressionIInv

LEMMA ClearStep ==
  ASSUME SuppressionIInv, ClearExpired
  PROVE  SuppressionIInv'
<1>1. /\ \A e \in Emails : cache'[e] = IF cache[e] # NoRow /\ Fresh(e) THEN cache[e] ELSE NoRow
      /\ cache' \in [Emails -> Row]
      /\ UNCHANGED <<blocked, checks, hour, manual, overtaken>>
  BY DEF ClearExpired, SuppressionIInv, SuppressionTypeOK, Row
<1>2. SuppressionTypeOK'
  BY <1>1 DEF SuppressionIInv, SuppressionTypeOK
<1>3. \A e \in Emails : InWeek(e) => cache'[e] = cache[e]
  <2> SUFFICES ASSUME NEW e \in Emails, InWeek(e) PROVE cache[e] # NoRow /\ Fresh(e)
    BY <1>1
  <2>1. cache[e] # NoRow /\ cache[e].at >= manual[e]
    BY DEF SuppressionIInv, RowInWeek
  <2>2. hour \in Nat /\ manual[e] \in Nat /\ cache[e].at \in Nat
    BY <2>1, ClockType DEF SuppressionIInv, SuppressionTypeOK, Row
  <2>3. QED
    BY <2>1, <2>2, ClockType DEF InWeek, Fresh
<1>4. RowInWeek' /\ ManualHolds'
  BY <1>1, <1>3 DEF SuppressionIInv, RowInWeek, ManualHolds, InWeek
<1>5. Dated' /\ ClearRows'
  BY <1>1 DEF SuppressionIInv, Dated, ClearRows
<1>6. OnTime' /\ ClearStores' /\ OptOutIsSeen'
  BY <1>1 DEF SuppressionIInv, OnTime, InWeek, ClearStores, OptOutIsSeen
<1>7. QED
  BY <1>2, <1>4, <1>5, <1>6 DEF SuppressionIInv

LEMMA BlockStep ==
  ASSUME SuppressionIInv, NEW e \in Emails, Block(e)
  PROVE  SuppressionIInv'
<1>0. hour \in Hours /\ hour \in Nat
  BY ClockType DEF SuppressionIInv, SuppressionTypeOK
<1>1. /\ \A f \in Emails : blocked'[f] = IF f = e THEN hour ELSE blocked[f]
      /\ blocked' \in [Emails -> Hours \union {Never}]
      /\ UNCHANGED <<cache, checks, hour, manual, overtaken>>
  BY <1>0 DEF Block, SuppressionIInv, SuppressionTypeOK
<1>2. SuppressionTypeOK'
  BY <1>1 DEF SuppressionIInv, SuppressionTypeOK
<1>3. RowInWeek' /\ ManualHolds' /\ OnTime'
  BY <1>1 DEF SuppressionIInv, RowInWeek, ManualHolds, OnTime, InWeek
<1>4. Dated' /\ ClearRows'
  BY <1>0, <1>1 DEF SuppressionIInv, Dated, ClearRows
<1>5. \A q \in Checkers : checks[q].email \in Emails
  BY DEF SuppressionIInv, SuppressionTypeOK, Check
<1>6. hour =< hour + CacheHours
  BY <1>0, ClockType
<1>7. ClearStores' /\ OptOutIsSeen'
  BY <1>0, <1>1, <1>5, <1>6 DEF SuppressionIInv, ClearStores, OptOutIsSeen
<1>8. QED
  BY <1>2, <1>3, <1>4, <1>7 DEF SuppressionIInv

LEMMA SuppressionHour ==
  ASSUME SuppressionIInv, HourGoes
  PROVE  SuppressionIInv'
<1>0. hour \in Nat /\ MaxHour \in Nat
  BY ClockType, CacheAssumption DEF SuppressionIInv, SuppressionTypeOK
<1>1. /\ hour' = hour + 1 /\ hour' \in Hours
      /\ \A p \in Checkers : checks[p].step = "idle"
      /\ UNCHANGED <<cache, blocked, checks, manual, overtaken>>
  BY <1>0 DEF HourGoes, Hours
<1>2. SuppressionTypeOK'
  BY <1>1 DEF SuppressionIInv, SuppressionTypeOK
<1>3. \A e \in Emails : /\ cache[e] # NoRow => cache[e].at \in Nat
                        /\ manual[e] \in Nat /\ blocked[e] \in Nat
  BY ClockType DEF SuppressionIInv, SuppressionTypeOK, Row
<1>4. Dated'
  BY <1>0, <1>1, <1>3 DEF SuppressionIInv, Dated
<1>5. \A e \in Emails : InWeek(e)' => InWeek(e)
  BY <1>0, <1>1, <1>3, ClockType DEF InWeek
<1>6. RowInWeek' /\ ManualHolds'
  BY <1>1, <1>5 DEF SuppressionIInv, RowInWeek, ManualHolds, InWeek
<1>7. ClearRows'
  BY <1>1 DEF SuppressionIInv, ClearRows
<1>8. OnTime' /\ ClearStores' /\ OptOutIsSeen'
  BY <1>1 DEF OnTime, ClearStores, OptOutIsSeen
<1>9. QED
  BY <1>2, <1>4, <1>6, <1>7, <1>8 DEF SuppressionIInv

LEMMA SuppressionStutter ==
  ASSUME SuppressionIInv, UNCHANGED suppressionVars
  PROVE  SuppressionIInv'
  BY DEF suppressionVars, SuppressionIInv, SuppressionTypeOK, Dated, RowInWeek, InWeek, OnTime,
         ManualHolds, ClearRows, ClearStores, OptOutIsSeen

LEMMA NextSuppression == SuppressionIInv /\ [SuppressionNext]_suppressionVars => SuppressionIInv'
<1> SUFFICES ASSUME SuppressionIInv, [SuppressionNext]_suppressionVars PROVE SuppressionIInv'
  OBVIOUS
<1>1. QED
  BY LookupStep, AskStep, WriteStep, AnsweredStep, ManualStep, ClearStep, BlockStep,
     SuppressionHour, SuppressionStutter DEF SuppressionNext

-----------------------------------------------------------------------------

(* The invariant behind the next theorem: how old the rows are and what    *)
(* the checks under way have read (is_suppressed, add_manual).             *)
THEOREM SuppressionInductive == SuppressionSpec => []SuppressionIInv
<1>1. QED
  BY InitSuppression, NextSuppression, PTL DEF SuppressionSpec

(* Whom O suppresses stays suppressed for the week, unless a check that    *)
(* began before writes its row over O's; and no answer hides an opt-out    *)
(* for longer than it lives (suppression.py).                              *)
THEOREM SuppressionHolds == SuppressionSpec => []SuppressionInv
<1>1. SuppressionIInv => SuppressionInv
  BY DEF SuppressionIInv, SuppressionInv
<1>2. QED
  BY <1>1, SuppressionInductive, PTL

-----------------------------------------------------------------------------
(* The credit budget *)

LedgerRow == [consumed : Nat, at80 : BOOLEAN, at100 : BOOLEAN]
Spender == [step : {"idle", "read", "alert"}, month : Months, credits : Nat, before : Nat,
            seen80 : BOOLEAN, seen100 : BOOLEAN]

ClayTypes ==
    /\ budget \in Caps
    /\ ledger \in [Months -> LedgerRow]
    /\ spender \in [Spenders -> Spender]
    /\ used \in [Months -> Nat] /\ mixed \subseteq Months /\ muted \subseteq Months
    /\ told80 \in [Months -> Nat] /\ told100 \in [Months -> Nat]

(* Who has read the row of a month, and who still has to announce it.      *)
Reading(p, m) == spender[p].step = "read" /\ spender[p].month = m
Owes80(p, m) == spender[p].step = "alert" /\ spender[p].month = m /\ ~ spender[p].seen80
Owes100(p, m) == spender[p].step = "alert" /\ spender[p].month = m /\ ~ spender[p].seen100

(* In a month without overlap one request reads at a time, and what it has *)
(* read still stands.                                                      *)
ReadsStand ==
    \A m \in Months \ mixed : \A p \in Spenders : Reading(p, m) =>
        /\ \A q \in Spenders : Reading(q, m) => q = p
        /\ spender[p].before = ledger[m].consumed
        /\ spender[p].seen80 = ledger[m].at80 /\ spender[p].seen100 = ledger[m].at100

(* The ledger is what was spent, and its marks follow the thresholds.      *)
MarksFollow ==
    \A m \in Months \ mixed :
        /\ used[m] = ledger[m].consumed /\ used[m] =< budget
        /\ 5 * used[m] >= 4 * budget => ledger[m].at80
        /\ used[m] = budget => ledger[m].at100

(* A mark has been announced, or one process owes the announcement, or the *)
(* one that owed it died; no mark, no announcement.                        *)
Announced80 ==
    \A m \in Months \ mixed :
        /\ told80[m] =< 1
        /\ (\E p \in Spenders : Owes80(p, m)) => ledger[m].at80 /\ told80[m] = 0
        /\ \A p, q \in Spenders : Owes80(p, m) /\ Owes80(q, m) => p = q
        /\ ~ ledger[m].at80 => told80[m] = 0
        /\ ledger[m].at80 => \/ told80[m] = 1 \/ m \in muted
                             \/ \E p \in Spenders : Owes80(p, m)
Announced100 ==
    \A m \in Months \ mixed :
        /\ told100[m] =< 1
        /\ (\E p \in Spenders : Owes100(p, m)) => ledger[m].at100 /\ told100[m] = 0
        /\ \A p, q \in Spenders : Owes100(p, m) /\ Owes100(q, m) => p = q
        /\ ~ ledger[m].at100 => told100[m] = 0
        /\ ledger[m].at100 => \/ told100[m] = 1 \/ m \in muted
                              \/ \E p \in Spenders : Owes100(p, m)

ClayIInv == ClayTypes /\ ReadsStand /\ MarksFollow /\ Announced80 /\ Announced100

LEMMA ResetType == ResetSpender \in Spender /\ ResetSpender.step = "idle"
  BY CapsAssumption DEF ResetSpender, Spender

LEMMA SpenderTypes ==
  ASSUME ClayTypes, NEW p \in Spenders, NEW job \in Spender, spender' = [spender EXCEPT ![p] = job]
  PROVE  /\ spender' \in [Spenders -> Spender] /\ spender'[p] = job
         /\ \A q \in Spenders \ {p} : spender'[q] = spender[q]
  BY DEF ClayTypes

LEMMA InitClay == ClayInit => ClayIInv
<1> SUFFICES ASSUME ClayInit PROVE ClayIInv
  OBVIOUS
<1>1. \A p \in Spenders : spender[p].step = "idle"
  BY ResetType DEF ClayInit
<1>2. ClayTypes
  <2>1. ledger \in [Months -> LedgerRow]
    BY DEF ClayInit, LedgerRow
  <2>2. spender \in [Spenders -> Spender]
    BY ResetType DEF ClayInit
  <2>3. QED
    BY <2>1, <2>2 DEF ClayInit, ClayTypes
<1>3. budget \in Nat \ {0}
  BY CapsAssumption DEF ClayInit
<1>4. ReadsStand
  BY <1>1 DEF ReadsStand, Reading
<1>5. MarksFollow
  BY <1>3 DEF ClayInit, MarksFollow
<1>6. Announced80 /\ Announced100
  BY <1>1 DEF ClayInit, Announced80, Announced100, Owes80, Owes100
<1>7. QED
  BY <1>2, <1>4, <1>5, <1>6 DEF ClayIInv

LEMMA SelectBudgetStep ==
  ASSUME ClayIInv, NEW p \in Spenders, NEW m \in Months, NEW n \in Requests,
         SelectBudget(p, m, n)
  PROVE  ClayIInv'
<1> DEFINE job == [step |-> "read", month |-> m, credits |-> n, before |-> ledger[m].consumed,
                   seen80 |-> ledger[m].at80, seen100 |-> ledger[m].at100]
<1>1. ClayTypes /\ ledger[m] \in LedgerRow /\ spender[p].step = "idle"
  BY DEF ClayIInv, ClayTypes, SelectBudget
<1>2. job \in Spender
  BY <1>1, CapsAssumption DEF LedgerRow, Spender
<1>3. /\ job.step = "read" /\ job.month = m /\ job.before = ledger[m].consumed
      /\ job.seen80 = ledger[m].at80 /\ job.seen100 = ledger[m].at100
  OBVIOUS
<1>4. spender' = [spender EXCEPT ![p] = job]
  BY DEF SelectBudget
<1> HIDE DEF job
<1>5. /\ spender' \in [Spenders -> Spender] /\ spender'[p] = job
      /\ \A q \in Spenders \ {p} : spender'[q] = spender[q]
  BY <1>1, <1>2, <1>4, SpenderTypes
<1>6. /\ UNCHANGED <<budget, ledger, used, told80, told100, muted>>
      /\ mixed' \subseteq Months /\ mixed \subseteq mixed'
      /\ (\E o \in Spenders \ {p} : Reading(o, m)) => m \in mixed'
  BY <1>1 DEF SelectBudget, Reading, ClayTypes
<1>7. ClayTypes'
  BY <1>1, <1>5, <1>6 DEF ClayTypes
<1>8. ReadsStand'
  <2> SUFFICES ASSUME NEW k \in Months \ mixed', NEW q \in Spenders, Reading(q, k)'
               PROVE  /\ \A o \in Spenders : Reading(o, k)' => o = q
                      /\ spender'[q].before = ledger'[k].consumed
                      /\ spender'[q].seen80 = ledger'[k].at80
                      /\ spender'[q].seen100 = ledger'[k].at100
    BY DEF ReadsStand
  <2>1. \A o \in Spenders \ {p} : Reading(o, k)' => Reading(o, k)
    BY <1>5 DEF Reading
  <2>2. Reading(p, k)' => k = m
    BY <1>3, <1>5 DEF Reading
  <2>3. CASE q = p
    BY <1>3, <1>5, <1>6, <2>1, <2>2, <2>3
  <2>4. CASE q # p
    <3>1. Reading(q, k) /\ k \notin mixed /\ spender'[q] = spender[q]
      BY <1>5, <1>6, <2>1, <2>4
    <3>2. ~ Reading(p, k)'
      BY <1>6, <2>2, <2>4, <3>1
    <3>3. QED
      BY <1>6, <2>1, <3>1, <3>2 DEF ClayIInv, ReadsStand
  <2>5. QED
    BY <2>3, <2>4
<1>9. MarksFollow'
  BY <1>6 DEF ClayIInv, MarksFollow
<1>10. \A q \in Spenders : \A k : Owes80(q, k)' = Owes80(q, k) /\ Owes100(q, k)' = Owes100(q, k)
  <2> SUFFICES ASSUME NEW q \in Spenders, NEW k
               PROVE  (Owes80(q, k)' <=> Owes80(q, k)) /\ (Owes100(q, k)' <=> Owes100(q, k))
    BY DEF Owes80, Owes100
  <2>1. CASE q = p
    BY <1>1, <1>3, <1>5, <2>1 DEF Owes80, Owes100
  <2>2. CASE q # p
    BY <1>5, <2>2 DEF Owes80, Owes100
  <2>3. QED
    BY <2>1, <2>2
<1>11. Announced80'
  BY <1>6, <1>10 DEF ClayIInv, Announced80
<1>12. Announced100'
  BY <1>6, <1>10 DEF ClayIInv, Announced100
<1>13. QED
  BY <1>7, <1>8, <1>9, <1>11, <1>12 DEF ClayIInv

(* A read that ends: the ledger's row and the marks this request makes.    *)
LEMMA ReadEnds ==
  ASSUME ClayIInv, NEW p \in Spenders, NEW m \in Months, m = spender[p].month,
         spender[p].step = "read", NEW job \in Spender, NEW row \in LedgerRow,
         spender' = [spender EXCEPT ![p] = job], ledger' = [ledger EXCEPT ![m] = row],
         job.step = "alert", job.month = m,
         UNCHANGED <<budget, told80, told100, mixed, muted>>,
         used' \in [Months -> Nat], \A k \in Months \ {m} : used'[k] = used[k],
         m \notin mixed =>
            /\ used'[m] = row.consumed /\ used'[m] =< budget
            /\ 5 * used'[m] >= 4 * budget => row.at80
            /\ used'[m] = budget => row.at100,
         spender[p].seen80 = ledger[m].at80 => /\ row.at80 = (ledger[m].at80 \/ ~ job.seen80)
                                               /\ ~ job.seen80 => ~ ledger[m].at80,
         spender[p].seen100 = ledger[m].at100 => /\ row.at100 = (ledger[m].at100 \/ ~ job.seen100)
                                                 /\ ~ job.seen100 => ~ ledger[m].at100
  PROVE  ClayIInv'
<1>1. ClayTypes /\ Reading(p, m)
  BY DEF ClayIInv, Reading
<1>2. /\ spender' \in [Spenders -> Spender] /\ spender'[p] = job
      /\ \A q \in Spenders \ {p} : spender'[q] = spender[q]
  BY <1>1, SpenderTypes
<1>3. /\ ledger' \in [Months -> LedgerRow] /\ ledger'[m] = row
      /\ \A k \in Months \ {m} : ledger'[k] = ledger[k]
  BY <1>1 DEF ClayTypes
<1>4. ClayTypes'
  BY <1>1, <1>2, <1>3 DEF ClayTypes
<1>5. \A q \in Spenders : \A k : Reading(q, k)' => q # p /\ Reading(q, k)
  BY <1>2 DEF Reading
<1>6. ReadsStand'
  <2> SUFFICES ASSUME NEW k \in Months \ mixed', NEW q \in Spenders, Reading(q, k)'
               PROVE  /\ \A o \in Spenders : Reading(o, k)' => o = q
                      /\ spender'[q].before = ledger'[k].consumed
                      /\ spender'[q].seen80 = ledger'[k].at80
                      /\ spender'[q].seen100 = ledger'[k].at100
    BY DEF ReadsStand
  <2>1. q # p /\ Reading(q, k) /\ k \notin mixed
    BY <1>5
  <2>2. k # m
    BY <1>1, <2>1 DEF ClayIInv, ReadsStand
  <2>3. QED
    BY <1>2, <1>3, <1>5, <2>1, <2>2 DEF ClayIInv, ReadsStand
<1>7. MarksFollow'
  BY <1>1, <1>3 DEF ClayIInv, MarksFollow
<1>8. \A q \in Spenders \ {p} : \A k : (Owes80(q, k)' <=> Owes80(q, k))
                                       /\ (Owes100(q, k)' <=> Owes100(q, k))
  BY <1>2 DEF Owes80, Owes100
<1>9. \A k : ~ Owes80(p, k) /\ ~ Owes100(p, k)
  BY <1>1 DEF Owes80, Owes100, Reading
<1>10. /\ \A k \in Months \ {m} : ~ Owes80(p, k)' /\ ~ Owes100(p, k)'
       /\ (Owes80(p, m)' <=> ~ job.seen80) /\ (Owes100(p, m)' <=> ~ job.seen100)
  BY <1>2 DEF Owes80, Owes100
<1>11. m \notin mixed => /\ row.at80 = (ledger[m].at80 \/ ~ job.seen80)
                         /\ row.at100 = (ledger[m].at100 \/ ~ job.seen100)
                         /\ ~ job.seen80 => ~ ledger[m].at80
                         /\ ~ job.seen100 => ~ ledger[m].at100
  BY <1>1 DEF ClayIInv, ReadsStand
<1>12. Announced80'
  <2> SUFFICES ASSUME NEW k \in Months \ mixed
               PROVE  /\ told80[k] =< 1
                      /\ (\E q \in Spenders : Owes80(q, k)') => ledger'[k].at80 /\ told80[k] = 0
                      /\ \A q, o \in Spenders : Owes80(q, k)' /\ Owes80(o, k)' => q = o
                      /\ ~ ledger'[k].at80 => told80[k] = 0
                      /\ ledger'[k].at80 => \/ told80[k] = 1 \/ k \in muted
                                            \/ \E q \in Spenders : Owes80(q, k)'
    BY DEF Announced80
  <2>1. CASE k # m
    BY <1>3, <1>8, <1>9, <1>10, <2>1 DEF ClayIInv, Announced80
  <2>2. CASE k = m /\ job.seen80
    <3>1. (ledger'[m].at80 <=> ledger[m].at80) /\ m \notin mixed
      BY <1>3, <1>11, <2>2
    <3>2. \A q \in Spenders : Owes80(q, m)' <=> Owes80(q, m)
      BY <1>8, <1>9, <1>10, <2>2
    <3>3. QED
      BY <2>2, <3>1, <3>2 DEF ClayIInv, Announced80
  <2>3. CASE k = m /\ ~ job.seen80
    <3>1. ~ ledger[m].at80 /\ told80[m] = 0 /\ \A q \in Spenders : ~ Owes80(q, m)
      BY <1>11, <2>3 DEF ClayIInv, Announced80
    <3>2. row.at80
      BY <1>11, <2>3
    <3>3. QED
      BY <1>3, <1>8, <1>10, <2>3, <3>1, <3>2
  <2>4. QED
    BY <2>1, <2>2, <2>3
<1>13. Announced100'
  <2> SUFFICES ASSUME NEW k \in Months \ mixed
               PROVE  /\ told100[k] =< 1
                      /\ (\E q \in Spenders : Owes100(q, k)') => ledger'[k].at100 /\ told100[k] = 0
                      /\ \A q, o \in Spenders : Owes100(q, k)' /\ Owes100(o, k)' => q = o
                      /\ ~ ledger'[k].at100 => told100[k] = 0
                      /\ ledger'[k].at100 => \/ told100[k] = 1 \/ k \in muted
                                             \/ \E q \in Spenders : Owes100(q, k)'
    BY DEF Announced100
  <2>1. CASE k # m
    BY <1>3, <1>8, <1>9, <1>10, <2>1 DEF ClayIInv, Announced100
  <2>2. CASE k = m /\ job.seen100
    <3>1. (ledger'[m].at100 <=> ledger[m].at100) /\ m \notin mixed
      BY <1>3, <1>11, <2>2
    <3>2. \A q \in Spenders : Owes100(q, m)' <=> Owes100(q, m)
      BY <1>8, <1>9, <1>10, <2>2
    <3>3. QED
      BY <2>2, <3>1, <3>2 DEF ClayIInv, Announced100
  <2>3. CASE k = m /\ ~ job.seen100
    <3>1. ~ ledger[m].at100 /\ told100[m] = 0 /\ \A q \in Spenders : ~ Owes100(q, m)
      BY <1>11, <2>3 DEF ClayIInv, Announced100
    <3>2. row.at100
      BY <1>11, <2>3
    <3>3. QED
      BY <1>3, <1>8, <1>10, <2>3, <3>1, <3>2
  <2>4. QED
    BY <2>1, <2>2, <2>3
<1>14. QED
  BY <1>4, <1>6, <1>7, <1>12, <1>13 DEF ClayIInv

LEMMA ApplySpendStep ==
  ASSUME ClayIInv, NEW p \in Spenders, ApplySpend(p)
  PROVE  ClayIInv'
<1> DEFINE m == spender[p].month
           c80 == Crosses80(p)
           r100 == Reaches100(p)
           row == [consumed |-> After(p), at80 |-> ledger[m].at80 \/ c80,
                   at100 |-> ledger[m].at100 \/ r100]
           job == [spender[p] EXCEPT !.step = "alert", !.seen80 = ~ c80, !.seen100 = ~ r100]
<1>1. /\ ClayTypes /\ spender[p] \in Spender /\ spender[p].step = "read" /\ m \in Months
      /\ ledger[m] \in LedgerRow /\ budget \in Nat /\ After(p) =< budget
  BY CapsAssumption DEF ClayIInv, ClayTypes, ApplySpend, Spender
<1>2. After(p) \in Nat /\ After(p) = spender[p].before + spender[p].credits
      /\ spender[p].before \in Nat
  BY <1>1 DEF After, Spender
<1>3. c80 \in BOOLEAN /\ r100 \in BOOLEAN
  BY DEF Crosses80, Reaches100
<1>4. c80 = (/\ 5 * spender[p].before < 4 * budget /\ 4 * budget =< 5 * After(p)
             /\ ~ spender[p].seen80)
  BY DEF Crosses80
<1>5. r100 = (After(p) = budget /\ ~ spender[p].seen100)
  BY DEF Reaches100
<1> HIDE DEF c80, r100
<1>6. /\ row \in LedgerRow /\ row.consumed = After(p) /\ row.at80 = (ledger[m].at80 \/ c80)
      /\ row.at100 = (ledger[m].at100 \/ r100)
  BY <1>1, <1>2, <1>3 DEF LedgerRow
<1>7. /\ job \in Spender /\ job.step = "alert" /\ job.month = m /\ job.seen80 = ~ c80
      /\ job.seen100 = ~ r100
  BY <1>1, <1>3 DEF Spender
<1>8. /\ ledger' = [ledger EXCEPT ![m] = row] /\ spender' = [spender EXCEPT ![p] = job]
      /\ used' = [used EXCEPT ![m] = used[m] + spender[p].credits]
      /\ UNCHANGED <<budget, told80, told100, mixed, muted>>
  <2>1. ledger' = [ledger EXCEPT ![m] = row]
    BY DEF ApplySpend, c80, r100
  <2>2. spender' = [spender EXCEPT ![p].step = "alert", ![p].seen80 = ~ c80,
                                   ![p].seen100 = ~ r100]
    BY DEF ApplySpend, c80, r100
  <2>3. spender' = [spender EXCEPT ![p] = job]
    BY <1>1, <2>2 DEF ClayTypes
  <2>4. QED
    BY <2>1, <2>3 DEF ApplySpend
<1> HIDE DEF row, job
<1>9. /\ used' \in [Months -> Nat] /\ \A k \in Months \ {m} : used'[k] = used[k]
      /\ used'[m] = used[m] + spender[p].credits
  BY <1>1, <1>8 DEF ClayTypes, Spender
<1>10. m \notin mixed =>
         /\ used[m] = spender[p].before /\ spender[p].seen80 = ledger[m].at80
         /\ spender[p].seen100 = ledger[m].at100
         /\ 5 * used[m] >= 4 * budget => ledger[m].at80
  BY <1>1 DEF ClayIInv, ReadsStand, Reading, MarksFollow
<1>11. ASSUME m \notin mixed
       PROVE  /\ used'[m] = row.consumed /\ used'[m] =< budget
              /\ 5 * used'[m] >= 4 * budget => row.at80
              /\ used'[m] = budget => row.at100
  <2>1. used'[m] = After(p) /\ row.consumed = After(p)
    BY <1>2, <1>6, <1>9, <1>10, <1>11
  <2>2. ASSUME 5 * used'[m] >= 4 * budget PROVE row.at80
    <3>1. 4 * budget =< 5 * After(p)
      BY <1>1, <1>2, <2>1, <2>2
    <3>2. CASE 5 * spender[p].before >= 4 * budget
      <4>1. ledger[m].at80
        BY <1>10, <1>11, <3>2
      <4>2. QED
        BY <1>6, <4>1
    <3>3. CASE 5 * spender[p].before < 4 * budget
      <4>1. CASE spender[p].seen80
        BY <1>6, <1>10, <1>11, <4>1
      <4>2. CASE ~ spender[p].seen80
        BY <1>4, <1>6, <3>1, <3>3, <4>2
      <4>3. QED
        BY <4>1, <4>2
    <3>4. QED
      BY <1>1, <1>2, <3>2, <3>3
  <2>3. ASSUME used'[m] = budget PROVE row.at100
    <3>1. After(p) = budget
      BY <2>1, <2>3
    <3>2. CASE spender[p].seen100
      BY <1>6, <1>10, <1>11, <3>2
    <3>3. CASE ~ spender[p].seen100
      BY <1>5, <1>6, <3>1, <3>3
    <3>4. QED
      BY <3>2, <3>3
  <2>4. QED
    BY <1>1, <2>1, <2>2, <2>3
<1>12. /\ ~ job.seen80 => ~ spender[p].seen80
       /\ ~ job.seen100 => ~ spender[p].seen100
  BY <1>4, <1>5, <1>7
<1>13. QED
  BY <1>1, <1>3, <1>6, <1>7, <1>8, <1>9, <1>11, <1>12, ReadEnds

LEMMA RefuseSpendStep ==
  ASSUME ClayIInv, NEW p \in Spenders, RefuseSpend(p)
  PROVE  ClayIInv'
<1> DEFINE m == spender[p].month
           seen == spender[p].seen100
           row == [ledger[m] EXCEPT !.at100 = ledger[m].at100 \/ ~ seen]
           job == [spender[p] EXCEPT !.step = "alert", !.seen80 = TRUE]
<1>1. /\ ClayTypes /\ spender[p] \in Spender /\ spender[p].step = "read" /\ m \in Months
      /\ ledger[m] \in LedgerRow
  BY DEF ClayIInv, ClayTypes, RefuseSpend, Spender
<1>2. seen \in BOOLEAN
  BY <1>1 DEF Spender
<1>3. /\ row \in LedgerRow /\ row.consumed = ledger[m].consumed /\ row.at80 = ledger[m].at80
      /\ row.at100 = (ledger[m].at100 \/ ~ seen)
  BY <1>1, <1>2 DEF LedgerRow
<1>4. /\ job \in Spender /\ job.step = "alert" /\ job.month = m /\ job.seen80
      /\ job.seen100 = seen
  BY <1>1 DEF Spender
<1>5. /\ ledger' = [ledger EXCEPT ![m] = row] /\ spender' = [spender EXCEPT ![p] = job]
      /\ UNCHANGED <<budget, used, told80, told100, mixed, muted>>
  <2>1. ledger' = [ledger EXCEPT ![m] = row]
    BY <1>1 DEF RefuseSpend, ClayTypes, LedgerRow
  <2>2. spender' = [spender EXCEPT ![p] = job]
    BY <1>1 DEF RefuseSpend, ClayTypes
  <2>3. QED
    BY <2>1, <2>2 DEF RefuseSpend
<1> HIDE DEF row, job
<1>6. used' \in [Months -> Nat] /\ \A k \in Months \ {m} : used'[k] = used[k]
  BY <1>1, <1>5 DEF ClayTypes
<1>7. m \notin mixed =>
         /\ used'[m] = row.consumed /\ used'[m] =< budget
         /\ 5 * used'[m] >= 4 * budget => row.at80
         /\ used'[m] = budget => row.at100
  BY <1>1, <1>3, <1>5 DEF ClayIInv, MarksFollow
<1>8. /\ row.at80 = (ledger[m].at80 \/ ~ job.seen80) /\ (~ job.seen80 => ~ ledger[m].at80)
      /\ row.at100 = (ledger[m].at100 \/ ~ job.seen100)
  BY <1>1, <1>3, <1>4 DEF LedgerRow
<1>9. spender[p].seen100 = ledger[m].at100 => (~ job.seen100 => ~ ledger[m].at100)
  BY <1>4
<1> HIDE DEF seen
<1>10. QED
  BY <1>1, <1>4, <1>3, <1>5, <1>6, <1>7, <1>8, <1>9, ReadEnds

(* A spender that rests: its announcement was made, or is muted.           *)
LEMMA AlertStep ==
  ASSUME ClayIInv, NEW p \in Spenders, Alert(p)
  PROVE  ClayIInv'
<1> DEFINE m == spender[p].month
<1>1. /\ ClayTypes /\ spender[p] \in Spender /\ spender[p].step = "alert" /\ m \in Months
  BY DEF ClayIInv, ClayTypes, Alert, Spender
<1>2. /\ told80' = IF spender[p].seen80 THEN told80 ELSE [told80 EXCEPT ![m] = @ + 1]
      /\ told100' = IF spender[p].seen100 THEN told100 ELSE [told100 EXCEPT ![m] = @ + 1]
      /\ spender' = [spender EXCEPT ![p] = ResetSpender]
      /\ UNCHANGED <<budget, ledger, used, mixed, muted>>
  BY DEF Alert
<1>3. /\ spender' \in [Spenders -> Spender] /\ spender'[p].step = "idle"
      /\ \A q \in Spenders \ {p} : spender'[q] = spender[q]
  BY <1>1, <1>2, ResetType, SpenderTypes
<1>4. /\ told80 \in [Months -> Nat] /\ told80' \in [Months -> Nat]
      /\ \A k \in Months : told80'[k] = IF Owes80(p, k) THEN told80[k] + 1 ELSE told80[k]
  BY <1>1, <1>2 DEF ClayTypes, Owes80
<1>5. /\ told100 \in [Months -> Nat] /\ told100' \in [Months -> Nat]
      /\ \A k \in Months : told100'[k] = IF Owes100(p, k) THEN told100[k] + 1 ELSE told100[k]
  BY <1>1, <1>2 DEF ClayTypes, Owes100
<1>6. ClayTypes'
  BY <1>1, <1>2, <1>3, <1>4, <1>5 DEF ClayTypes
<1>7. /\ \A k : ~ Reading(p, k)' /\ ~ Owes80(p, k)' /\ ~ Owes100(p, k)'
      /\ \A q \in Spenders \ {p} : \A k : /\ Reading(q, k)' = Reading(q, k)
                                         /\ Owes80(q, k)' = Owes80(q, k)
                                         /\ Owes100(q, k)' = Owes100(q, k)
  BY <1>3 DEF Reading, Owes80, Owes100
<1>8. ReadsStand'
  BY <1>2, <1>3, <1>7 DEF ClayIInv, ReadsStand
<1>9. MarksFollow'
  BY <1>2 DEF ClayIInv, MarksFollow
<1>10. Announced80'
  <2> SUFFICES ASSUME NEW k \in Months \ mixed
               PROVE  /\ told80'[k] =< 1
                      /\ (\E q \in Spenders : Owes80(q, k)') => ledger[k].at80 /\ told80'[k] = 0
                      /\ \A q, o \in Spenders : Owes80(q, k)' /\ Owes80(o, k)' => q = o
                      /\ ~ ledger[k].at80 => told80'[k] = 0
                      /\ ledger[k].at80 => \/ told80'[k] = 1 \/ k \in muted
                                           \/ \E q \in Spenders : Owes80(q, k)'
    BY <1>2 DEF Announced80
  <2>1. CASE Owes80(p, k)
    BY <1>4, <1>7, <2>1 DEF ClayIInv, Announced80
  <2>2. CASE ~ Owes80(p, k)
    BY <1>4, <1>7, <2>2 DEF ClayIInv, Announced80
  <2>3. QED
    BY <2>1, <2>2
<1>11. Announced100'
  <2> SUFFICES ASSUME NEW k \in Months \ mixed
               PROVE  /\ told100'[k] =< 1
                      /\ (\E q \in Spenders : Owes100(q, k)') => ledger[k].at100 /\ told100'[k] = 0
                      /\ \A q, o \in Spenders : Owes100(q, k)' /\ Owes100(o, k)' => q = o
                      /\ ~ ledger[k].at100 => told100'[k] = 0
                      /\ ledger[k].at100 => \/ told100'[k] = 1 \/ k \in muted
                                            \/ \E q \in Spenders : Owes100(q, k)'
    BY <1>2 DEF Announced100
  <2>1. CASE Owes100(p, k)
    BY <1>5, <1>7, <2>1 DEF ClayIInv, Announced100
  <2>2. CASE ~ Owes100(p, k)
    BY <1>5, <1>7, <2>2 DEF ClayIInv, Announced100
  <2>3. QED
    BY <2>1, <2>2
<1>12. QED
  BY <1>6, <1>8, <1>9, <1>10, <1>11 DEF ClayIInv

LEMMA KillSpenderStep ==
  ASSUME ClayIInv, NEW p \in Spenders, KillSpender(p)
  PROVE  ClayIInv'
<1>1. ClayTypes /\ spender[p] \in Spender
  BY DEF ClayIInv, ClayTypes
<1>2. /\ spender' = [spender EXCEPT ![p] = ResetSpender]
      /\ UNCHANGED <<budget, ledger, used, mixed, told80, told100>>
      /\ muted' \subseteq Months /\ muted \subseteq muted'
      /\ spender[p].step = "alert" => spender[p].month \in muted'
  BY <1>1 DEF KillSpender, ClayTypes, Spender
<1>3. /\ spender' \in [Spenders -> Spender] /\ spender'[p].step = "idle"
      /\ \A q \in Spenders \ {p} : spender'[q] = spender[q]
  BY <1>1, <1>2, ResetType, SpenderTypes
<1>4. ClayTypes'
  BY <1>1, <1>2, <1>3 DEF ClayTypes
<1>5. /\ \A k : ~ Reading(p, k)' /\ ~ Owes80(p, k)' /\ ~ Owes100(p, k)'
      /\ \A q \in Spenders \ {p} : \A k : /\ Reading(q, k)' = Reading(q, k)
                                         /\ Owes80(q, k)' = Owes80(q, k)
                                         /\ Owes100(q, k)' = Owes100(q, k)
      /\ \A k : Owes80(p, k) \/ Owes100(p, k) => k \in muted'
  BY <1>2, <1>3 DEF Reading, Owes80, Owes100
<1>6. ReadsStand'
  BY <1>2, <1>3, <1>5 DEF ClayIInv, ReadsStand
<1>7. MarksFollow'
  BY <1>2 DEF ClayIInv, MarksFollow
<1>8. Announced80'
  BY <1>2, <1>5 DEF ClayIInv, Announced80
<1>9. Announced100'
  BY <1>2, <1>5 DEF ClayIInv, Announced100
<1>10. QED
  BY <1>4, <1>6, <1>7, <1>8, <1>9 DEF ClayIInv

LEMMA TopUpStep ==
  ASSUME ClayIInv, NEW c \in Caps, TopUp(c)
  PROVE  ClayIInv'
<1>1. /\ budget' = c /\ c > budget /\ c \in Nat /\ budget \in Nat
      /\ UNCHANGED <<ledger, spender, used, told80, told100, mixed, muted>>
  BY CapsAssumption DEF TopUp, ClayIInv, ClayTypes
<1>2. ClayTypes' /\ used \in [Months -> Nat]
  BY <1>1 DEF ClayIInv, ClayTypes
<1>3. ReadsStand'
  BY <1>1 DEF ClayIInv, ReadsStand, Reading
<1>4. MarksFollow'
  BY <1>1, <1>2 DEF ClayIInv, MarksFollow
<1>5. Announced80' /\ Announced100'
  BY <1>1 DEF ClayIInv, Announced80, Announced100, Owes80, Owes100
<1>6. QED
  BY <1>2, <1>3, <1>4, <1>5 DEF ClayIInv

LEMMA NextClay == ClayIInv /\ [ClayNext]_clayVars => ClayIInv'
<1> SUFFICES ASSUME ClayIInv, [ClayNext]_clayVars PROVE ClayIInv'
  OBVIOUS
<1>1. ASSUME NEW p \in Spenders, NEW m \in Months, NEW n \in Requests, SelectBudget(p, m, n)
      PROVE  ClayIInv'
  BY <1>1, SelectBudgetStep
<1>2. ASSUME NEW p \in Spenders, ApplySpend(p) \/ RefuseSpend(p) \/ Alert(p) \/ KillSpender(p)
      PROVE  ClayIInv'
  BY <1>2, ApplySpendStep, RefuseSpendStep, AlertStep, KillSpenderStep
<1>3. ASSUME NEW c \in Caps, TopUp(c) PROVE ClayIInv'
  BY <1>3, TopUpStep
<1>4. CASE UNCHANGED clayVars
  BY <1>4 DEF clayVars, ClayIInv, ClayTypes, ReadsStand, Reading, MarksFollow, Announced80,
              Announced100, Owes80, Owes100
<1>5. QED
  BY <1>1, <1>2, <1>3, <1>4 DEF ClayNext

(* For any caps, requests and number of processes: a month in which no two *)
(* requests overlapped has the ledger of what was spent, within the cap,   *)
(* and each threshold announced once unless the process died behind its    *)
(* commit (CreditBudget.spend).                                            *)
THEOREM ClayHolds == ClaySpec => []ClayInv
<1>1. ClayIInv => ClayInv
  <2> SUFFICES ASSUME ClayIInv PROVE ClayTypeOK /\ ThresholdsAnnounced
    BY DEF ClayInv
  <2>1. \A p \in Spenders : spender[p] \in Spender
    BY DEF ClayIInv, ClayTypes
  <2>2. ClayTypeOK
    BY <2>1 DEF ClayIInv, ClayTypes, ClayTypeOK, LedgerRow, Spender
  <2>3. ThresholdsAnnounced
    BY DEF ClayIInv, MarksFollow, Announced80, Announced100, Owes80, Owes100,
           ThresholdsAnnounced
  <2>4. QED
    BY <2>2, <2>3
<1>2. QED
  BY <1>1, InitClay, NextClay, PTL DEF ClaySpec

-----------------------------------------------------------------------------
(* The nightly run and the briefing *)

PipeRow ==
    [step : {"idle", "enrich", "buffer", "gate", "write", "mark", "failed", "close"},
     run : Runs, todo : SUBSET Domains, found : SUBSET Domains,
     outcome : UNION {[found -> Outcomes] : found \in SUBSET Domains},
     dry : BOOLEAN, injected : BOOLEAN, errors : BOOLEAN,
     tier : {"none", "bulk_update_small", "bulk_update_large"}, at : Domains \union {"none"}]
BriefRow ==
    [step : {"idle", "send"}, run : Runs,
     share : UNION {[sdrs -> SUBSET Domains] : sdrs \in SUBSET Owners},
     todo : SUBSET Owners, mark : SUBSET Domains]

LeadTypes ==
    /\ apollo \in Answers
    /\ runs \in Seq(RunRow) /\ Len(runs) =< Len(apollo)
    /\ rows \in [Keys -> Candidate]
    /\ leads \in [Domains -> 0 .. MaxLeads]
    /\ pipe \in [Runners -> PipeRow]
    /\ \A p \in Runners : /\ pipe[p].todo \subseteq pipe[p].found
                          /\ pipe[p].outcome \in [pipe[p].found -> Outcomes]
    /\ brief \in [Briefers -> BriefRow]
    /\ \A b \in Briefers : brief[b].todo \subseteq DOMAIN brief[b].share
    /\ told \in [Keys -> Nat]
    /\ barred \subseteq Keys /\ excused \subseteq Keys /\ unprobed \subseteq Domains
    /\ clock \in 0 .. MaxClock

Present(r, d) == rows[<<r, d>>].status # "absent"
Active(p) == pipe[p].step # "idle"
Sending(b) == brief[b].step = "send"
Over(r) == r \in 1 .. Len(runs) /\ runs[r].status # "running"

(* A run is the work of one runner, and open as long as that works at it.  *)
RunsOwned ==
    \A p \in Runners : Active(p) =>
        /\ pipe[p].run \in 1 .. Len(runs) /\ runs[pipe[p].run].status = "running"
        /\ \A q \in Runners : Active(q) /\ pipe[q].run = pipe[p].run => q = p

(* A run has the rows its runner found, from its buffering on.             *)
RowsFound ==
    /\ \A r \in Runs, d \in Domains : Present(r, d) => r =< Len(runs)
    /\ \A p \in Runners, d \in Domains : Active(p) /\ Present(pipe[p].run, d) =>
          d \in pipe[p].found /\ pipe[p].step \notin {"enrich", "buffer"}

(* What a runner has still to write or mark is not barred.                 *)
PipesClean ==
    \A p \in Runners :
        /\ pipe[p].step \in {"idle", "enrich", "buffer"} => pipe[p].todo = {}
        /\ \A d \in pipe[p].todo : <<pipe[p].run, d>> \notin barred
        /\ pipe[p].step = "mark" => /\ pipe[p].at \in pipe[p].found
                                    /\ <<pipe[p].run, pipe[p].at>> \notin barred

BarredOut ==
    \A k \in barred : rows[k].status = "suppressed" /\ ~ rows[k].lead /\ told[k] = 0

(* Nobody is told of a run that is open.                                   *)
ToldOver == \A r \in Runs, d \in Domains : told[<<r, d>>] # 0 => Over(r)

(* A briefing is of a run that is over; every row it holds has one SDR,    *)
(* and none is barred.                                                     *)
BriefsSound ==
    \A b \in Briefers : Sending(b) =>
        /\ Over(brief[b].run)
        /\ \A s \in DOMAIN brief[b].share : \A d \in brief[b].share[s] :
              /\ <<brief[b].run, d>> \notin barred /\ Present(brief[b].run, d)
              /\ \A t \in DOMAIN brief[b].share : d \in brief[b].share[t] => t = s
        /\ \A d \in brief[b].mark : \E s \in DOMAIN brief[b].share : d \in brief[b].share[s]

Holds(b, r, d) ==
    /\ Sending(b) /\ brief[b].run = r
    /\ \E s \in DOMAIN brief[b].share : d \in brief[b].share[s]
StillToTell(b, r, d) ==
    /\ Sending(b) /\ brief[b].run = r
    /\ \E s \in brief[b].todo : d \in brief[b].share[s]
Marked(b, r, d) == Sending(b) /\ brief[b].run = r /\ d \in brief[b].mark

(* A row that was told of and may still be selected is marked by the       *)
(* briefing that told, and two briefings that hold a row are an excuse.    *)
ToldOnce ==
    \A r \in Runs, d \in Domains : <<r, d>> \notin excused =>
        /\ told[<<r, d>>] =< 1
        /\ told[<<r, d>>] # 0 => \/ rows[<<r, d>>].status # "ready"
                                 \/ \E b \in Briefers : Marked(b, r, d)
        /\ \A b \in Briefers : StillToTell(b, r, d) => told[<<r, d>>] = 0
        /\ \A b, c \in Briefers : Holds(b, r, d) /\ Holds(c, r, d) => b = c

LeadIInv ==
    /\ LeadTypes /\ RunsOwned /\ RowsFound /\ PipesClean /\ BarredOut /\ ToldOver
    /\ BriefsSound /\ ToldOnce /\ OneLeadPerAddress

LEMMA RunsNat == Runs \subseteq Nat \ {0} /\ 1 \in Runs
<1>1. \A a \in Answers : a \in Seq(SUBSET Domains)
  BY AnswersAssumption
<1>2. \A a \in Answers : DOMAIN a = 1 .. Len(a) /\ Len(a) \in Nat
  BY <1>1
<1>3. Runs \subseteq Nat \ {0}
  BY <1>2 DEF Runs
<1>4. PICK a \in Answers : a # <<>>
  BY AnswersAssumption
<1>5. Len(a) # 0
  BY <1>1, <1>4
<1>6. 1 \in DOMAIN a
  BY <1>2, <1>5
<1>7. QED
  BY <1>3, <1>6 DEF Runs

LEMMA RunIsRun ==
  ASSUME LeadTypes
  PROVE  /\ Len(runs) \in Nat
         /\ \A r \in 1 .. Len(runs) : r \in Runs /\ runs[r] \in RunRow
         /\ \A r \in DOMAIN apollo : r \in Runs /\ r \in 1 .. Len(apollo) /\ apollo[r] \subseteq Domains
<1>1. apollo \in Seq(SUBSET Domains)
  BY AnswersAssumption DEF LeadTypes
<1>2. DOMAIN apollo = 1 .. Len(apollo) /\ Len(apollo) \in Nat
  BY <1>1
<1>3. Len(runs) \in Nat /\ Len(runs) =< Len(apollo) /\ \A r \in 1 .. Len(runs) : runs[r] \in RunRow
  BY DEF LeadTypes
<1>4. \A r \in DOMAIN apollo : r \in Runs
  BY DEF Runs, LeadTypes
<1>5. QED
  BY <1>1, <1>2, <1>3, <1>4

LEMMA IdlePipeType ==
  /\ IdlePipe \in PipeRow /\ IdlePipe.step = "idle" /\ IdlePipe.todo = {} /\ IdlePipe.found = {}
  /\ IdlePipe.outcome \in [{} -> Outcomes]
<1>1. <<>> \in [{} -> Outcomes]
  OBVIOUS
<1>2. <<>> \in UNION {[found -> Outcomes] : found \in SUBSET Domains}
  BY <1>1
<1>3. QED
  BY <1>1, <1>2, RunsNat DEF IdlePipe, PipeRow

LEMMA IdleBriefType ==
  IdleBrief \in BriefRow /\ IdleBrief.step = "idle" /\ IdleBrief.todo = {}
<1>1. <<>> \in [{} -> SUBSET Domains]
  OBVIOUS
<1>2. <<>> \in UNION {[sdrs -> SUBSET Domains] : sdrs \in SUBSET Owners}
  BY <1>1
<1>3. QED
  BY <1>2, RunsNat DEF IdleBrief, BriefRow

LEMMA InitLead == LeadInit => LeadIInv
<1> SUFFICES ASSUME LeadInit PROVE LeadIInv
  OBVIOUS
<1>1. /\ \A p \in Runners : pipe[p] = IdlePipe
      /\ \A b \in Briefers : brief[b] = IdleBrief
      /\ \A r \in Runs, d \in Domains : rows[<<r, d>>] = NoCandidate /\ told[<<r, d>>] = 0
  BY DEF LeadInit, Keys
<1>2. LeadTypes
  <2>1. apollo \in Seq(SUBSET Domains)
    BY AnswersAssumption DEF LeadInit
  <2>2. runs \in Seq(RunRow) /\ Len(runs) = 0 /\ Len(runs) =< Len(apollo)
    BY <2>1 DEF LeadInit
  <2>3. rows \in [Keys -> Candidate]
    BY DEF LeadInit, NoCandidate, Candidate
  <2>4. 0 \in 0 .. MaxLeads /\ 0 \in 0 .. MaxClock
    BY LeadBounds
  <2>5. pipe \in [Runners -> PipeRow] /\ brief \in [Briefers -> BriefRow]
    BY IdlePipeType, IdleBriefType DEF LeadInit
  <2>6. \A p \in Runners : /\ pipe[p].todo \subseteq pipe[p].found
                           /\ pipe[p].outcome \in [pipe[p].found -> Outcomes]
    BY <1>1, IdlePipeType
  <2>7. \A b \in Briefers : brief[b].todo \subseteq DOMAIN brief[b].share
    BY <1>1, IdleBriefType
  <2>8. QED
    BY <2>2, <2>3, <2>4, <2>5, <2>6, <2>7 DEF LeadInit, LeadTypes
<1>3. \A p \in Runners : ~ Active(p) /\ pipe[p].todo = {} /\ pipe[p].step = "idle"
  BY <1>1, IdlePipeType DEF Active
<1>4. \A b \in Briefers : ~ Sending(b)
  BY <1>1, IdleBriefType DEF Sending
<1>5. \A r \in Runs, d \in Domains : ~ Present(r, d)
  <2>1. NoCandidate.status = "absent"
    BY DEF NoCandidate
  <2>2. QED
    BY <1>1, <2>1 DEF Present
<1>6. RunsOwned /\ RowsFound /\ PipesClean /\ BriefsSound
  BY <1>3, <1>4, <1>5 DEF RunsOwned, RowsFound, PipesClean, BriefsSound
<1>7. BarredOut /\ ToldOver
  BY <1>1 DEF LeadInit, BarredOut, ToldOver
<1>8. ToldOnce
  BY <1>1, <1>4 DEF ToldOnce, StillToTell, Holds
<1>9. OneLeadPerAddress
  BY AddressedAssumption DEF LeadInit, OneLeadPerAddress
<1>10. QED
  BY <1>2, <1>6, <1>7, <1>8, <1>9 DEF LeadIInv

LEMMA PipeMoves ==
  ASSUME LeadTypes, NEW p \in Runners, NEW job \in PipeRow, job.todo \subseteq job.found,
         job.outcome \in [job.found -> Outcomes], pipe' = [pipe EXCEPT ![p] = job]
  PROVE  /\ pipe' \in [Runners -> PipeRow] /\ pipe'[p] = job
         /\ \A q \in Runners \ {p} : pipe'[q] = pipe[q]
         /\ \A q \in Runners : /\ pipe'[q].todo \subseteq pipe'[q].found
                               /\ pipe'[q].outcome \in [pipe'[q].found -> Outcomes]
<1>1. /\ pipe' \in [Runners -> PipeRow] /\ pipe'[p] = job
      /\ \A q \in Runners \ {p} : pipe'[q] = pipe[q]
  BY DEF LeadTypes
<1>2. QED
  BY <1>1 DEF LeadTypes

LEMMA BriefMoves ==
  ASSUME LeadTypes, NEW b \in Briefers, NEW job \in BriefRow,
         job.todo \subseteq DOMAIN job.share, brief' = [brief EXCEPT ![b] = job]
  PROVE  /\ brief' \in [Briefers -> BriefRow] /\ brief'[b] = job
         /\ \A c \in Briefers \ {b} : brief'[c] = brief[c]
         /\ \A c \in Briefers : brief'[c].todo \subseteq DOMAIN brief'[c].share
<1>1. /\ brief' \in [Briefers -> BriefRow] /\ brief'[b] = job
      /\ \A c \in Briefers \ {b} : brief'[c] = brief[c]
  BY DEF LeadTypes
<1>2. QED
  BY <1>1 DEF LeadTypes

(* A runner that goes on with its run, or rests.                           *)
LEMMA OwnedStays ==
  ASSUME LeadIInv, NEW p \in Runners, NEW job, pipe'[p] = job,
         \A q \in Runners \ {p} : pipe'[q] = pipe[q], UNCHANGED runs,
         job.step = "idle" \/ (Active(p) /\ job.run = pipe[p].run)
  PROVE  RunsOwned'
<1>1. \A q \in Runners : Active(q)' => Active(q) /\ pipe'[q].run = pipe[q].run
  BY DEF Active
<1>2. QED
  BY <1>1 DEF LeadIInv, RunsOwned

LEMMA ToldOnceStays ==
  ASSUME LeadIInv, UNCHANGED <<rows, brief, told, excused>>
  PROVE  ToldOnce'
<1>1. \A b : \A r, d : /\ Marked(b, r, d)' <=> Marked(b, r, d)
                       /\ StillToTell(b, r, d)' <=> StillToTell(b, r, d)
                       /\ Holds(b, r, d)' <=> Holds(b, r, d)
  BY DEF Marked, StillToTell, Holds, Sending
<1>2. QED
  BY <1>1 DEF LeadIInv, ToldOnce

(* What the briefing has to do with rests, where the rows do.              *)
LEMMA BriefingStays ==
  ASSUME LeadIInv, UNCHANGED <<runs, rows, brief, told, barred, excused>>
  PROVE  BarredOut' /\ ToldOver' /\ BriefsSound' /\ ToldOnce'
<1>1. \A b \in Briefers : Sending(b)' <=> Sending(b)
  BY DEF Sending
<1>2. \A r : Over(r)' <=> Over(r)
  BY DEF Over
<1>3. \A r, d : Present(r, d)' <=> Present(r, d)
  BY DEF Present
<1>4. BarredOut' /\ ToldOver'
  BY <1>2 DEF LeadIInv, BarredOut, ToldOver
<1>5. BriefsSound'
  BY <1>1, <1>2, <1>3 DEF LeadIInv, BriefsSound
<1>6. ToldOnce'
  BY ToldOnceStays
<1>7. QED
  BY <1>4, <1>5, <1>6

(* A step of a runner that changes nothing but what it is doing.           *)
LEMMA PipeOnly ==
  ASSUME LeadIInv, NEW p \in Runners, NEW job \in PipeRow, job.todo \subseteq job.found,
         job.outcome \in [job.found -> Outcomes], pipe' = [pipe EXCEPT ![p] = job],
         UNCHANGED <<apollo, runs, rows, leads, brief, told, barred, excused, unprobed, clock>>,
         \/ job.step = "idle" /\ job.todo = {}
         \/ /\ Active(p) /\ job.run = pipe[p].run /\ job.found = pipe[p].found
            /\ job.step # "idle" /\ job.step # "mark"
            /\ job.step \in {"enrich", "buffer"} => pipe[p].step \in {"enrich", "buffer"}
            /\ job.step \in {"enrich", "buffer"} => job.todo = {}
            /\ \A d \in job.todo : <<job.run, d>> \notin barred
  PROVE  LeadIInv'
<1>1. LeadTypes /\ UNCHANGED <<runs, rows, barred>>
  BY DEF LeadIInv
<1>2. /\ pipe' \in [Runners -> PipeRow] /\ pipe'[p] = job
      /\ \A q \in Runners \ {p} : pipe'[q] = pipe[q]
      /\ \A q \in Runners : /\ pipe'[q].todo \subseteq pipe'[q].found
                            /\ pipe'[q].outcome \in [pipe'[q].found -> Outcomes]
  BY <1>1, PipeMoves
<1>3. LeadTypes'
  BY <1>1, <1>2 DEF LeadTypes
<1>4. RunsOwned'
  BY <1>2, OwnedStays
<1>5. RowsFound'
  <2>1. \A r, d : Present(r, d)' <=> Present(r, d)
    BY DEF Present
  <2>2. \A q \in Runners : Active(q)' =>
          /\ Active(q) /\ pipe'[q].run = pipe[q].run /\ pipe'[q].found = pipe[q].found
          /\ pipe'[q].step \in {"enrich", "buffer"} => pipe[q].step \in {"enrich", "buffer"}
    BY <1>2 DEF Active
  <2>3. QED
    BY <1>1, <2>1, <2>2 DEF LeadIInv, RowsFound
<1>6. PipesClean'
  <2> SUFFICES ASSUME NEW q \in Runners
               PROVE  /\ pipe'[q].step \in {"idle", "enrich", "buffer"} => pipe'[q].todo = {}
                      /\ \A d \in pipe'[q].todo : <<pipe'[q].run, d>> \notin barred'
                      /\ pipe'[q].step = "mark" =>
                            /\ pipe'[q].at \in pipe'[q].found
                            /\ <<pipe'[q].run, pipe'[q].at>> \notin barred'
    BY DEF PipesClean
  <2>1. CASE q = p
    <3>1. pipe'[q] = job /\ barred' = barred
      BY <1>1, <1>2, <2>1
    <3>2. /\ job.step # "mark" /\ \A d \in job.todo : <<job.run, d>> \notin barred
          /\ job.step \in {"idle", "enrich", "buffer"} => job.todo = {}
      <4>1. CASE job.step = "idle" /\ job.todo = {}
        BY <4>1
      <4>2. CASE ~ (job.step = "idle" /\ job.todo = {})
        <5>1. Active(p) /\ job.step # "mark" /\ \A d \in job.todo : <<job.run, d>> \notin barred
          BY <4>2
        <5>2. job.step \in {"enrich", "buffer"} => job.todo = {}
          BY <4>2
        <5>3. job.step # "idle"
          BY <4>2
        <5>4. QED
          BY <5>1, <5>2, <5>3
      <4>3. QED
        BY <4>1, <4>2
    <3>3. QED
      BY <3>1, <3>2
  <2>2. CASE q # p
    BY <1>1, <1>2, <2>2 DEF LeadIInv, PipesClean
  <2>3. QED
    BY <2>1, <2>2
<1>7. BarredOut' /\ ToldOver' /\ BriefsSound' /\ ToldOnce'
  BY BriefingStays
<1>8. OneLeadPerAddress'
  BY DEF LeadIInv, OneLeadPerAddress
<1>9. QED
  BY <1>3, <1>4, <1>5, <1>6, <1>7, <1>8 DEF LeadIInv

LEMMA GatherStep ==
  ASSUME LeadIInv, NEW p \in Runners, Gather(p)
  PROVE  LeadIInv'
<1>1. LeadTypes /\ pipe[p] \in PipeRow /\ pipe[p].step = "enrich" /\ pipe[p].todo = {}
  BY DEF LeadIInv, LeadTypes, PipesClean, Gather
<1>2. PICK outcome \in [pipe[p].found -> Outcomes] :
        pipe' = [pipe EXCEPT ![p].step = "buffer", ![p].outcome = outcome,
                             ![p].errors = \E d \in pipe[p].found : outcome[d] = "error"]
  BY DEF Gather
<1>3. PICK errors \in BOOLEAN : errors = \E d \in pipe[p].found : outcome[d] = "error"
  OBVIOUS
<1> DEFINE job == [pipe[p] EXCEPT !.step = "buffer", !.outcome = outcome, !.errors = errors]
<1>4. pipe' = [pipe EXCEPT ![p] = job]
  BY <1>1, <1>2, <1>3 DEF LeadTypes
<1>5. pipe[p].found \in SUBSET Domains
  BY <1>1 DEF PipeRow
<1>6. outcome \in UNION {[found -> Outcomes] : found \in SUBSET Domains}
  BY <1>5
<1>7. /\ job \in PipeRow /\ job.step = "buffer" /\ job.run = pipe[p].run /\ job.todo = {}
      /\ job.found = pipe[p].found /\ job.outcome = outcome
  BY <1>1, <1>6 DEF PipeRow
<1> HIDE DEF job
<1>8. UNCHANGED <<apollo, runs, rows, leads, brief, told, barred, excused, unprobed, clock>>
  BY DEF Gather
<1>9. job.todo \subseteq job.found /\ job.outcome \in [job.found -> Outcomes]
  BY <1>7
<1>10. QED
  BY <1>1, <1>4, <1>7, <1>8, <1>9, PipeOnly DEF Active

LEMMA OpenGateStep ==
  ASSUME LeadIInv, NEW p \in Runners, OpenGate(p)
  PROVE  LeadIInv'
<1>1. /\ LeadTypes /\ pipe[p] \in PipeRow /\ pipe[p].step = "gate" /\ Active(p)
      /\ pipe[p].outcome \in [pipe[p].found -> Outcomes]
  BY DEF LeadIInv, LeadTypes, OpenGate, Active
<1>2. PICK run : run = pipe[p].run
  OBVIOUS
<1>3. PICK todo : todo = IF pipe[p].dry THEN {} ELSE Writable(run)
  OBVIOUS
<1>4. PICK tier : tier = IF pipe[p].dry THEN "none" ELSE GateTier(Cardinality(Writable(run)))
  OBVIOUS
<1>5. PICK errors \in BOOLEAN : errors = (pipe[p].errors /\ ~ pipe[p].dry)
  OBVIOUS
<1>6. PICK step \in {"close", "write"} : step = IF pipe[p].dry THEN "close" ELSE "write"
  OBVIOUS
<1> DEFINE job == [pipe[p] EXCEPT !.step = step, !.errors = errors, !.tier = tier, !.todo = todo]
<1>7. pipe' = [pipe EXCEPT ![p] = job]
  BY <1>1, <1>2, <1>3, <1>4, <1>5, <1>6 DEF LeadTypes, OpenGate
<1>8. run \in Runs /\ run \in 1 .. Len(runs)
  BY <1>1, <1>2 DEF LeadIInv, RunsOwned, PipeRow
<1>9. \A d \in todo : /\ d \in Domains /\ d \in pipe[p].found
                      /\ rows[<<run, d>>].status = "ready" /\ <<run, d>> \notin barred
  <2>1. \A d \in todo : d \in Domains /\ rows[<<run, d>>].status = "ready"
    BY <1>3 DEF Writable, RowsOf
  <2>2. \A d \in todo : Present(run, d)
    BY <2>1 DEF Present
  <2>3. \A d \in todo : d \in pipe[p].found
    BY <1>1, <1>2, <2>1, <2>2 DEF LeadIInv, RowsFound
  <2>4. \A d \in todo : <<run, d>> \notin barred
    BY <2>1 DEF LeadIInv, BarredOut
  <2>5. QED
    BY <2>1, <2>3, <2>4
<1>10. tier \in {"none", "bulk_update_small", "bulk_update_large"}
  BY <1>4 DEF GateTier
<1>11. /\ job \in PipeRow /\ job.step = step /\ job.run = run /\ job.todo = todo
       /\ job.found = pipe[p].found /\ job.outcome = pipe[p].outcome
  <2>1. todo \in SUBSET Domains
    BY <1>9
  <2>2. QED
    BY <1>1, <1>2, <1>10, <2>1 DEF PipeRow
<1> HIDE DEF job
<1>12. UNCHANGED <<apollo, runs, rows, leads, brief, told, barred, excused, unprobed, clock>>
  BY DEF OpenGate
<1>13. job.todo \subseteq job.found /\ job.outcome \in [job.found -> Outcomes]
  BY <1>1, <1>9, <1>11
<1>14. QED
  BY <1>1, <1>2, <1>7, <1>9, <1>11, <1>12, <1>13, PipeOnly

LEMMA KillRunnerStep ==
  ASSUME LeadIInv, NEW p \in Runners, KillRunner(p)
  PROVE  LeadIInv'
<1>1. /\ pipe' = [pipe EXCEPT ![p] = IdlePipe]
      /\ UNCHANGED <<apollo, runs, rows, leads, brief, told, barred, excused, unprobed, clock>>
  BY DEF KillRunner
<1>2. IdlePipe.todo \subseteq IdlePipe.found
  BY IdlePipeType
<1>3. IdlePipe.outcome \in [IdlePipe.found -> Outcomes]
  BY IdlePipeType
<1>4. QED
  BY <1>1, <1>2, <1>3, IdlePipeType, PipeOnly

LEMMA HourPassesStep ==
  ASSUME LeadIInv, HourPasses
  PROVE  LeadIInv'
<1>1. /\ clock \in 0 .. MaxClock /\ MaxClock \in Nat /\ clock < MaxClock /\ clock' = clock + 1
      /\ UNCHANGED <<apollo, runs, rows, leads, pipe, brief, told, barred, excused, unprobed>>
  BY LeadBounds DEF LeadIInv, LeadTypes, HourPasses
<1>2. LeadTypes'
  BY <1>1 DEF LeadIInv, LeadTypes
<1>3. RunsOwned' /\ RowsFound' /\ PipesClean'
  BY <1>1 DEF LeadIInv, RunsOwned, RowsFound, PipesClean, Active, Present
<1>4. QED
  BY <1>1, <1>2, <1>3, BriefingStays DEF LeadIInv, OneLeadPerAddress

LEMMA StartRunStep ==
  ASSUME LeadIInv, NEW p \in Runners, NEW injected \in BOOLEAN, StartRun(p, injected)
  PROVE  LeadIInv'
<1>1. PICK r : r = Len(runs) + 1
  OBVIOUS
<1>2. /\ LeadTypes /\ ~ Active(p) /\ r \in DOMAIN apollo
      /\ runs' = Append(runs, [status |-> "running", done |-> 0])
      /\ UNCHANGED <<apollo, rows, leads, brief, told, barred, excused, unprobed, clock>>
  BY <1>1 DEF LeadIInv, StartRun, Active
<1>3. r \in Runs /\ r \in 1 .. Len(apollo) /\ apollo[r] \subseteq Domains /\ Len(runs) \in Nat
  BY <1>2, RunIsRun
<1>4. PICK found \in SUBSET Domains : found = apollo[r]
  BY <1>3
<1>5. PICK step \in {"close", "enrich"} : step = IF found = {} THEN "close" ELSE "enrich"
  OBVIOUS
<1>6. PICK dry \in BOOLEAN : dry = (p # Nightly)
  OBVIOUS
<1>7. PICK outcome \in [found -> Outcomes] : outcome = [d \in found |-> "error"]
  BY DEF Outcomes
<1> DEFINE job == [IdlePipe EXCEPT !.step = step, !.run = r, !.found = found,
                                   !.outcome = outcome, !.dry = dry, !.injected = injected]
<1>8. pipe' = [pipe EXCEPT ![p] = job]
  BY <1>1, <1>4, <1>5, <1>6, <1>7 DEF StartRun
<1>9. /\ job \in PipeRow /\ job.step = step /\ job.run = r /\ job.found = found
      /\ job.outcome = outcome /\ job.todo = {}
  <2>1. outcome \in UNION {[f -> Outcomes] : f \in SUBSET Domains}
    BY <1>7
  <2>2. QED
    BY <1>3, <2>1, IdlePipeType DEF PipeRow
<1> HIDE DEF job
<1>10. /\ runs' \in Seq(RunRow) /\ Len(runs') = r /\ r =< Len(apollo)
       /\ runs'[r].status = "running" /\ \A k \in 1 .. Len(runs) : runs'[k] = runs[k]
  <2>1. [status |-> "running", done |-> 0] \in RunRow
    BY LeadBounds DEF RunRow
  <2>2. runs \in Seq(RunRow)
    BY <1>2 DEF LeadTypes
  <2>3. QED
    BY <1>1, <1>2, <1>3, <2>1, <2>2
<1>11. /\ pipe' \in [Runners -> PipeRow] /\ pipe'[p] = job
       /\ \A q \in Runners \ {p} : pipe'[q] = pipe[q]
       /\ \A q \in Runners : /\ pipe'[q].todo \subseteq pipe'[q].found
                             /\ pipe'[q].outcome \in [pipe'[q].found -> Outcomes]
  <2>1. job.todo \subseteq job.found /\ job.outcome \in [job.found -> Outcomes]
    BY <1>9
  <2>2. QED
    BY <1>2, <1>8, <1>9, <2>1, PipeMoves
<1>12. LeadTypes'
  BY <1>2, <1>10, <1>11 DEF LeadTypes
<1>13. RunsOwned'
  <2>1. \A q \in Runners \ {p} : Active(q)' =>
           /\ pipe'[q].run = pipe[q].run /\ pipe[q].run \in 1 .. Len(runs) /\ pipe[q].run # r
           /\ runs'[pipe[q].run].status = "running"
           /\ \A o \in Runners \ {p} : Active(o)' /\ pipe'[o].run = pipe[q].run => o = q
    BY <1>1, <1>3, <1>10, <1>11 DEF LeadIInv, RunsOwned, Active
  <2>2. pipe'[p].run = r /\ r \in 1 .. Len(runs') /\ runs'[r].status = "running"
    BY <1>3, <1>9, <1>10, <1>11
  <2>3. \A q \in Runners \ {p} : Active(q)' => pipe'[q].run \in 1 .. Len(runs')
    BY <1>1, <1>3, <1>10, <2>1
  <2>4. QED
    BY <2>1, <2>2, <2>3 DEF RunsOwned
<1>14. \A d \in Domains : ~ Present(r, d)
  BY <1>1, <1>3 DEF LeadIInv, RowsFound
<1>15. RowsFound'
  <2>1. \A k, d : Present(k, d)' <=> Present(k, d)
    BY <1>2 DEF Present
  <2>2. \A k \in Runs, d \in Domains : Present(k, d) => k =< Len(runs')
    BY <1>1, <1>3, <1>10, RunsNat DEF LeadIInv, RowsFound
  <2>3. \A q \in Runners \ {p}, d \in Domains : Active(q)' /\ Present(pipe'[q].run, d) =>
           d \in pipe'[q].found /\ pipe'[q].step \notin {"enrich", "buffer"}
    BY <1>11 DEF LeadIInv, RowsFound, Active
  <2>4. QED
    BY <1>9, <1>11, <1>14, <2>1, <2>2, <2>3 DEF RowsFound
<1>16. PipesClean'
  <2>1. job.todo = {} /\ job.step # "mark"
    BY <1>9
  <2>2. QED
    BY <1>2, <1>11, <2>1 DEF LeadIInv, PipesClean
<1>17. \A k : Over(k) => Over(k)'
  BY <1>1, <1>3, <1>10 DEF Over
<1>18. BarredOut' /\ ToldOver'
  BY <1>2, <1>17 DEF LeadIInv, BarredOut, ToldOver
<1>19. BriefsSound'
  BY <1>2, <1>17 DEF LeadIInv, BriefsSound, Sending, Present
<1>20. ToldOnce'
  BY <1>2, ToldOnceStays
<1>21. QED
  BY <1>2, <1>12, <1>13, <1>15, <1>16, <1>18, <1>19, <1>20 DEF LeadIInv, OneLeadPerAddress

LEMMA CloseRunStep ==
  ASSUME LeadIInv, NEW p \in Runners, CloseRun(p)
  PROVE  LeadIInv'
<1>1. PICK failed \in BOOLEAN :
        /\ Active(p)
        /\ runs' = [runs EXCEPT ![pipe[p].run] =
                      [status |-> IF failed THEN "error"
                                  ELSE IF pipe[p].errors THEN "partial" ELSE "success",
                       done |-> clock]]
        /\ pipe' = [pipe EXCEPT ![p] = IdlePipe]
        /\ UNCHANGED <<apollo, rows, leads, brief, told, barred, excused, unprobed, clock>>
  BY DEF CloseRun, Active
<1>2. PICK row \in RunRow : row.status # "running" /\ runs' = [runs EXCEPT ![pipe[p].run] = row]
  <2>1. clock \in 0 .. MaxClock
    BY DEF LeadIInv, LeadTypes
  <2>2. PICK status \in {"error", "partial", "success"} :
          status = IF failed THEN "error" ELSE IF pipe[p].errors THEN "partial" ELSE "success"
    OBVIOUS
  <2>3. [status |-> status, done |-> clock] \in RunRow
    BY <2>1 DEF RunRow
  <2>4. QED
    BY <1>1, <2>2, <2>3
<1>3. LeadTypes /\ Len(runs) \in Nat /\ pipe[p].run \in 1 .. Len(runs) /\ runs \in Seq(RunRow)
  BY <1>1 DEF LeadIInv, LeadTypes, RunsOwned
<1>4. /\ runs' \in Seq(RunRow) /\ Len(runs') = Len(runs) /\ runs'[pipe[p].run] = row
      /\ \A k \in 1 .. Len(runs) : k # pipe[p].run => runs'[k] = runs[k]
  BY <1>2, <1>3
<1>5. IdlePipe.todo \subseteq IdlePipe.found /\ IdlePipe.outcome \in [IdlePipe.found -> Outcomes]
  BY IdlePipeType
<1>6. /\ pipe' \in [Runners -> PipeRow] /\ pipe'[p] = IdlePipe
      /\ \A q \in Runners \ {p} : pipe'[q] = pipe[q]
      /\ \A q \in Runners : /\ pipe'[q].todo \subseteq pipe'[q].found
                            /\ pipe'[q].outcome \in [pipe'[q].found -> Outcomes]
  BY <1>1, <1>3, <1>5, IdlePipeType, PipeMoves
<1>7. LeadTypes'
  BY <1>1, <1>3, <1>4, <1>6 DEF LeadTypes
<1>8. ~ Active(p)' /\ \A q \in Runners \ {p} : Active(q)' <=> Active(q)
  BY <1>6, IdlePipeType DEF Active
<1>9. RunsOwned'
  <2>1. \A q \in Runners \ {p} : Active(q) => pipe[q].run # pipe[p].run
    BY <1>1 DEF LeadIInv, RunsOwned
  <2>2. QED
    BY <1>4, <1>6, <1>8, <2>1 DEF LeadIInv, RunsOwned
<1>10. RowsFound'
  <2>1. \A k, d : Present(k, d)' <=> Present(k, d)
    BY <1>1 DEF Present
  <2>2. QED
    BY <1>4, <1>6, <1>8, <2>1 DEF LeadIInv, RowsFound
<1>11. PipesClean'
  BY <1>1, <1>6, IdlePipeType DEF LeadIInv, PipesClean
<1>12. \A k : Over(k) => Over(k)'
  BY <1>2, <1>4 DEF Over
<1>13. BarredOut' /\ ToldOver'
  BY <1>1, <1>12 DEF LeadIInv, BarredOut, ToldOver
<1>14. BriefsSound'
  BY <1>1, <1>12 DEF LeadIInv, BriefsSound, Sending, Present
<1>15. ToldOnce'
  BY <1>1, ToldOnceStays
<1>16. QED
  BY <1>1, <1>7, <1>9, <1>10, <1>11, <1>13, <1>14, <1>15 DEF LeadIInv, OneLeadPerAddress

(* A runner that writes rows of its own run: nobody has been told of it,   *)
(* and no briefing is at work on it.                                       *)
LEMMA OwnRows ==
  ASSUME LeadIInv, NEW p \in Runners, Active(p), UNCHANGED <<runs, brief, told, excused>>,
         \A r \in Runs, d \in Domains : r # pipe[p].run => rows'[<<r, d>>] = rows[<<r, d>>],
         \A d \in Domains : Present(pipe[p].run, d) => Present(pipe[p].run, d)',
         \A k \in barred' : k \in barred \/ \E d \in Domains : k = <<pipe[p].run, d>>
  PROVE  ToldOver' /\ BriefsSound' /\ ToldOnce'
<1>1. LeadTypes /\ pipe[p].run \in Runs /\ ~ Over(pipe[p].run)
  BY RunIsRun DEF LeadIInv, RunsOwned, Over
<1>2. /\ \A r : Over(r)' <=> Over(r)
      /\ \A b : Sending(b)' <=> Sending(b)
      /\ \A b : \A r, d : /\ Marked(b, r, d)' <=> Marked(b, r, d)
                          /\ StillToTell(b, r, d)' <=> StillToTell(b, r, d)
                          /\ Holds(b, r, d)' <=> Holds(b, r, d)
  BY DEF Over, Marked, StillToTell, Holds, Sending
<1>3. ToldOver'
  BY <1>2 DEF LeadIInv, ToldOver
<1>4. BriefsSound'
  <2>1. \A b \in Briefers : Sending(b) => brief[b].run \in Runs /\ brief[b].run # pipe[p].run
    BY <1>1 DEF LeadIInv, BriefsSound, LeadTypes, BriefRow
  <2>2. \A r \in Runs, d \in Domains : r # pipe[p].run => (Present(r, d)' <=> Present(r, d))
    BY DEF Present
  <2>3. \A b \in Briefers : \A s \in DOMAIN brief[b].share : brief[b].share[s] \subseteq Domains
    BY <1>1 DEF LeadTypes, BriefRow
  <2>4. \A b \in Briefers : Sending(b) => \A d \in Domains :
          (<<brief[b].run, d>> \notin barred => <<brief[b].run, d>> \notin barred')
    BY <2>1
  <2>5. QED
    BY <1>2, <2>1, <2>2, <2>3, <2>4 DEF LeadIInv, BriefsSound
<1>5. ToldOnce'
  <2>1. \A d \in Domains : told[<<pipe[p].run, d>>] = 0
    BY <1>1 DEF LeadIInv, ToldOver
  <2>2. QED
    BY <1>2, <2>1 DEF LeadIInv, ToldOnce
<1>6. QED
  BY <1>3, <1>4, <1>5

LEMMA BufferStep ==
  ASSUME LeadIInv, NEW p \in Runners, Buffer(p)
  PROVE  LeadIInv'
<1>1. /\ LeadTypes /\ pipe[p] \in PipeRow /\ pipe[p].step = "buffer" /\ Active(p)
      /\ pipe[p].todo = {}
  BY DEF LeadIInv, LeadTypes, Buffer, Active, PipesClean
<1>2. PICK run \in Runs : run = pipe[p].run /\ run \in 1 .. Len(runs)
  BY <1>1, RunIsRun DEF LeadIInv, RunsOwned
<1>3. PICK found \in SUBSET Domains : found = pipe[p].found
  BY <1>1 DEF PipeRow
<1>4. PICK outcome \in [found -> Outcomes] : outcome = pipe[p].outcome
  BY <1>1, <1>3 DEF LeadTypes
<1>5. PICK owner \in [pipe[p].found -> Owners \union {Nobody}], done \in SUBSET pipe[p].found :
        /\ rows' = [k \in Keys |->
                      IF k[1] = pipe[p].run /\ k[2] \in done
                      THEN CandidateRow(pipe[p].outcome[k[2]], owner[k[2]]) ELSE rows[k]]
        /\ barred' = barred \union {<<pipe[p].run, d>> :
                                     d \in {e \in done : pipe[p].outcome[e] = "suppressed"}}
        /\ pipe' = [pipe EXCEPT ![p].step = IF done = pipe[p].found THEN "gate" ELSE "failed"]
  BY DEF Buffer
<1>6. /\ done \subseteq found /\ owner \in [found -> Owners \union {Nobody}]
       /\ \A k : k \in barred' <=> \/ k \in barred
                                   \/ \E d \in done : outcome[d] = "suppressed" /\ k = <<run, d>>
  BY <1>2, <1>3, <1>4, <1>5
<1>7. UNCHANGED <<apollo, runs, leads, brief, told, excused, unprobed, clock>>
  BY DEF Buffer
<1>8. PICK step \in {"gate", "failed"} : step = IF done = found THEN "gate" ELSE "failed"
  OBVIOUS
<1> DEFINE job == [pipe[p] EXCEPT !.step = step]
<1>9. pipe' = [pipe EXCEPT ![p] = job]
  BY <1>1, <1>3, <1>5, <1>8 DEF LeadTypes
<1>10. /\ job \in PipeRow /\ job.step = step /\ job.run = run /\ job.todo = {}
      /\ job.found = found /\ job.outcome = outcome
  BY <1>1, <1>2, <1>3, <1>4 DEF PipeRow
<1> HIDE DEF job
<1>11. /\ pipe' \in [Runners -> PipeRow] /\ pipe'[p] = job
       /\ \A q \in Runners \ {p} : pipe'[q] = pipe[q]
       /\ \A q \in Runners : /\ pipe'[q].todo \subseteq pipe'[q].found
                             /\ pipe'[q].outcome \in [pipe'[q].found -> Outcomes]
  <2>1. job.todo \subseteq job.found /\ job.outcome \in [job.found -> Outcomes]
    BY <1>10
  <2>2. QED
    BY <1>1, <1>9, <1>10, <2>1, PipeMoves
<1>12. \A d \in done : CandidateRow(outcome[d], owner[d]) \in Candidate
  BY <1>6 DEF CandidateRow, Candidate
<1>13. /\ rows' \in [Keys -> Candidate]
       /\ \A r \in Runs, d \in Domains :
            rows'[<<r, d>>] = IF r = run /\ d \in done THEN CandidateRow(outcome[d], owner[d])
                              ELSE rows[<<r, d>>]
  <2>1. \A k \in Keys : rows'[k] = IF k[1] = run /\ k[2] \in done
                                   THEN CandidateRow(outcome[k[2]], owner[k[2]]) ELSE rows[k]
    BY <1>2, <1>4, <1>5
  <2>2. ASSUME NEW k \in Keys PROVE rows'[k] \in Candidate
    <3>1. rows[k] \in Candidate
      BY <1>1 DEF LeadTypes
    <3>2. CASE k[1] = run /\ k[2] \in done
      BY <1>12, <2>1, <3>2
    <3>3. CASE ~ (k[1] = run /\ k[2] \in done)
      BY <2>1, <3>1, <3>3
    <3>4. QED
      BY <3>2, <3>3
  <2>3. rows' \in [Keys -> Candidate]
    BY <1>5, <2>2
  <2>4. \A r \in Runs, d \in Domains : <<r, d>> \in Keys
    BY DEF Keys
  <2>5. QED
    BY <2>1, <2>3, <2>4
<1>14. barred' \subseteq Keys
  BY <1>1, <1>2, <1>3, <1>6 DEF LeadTypes, Keys
<1>15. LeadTypes'
  BY <1>1, <1>7, <1>11, <1>13, <1>14 DEF LeadTypes
<1>16. RunsOwned'
  BY <1>1, <1>2, <1>7, <1>10, <1>11, OwnedStays
<1>17. \A d \in Domains : ~ Present(run, d)
  BY <1>1, <1>2 DEF LeadIInv, RowsFound
<1>18. \A q \in Runners \ {p} : Active(q) => pipe[q].run # run
  BY <1>1, <1>2 DEF LeadIInv, RunsOwned
<1>19. RowsFound'
  <2>1. \A r \in Runs, d \in Domains :
           Present(r, d)' => Present(r, d) \/ (r = run /\ d \in found)
    BY <1>13, <1>6 DEF Present
  <2>2. \A r \in Runs, d \in Domains : Present(r, d)' => r =< Len(runs)
    BY <1>1, <1>2, <2>1, RunIsRun DEF LeadIInv, RowsFound
  <2>3. \A q \in Runners \ {p} : Active(q)' => Active(q) /\ pipe'[q] = pipe[q] /\ pipe[q].run \in Runs
    BY <1>1, <1>11 DEF Active, LeadTypes, PipeRow
  <2>4. ASSUME NEW q \in Runners, NEW d \in Domains, (Active(q) /\ Present(pipe[q].run, d))'
        PROVE  d \in pipe'[q].found /\ pipe'[q].step \notin {"enrich", "buffer"}
    <3>1. CASE q = p
      <4>1. pipe'[q] = job
        BY <1>11, <3>1
      <4>2. rows'[<<run, d>>].status # "absent"
        BY <1>10, <2>4, <4>1 DEF Present
      <4>3. d \in found
        BY <1>2, <1>17, <2>1, <4>2 DEF Present
      <4>4. QED
        BY <1>8, <1>10, <4>1, <4>3
    <3>2. CASE q # p
      <4>1. Active(q) /\ pipe'[q] = pipe[q] /\ pipe[q].run \in Runs /\ pipe[q].run # run
        BY <1>18, <2>3, <2>4, <3>2
      <4>2. rows'[<<pipe[q].run, d>>].status # "absent"
        BY <2>4, <4>1 DEF Present
      <4>3. Present(pipe[q].run, d)
        BY <1>13, <4>1, <4>2 DEF Present
      <4>4. QED
        BY <4>1, <4>3 DEF LeadIInv, RowsFound
    <3>3. QED
      BY <3>1, <3>2
  <2>5. QED
    BY <1>7, <2>2, <2>4 DEF RowsFound
<1>20. PipesClean'
  <2>1. \A q \in Runners \ {p} : \A d : ~ Active(q) \/ (<<pipe[q].run, d>> \in barred' =>
                                                    <<pipe[q].run, d>> \in barred)
    BY <1>18, <1>6
  <2>2. \A q \in Runners \ {p} : /\ pipe[q].step = "mark" => Active(q)
                                 /\ pipe[q].todo # {} => Active(q)
    BY DEF Active, LeadIInv, PipesClean
  <2>3. \A q \in Runners \ {p} :
          /\ \A d \in pipe[q].todo : <<pipe[q].run, d>> \notin barred'
          /\ pipe[q].step = "mark" => <<pipe[q].run, pipe[q].at>> \notin barred'
    BY <2>1, <2>2 DEF LeadIInv, PipesClean
  <2>4. job.todo = {} /\ job.step # "mark"
    BY <1>10
  <2>5. QED
    BY <1>11, <2>3, <2>4 DEF LeadIInv, PipesClean
<1>21. ToldOver' /\ BriefsSound' /\ ToldOnce'
  <2>1. \A k \in barred' : k \in barred \/ \E d \in Domains : k = <<run, d>>
    BY <1>3, <1>6
  <2>2. \A r \in Runs, d \in Domains : r # run => rows'[<<r, d>>] = rows[<<r, d>>]
    BY <1>13
  <2>3. QED
    BY <1>1, <1>2, <1>7, <1>17, <2>1, <2>2, OwnRows
<1>22. BarredOut'
  <2>1. \A d \in Domains : told[<<run, d>>] = 0
    <3>1. ~ Over(run)
      BY <1>1, <1>2 DEF LeadIInv, RunsOwned, Over
    <3>2. QED
      BY <3>1 DEF LeadIInv, ToldOver
  <2>2. \A d \in Domains : <<run, d>> \notin barred
    BY <1>17 DEF LeadIInv, BarredOut, Present
  <2>3. ASSUME NEW k \in barred' PROVE rows'[k].status = "suppressed" /\ ~ rows'[k].lead /\ told[k] = 0
    <3>1. CASE k \in barred
      <4>1. PICK r \in Runs, d \in Domains : k = <<r, d>>
        BY <1>1, <3>1 DEF LeadTypes, Keys
      <4>2. r # run
        BY <2>2, <3>1, <4>1
      <4>3. rows'[k] = rows[k]
        BY <1>13, <4>1, <4>2
      <4>4. QED
        BY <3>1, <4>3 DEF LeadIInv, BarredOut
    <3>2. CASE k \notin barred
      <4>1. PICK d \in done : k = <<run, d>> /\ outcome[d] = "suppressed"
        BY <1>6, <2>3, <3>2
      <4>2. rows'[k] = CandidateRow(outcome[d], owner[d])
        BY <1>3, <1>13, <1>6, <4>1
      <4>3. QED
        BY <1>3, <1>6, <2>1, <4>1, <4>2 DEF CandidateRow
    <3>3. QED
      BY <3>1, <3>2
  <2>4. QED
    BY <1>7, <2>3 DEF BarredOut
<1>23. QED
  BY <1>7, <1>15, <1>16, <1>19, <1>20, <1>21, <1>22 DEF LeadIInv, OneLeadPerAddress

(* A writer goes on with its run, and may change one row that is its own   *)
(* and not barred.                                                         *)
LEMMA WriterGoesOn ==
  ASSUME LeadIInv, NEW p \in Runners, pipe[p].step \in {"write", "mark"},
         NEW job \in PipeRow, job.run = pipe[p].run, job.found = pipe[p].found,
         job.outcome = pipe[p].outcome, job.todo \subseteq pipe[p].todo,
         job.step \in {"write", "mark"},
         job.step = "mark" => job.at \in job.found /\ <<job.run, job.at>> \notin barred,
         pipe' = [pipe EXCEPT ![p] = job],
         NEW d \in pipe[p].found, <<pipe[p].run, d>> \notin barred,
         rows' \in [Keys -> Candidate],
         \A r \in Runs, e \in Domains :
            \/ rows'[<<r, e>>] = rows[<<r, e>>]
            \/ r = pipe[p].run /\ e = d /\ rows'[<<r, e>>].status # "absent",
         UNCHANGED <<apollo, runs, brief, told, barred, excused, clock>>,
         leads' \in [Domains -> 0 .. MaxLeads], unprobed' \subseteq Domains,
         OneLeadPerAddress'
  PROVE  LeadIInv'
<1>1. /\ LeadTypes /\ Active(p) /\ pipe[p] \in PipeRow /\ pipe[p].run \in Runs
      /\ pipe[p].outcome \in [pipe[p].found -> Outcomes] /\ pipe[p].todo \subseteq pipe[p].found
      /\ pipe[p].step \notin {"enrich", "buffer", "idle"} /\ job.step \notin {"enrich", "buffer", "idle"}
  BY DEF LeadIInv, LeadTypes, Active, PipeRow
<1>2. pipe[p].run \in 1 .. Len(runs) /\ Len(runs) \in Nat
  BY <1>1 DEF LeadIInv, RunsOwned, LeadTypes
<1>3. /\ pipe' \in [Runners -> PipeRow] /\ pipe'[p] = job
      /\ \A q \in Runners \ {p} : pipe'[q] = pipe[q]
      /\ \A q \in Runners : /\ pipe'[q].todo \subseteq pipe'[q].found
                            /\ pipe'[q].outcome \in [pipe'[q].found -> Outcomes]
  <2>1. job.todo \subseteq job.found /\ job.outcome \in [job.found -> Outcomes]
    BY <1>1
  <2>2. QED
    BY <1>1, <2>1, PipeMoves
<1>4. LeadTypes'
  BY <1>1, <1>3 DEF LeadTypes
<1>5. RunsOwned'
  BY <1>1, <1>3, OwnedStays
<1>6. /\ \A r \in Runs, e \in Domains : Present(r, e) => rows'[<<r, e>>].status # "absent"
      /\ \A r \in Runs, e \in Domains : rows'[<<r, e>>].status # "absent" =>
           Present(r, e) \/ (r = pipe[p].run /\ e = d)
      /\ \A r \in Runs, e \in Domains : r # pipe[p].run => rows'[<<r, e>>] = rows[<<r, e>>]
  BY DEF Present
<1>7. RowsFound'
  <2>1. \A r \in Runs, e \in Domains : Present(r, e)' => r =< Len(runs)
    BY <1>2, <1>6 DEF LeadIInv, RowsFound, Present
  <2>2. ASSUME NEW q \in Runners, NEW e \in Domains, (Active(q) /\ Present(pipe[q].run, e))'
        PROVE  e \in pipe'[q].found /\ pipe'[q].step \notin {"enrich", "buffer"}
    <3>1. CASE q = p
      <4>1. pipe'[q] = job
        BY <1>3, <3>1
      <4>2. rows'[<<pipe[p].run, e>>].status # "absent"
        BY <2>2, <4>1 DEF Present
      <4>3. Present(pipe[p].run, e) \/ e = d
        BY <1>1, <1>6, <4>2
      <4>4. e \in pipe[p].found
        BY <1>1, <4>3 DEF LeadIInv, RowsFound
      <4>5. QED
        BY <1>1, <4>1, <4>4
    <3>2. CASE q # p
      <4>1. pipe'[q] = pipe[q] /\ Active(q) /\ pipe[q].run # pipe[p].run /\ pipe[q].run \in Runs
        BY <1>1, <1>3, <2>2, <3>2 DEF Active, LeadIInv, RunsOwned, LeadTypes, PipeRow
      <4>2. Present(pipe[q].run, e)
        BY <1>6, <2>2, <4>1 DEF Present
      <4>3. QED
        BY <4>1, <4>2 DEF LeadIInv, RowsFound
    <3>3. QED
      BY <3>1, <3>2
  <2>3. QED
    BY <2>1, <2>2 DEF RowsFound
<1>8. PipesClean'
  <2>1. \A e \in job.todo : <<job.run, e>> \notin barred
    BY DEF LeadIInv, PipesClean
  <2>2. QED
    BY <1>1, <1>3, <2>1 DEF LeadIInv, PipesClean
<1>9. BarredOut'
  <2>1. \A k \in barred : rows'[k] = rows[k]
    <3>1. SUFFICES ASSUME NEW k \in barred PROVE rows'[k] = rows[k]
      OBVIOUS
    <3>2. PICK r \in Runs, e \in Domains : k = <<r, e>>
      BY <1>1 DEF LeadTypes, Keys
    <3>3. ~ (r = pipe[p].run /\ e = d)
      BY <3>2
    <3>4. QED
      BY <3>2, <3>3
  <2>2. QED
    BY <2>1 DEF LeadIInv, BarredOut
<1>10. ToldOver' /\ BriefsSound' /\ ToldOnce'
  <2>1. \A e \in Domains : Present(pipe[p].run, e) => Present(pipe[p].run, e)'
    BY <1>1, <1>6 DEF Present
  <2>2. QED
    BY <1>1, <1>6, <2>1, OwnRows
<1>11. QED
  BY <1>4, <1>5, <1>7, <1>8, <1>9, <1>10 DEF LeadIInv

LEMMA CreateLeadStep ==
  ASSUME LeadIInv, NEW p \in Runners, NEW d \in Domains, CreateLead(p, d)
  PROVE  LeadIInv'
<1>1. /\ LeadTypes /\ pipe[p] \in PipeRow /\ pipe[p].step = "write" /\ d \in pipe[p].todo
      /\ d \in pipe[p].found /\ <<pipe[p].run, d>> \notin barred
      /\ pipe[p].run \in Runs /\ <<pipe[p].run, d>> \in Keys
  BY DEF LeadIInv, LeadTypes, CreateLead, PipesClean, PipeRow, Keys
<1>2. UNCHANGED <<apollo, runs, brief, told, barred, excused, clock>>
  BY DEF CreateLead
<1>3. /\ rows \in [Keys -> Candidate] /\ leads \in [Domains -> 0 .. MaxLeads]
      /\ unprobed \subseteq Domains /\ pipe \in [Runners -> PipeRow]
  BY <1>1 DEF LeadTypes
<1> DEFINE fails == [pipe[p] EXCEPT !.todo = pipe[p].todo \ {d}, !.errors = TRUE]
           works == [pipe[p] EXCEPT !.todo = pipe[p].todo \ {d}, !.step = "mark", !.at = d]
           drops == [pipe[p] EXCEPT !.todo = pipe[p].todo \ {d}]
<1>4. PICK raises \in BOOLEAN :
        \/ /\ Duplicate(p, d) /\ ~ raises
           /\ rows' = [rows EXCEPT ![<<pipe[p].run, d>>].status = "suppressed"]
           /\ pipe' = [pipe EXCEPT ![p] = drops]
           /\ UNCHANGED <<leads, unprobed>>
        \/ /\ pipe' = [pipe EXCEPT ![p] = fails]
           /\ UNCHANGED <<rows, leads, unprobed>>
        \/ /\ raises \/ ~ Duplicate(p, d)
           /\ Accepted(p) /\ leads[d] < MaxLeads
           /\ leads' = [leads EXCEPT ![d] = leads[d] + 1]
           /\ unprobed' = IF raises THEN unprobed \union {d} ELSE unprobed
           /\ pipe' = [pipe EXCEPT ![p] = fails] \/ pipe' = [pipe EXCEPT ![p] = works]
           /\ UNCHANGED rows
  BY <1>3 DEF CreateLead
<1>5. /\ fails \in PipeRow /\ fails.step = "write" /\ fails.todo = pipe[p].todo \ {d}
      /\ fails.run = pipe[p].run /\ fails.found = pipe[p].found /\ fails.outcome = pipe[p].outcome
  BY <1>1 DEF PipeRow
<1>6. /\ works \in PipeRow /\ works.step = "mark" /\ works.at = d /\ works.todo = pipe[p].todo \ {d}
      /\ works.run = pipe[p].run /\ works.found = pipe[p].found /\ works.outcome = pipe[p].outcome
  BY <1>1 DEF PipeRow
<1>7. /\ drops \in PipeRow /\ drops.step = "write" /\ drops.todo = pipe[p].todo \ {d}
      /\ drops.run = pipe[p].run /\ drops.found = pipe[p].found /\ drops.outcome = pipe[p].outcome
  BY <1>1 DEF PipeRow
<1> HIDE DEF fails, works, drops
<1>8. PICK job \in {fails, works, drops} : pipe' = [pipe EXCEPT ![p] = job]
  BY <1>4
<1>9. /\ job \in PipeRow /\ job.run = pipe[p].run /\ job.found = pipe[p].found
      /\ job.outcome = pipe[p].outcome /\ job.todo \subseteq pipe[p].todo
      /\ job.step \in {"write", "mark"}
      /\ job.step = "mark" => job.at \in job.found /\ <<job.run, job.at>> \notin barred
  BY <1>1, <1>5, <1>6, <1>7
<1>10. /\ rows' \in [Keys -> Candidate]
       /\ \A r \in Runs, e \in Domains :
            \/ rows'[<<r, e>>] = rows[<<r, e>>]
            \/ r = pipe[p].run /\ e = d /\ rows'[<<r, e>>].status # "absent"
  <2>1. CASE UNCHANGED rows
    BY <1>3, <2>1
  <2>2. CASE rows' = [rows EXCEPT ![<<pipe[p].run, d>>].status = "suppressed"]
    <3>1. PICK row : row = [rows[<<pipe[p].run, d>>] EXCEPT !.status = "suppressed"]
      OBVIOUS
    <3>2. rows[<<pipe[p].run, d>>] \in Candidate
      BY <1>1, <1>3
    <3>3. row \in Candidate /\ row.status = "suppressed"
      BY <3>1, <3>2 DEF Candidate
    <3>4. rows' = [rows EXCEPT ![<<pipe[p].run, d>>] = row]
      BY <1>3, <2>2, <3>1
    <3>5. \A r \in Runs, e \in Domains : <<r, e>> \in Keys
      BY DEF Keys
    <3>6. QED
      BY <1>1, <1>3, <3>3, <3>4, <3>5
  <2>3. QED
    BY <1>4, <2>1, <2>2
<1>11. leads[d] \in 0 .. MaxLeads /\ MaxLeads \in Nat
  BY <1>3, LeadBounds
<1>12. leads' \in [Domains -> 0 .. MaxLeads] /\ unprobed' \subseteq Domains
  BY <1>3, <1>4, <1>11
<1>13. OneLeadPerAddress'
  <2>1. CASE UNCHANGED <<leads, unprobed>>
    BY <2>1 DEF LeadIInv, OneLeadPerAddress
  <2>2. CASE /\ raises \/ ~ Duplicate(p, d)
             /\ Accepted(p) /\ leads[d] < MaxLeads
             /\ leads' = [leads EXCEPT ![d] = leads[d] + 1]
             /\ unprobed' = IF raises THEN unprobed \union {d} ELSE unprobed
    <3>1. pipe[p].injected
      BY <1>1, <2>2 DEF Accepted, PipeRow
    <3>2. ASSUME d \in Addressed, d \notin unprobed' PROVE leads'[d] =< 1
      <4>1. ~ Duplicate(p, d)
        BY <2>2, <3>2
      <4>2. leads[d] = 0
        BY <1>11, <3>1, <3>2, <4>1 DEF Duplicate
      <4>3. QED
        BY <1>3, <2>2, <4>2
    <3>3. \A e \in Addressed \ unprobed' : e # d => e \in Domains /\ e \notin unprobed /\ leads'[e] = leads[e]
      BY <1>3, <2>2, AddressedAssumption
    <3>4. QED
      BY <3>2, <3>3 DEF LeadIInv, OneLeadPerAddress
  <2>3. QED
    BY <1>4, <2>1, <2>2
<1>14. QED
  BY <1>1, <1>2, <1>8, <1>9, <1>10, <1>12, <1>13, WriterGoesOn

LEMMA MarkWrittenStep ==
  ASSUME LeadIInv, NEW p \in Runners, MarkWritten(p)
  PROVE  LeadIInv'
<1>1. /\ LeadTypes /\ pipe[p] \in PipeRow /\ pipe[p].step = "mark"
      /\ pipe[p].at \in pipe[p].found /\ pipe[p].at \in Domains
      /\ <<pipe[p].run, pipe[p].at>> \notin barred /\ pipe[p].run \in Runs
  BY DEF LeadIInv, LeadTypes, MarkWritten, PipesClean, PipeRow
<1>2. /\ rows \in [Keys -> Candidate] /\ leads \in [Domains -> 0 .. MaxLeads]
      /\ unprobed \subseteq Domains /\ pipe \in [Runners -> PipeRow]
      /\ <<pipe[p].run, pipe[p].at>> \in Keys
  BY <1>1 DEF LeadTypes, Keys
<1> DEFINE job == [pipe[p] EXCEPT !.step = "write"]
<1>3. pipe' = [pipe EXCEPT ![p] = job]
  BY <1>2 DEF MarkWritten
<1>4. /\ job \in PipeRow /\ job.step = "write" /\ job.run = pipe[p].run /\ job.todo = pipe[p].todo
      /\ job.found = pipe[p].found /\ job.outcome = pipe[p].outcome
  BY <1>1 DEF PipeRow
<1> HIDE DEF job
<1>5. PICK row : row = [rows[<<pipe[p].run, pipe[p].at>>] EXCEPT !.status = "briefed", !.lead = TRUE]
  OBVIOUS
<1>6. row \in Candidate /\ row.status = "briefed"
  BY <1>2, <1>5 DEF Candidate
<1>7. rows' = [rows EXCEPT ![<<pipe[p].run, pipe[p].at>>] = row]
  BY <1>2, <1>5 DEF MarkWritten
<1>8. /\ rows' \in [Keys -> Candidate]
      /\ \A r \in Runs, e \in Domains :
           \/ rows'[<<r, e>>] = rows[<<r, e>>]
           \/ r = pipe[p].run /\ e = pipe[p].at /\ rows'[<<r, e>>].status # "absent"
  <2>1. \A r \in Runs, e \in Domains : <<r, e>> \in Keys
    BY DEF Keys
  <2>2. QED
    BY <1>2, <1>6, <1>7, <2>1
<1>9. UNCHANGED <<apollo, runs, leads, brief, told, barred, excused, unprobed, clock>>
  BY DEF MarkWritten
<1>10. leads' \in [Domains -> 0 .. MaxLeads] /\ unprobed' \subseteq Domains /\ OneLeadPerAddress'
  BY <1>2, <1>9 DEF LeadIInv, OneLeadPerAddress
<1>11. QED
  BY <1>1, <1>3, <1>4, <1>8, <1>9, <1>10, WriterGoesOn

(* A step of a briefer leaves the runners alone.                           *)
LEMMA BrieferSteps ==
  ASSUME LeadIInv, NEW b \in Briefers, NEW job \in BriefRow, job.todo \subseteq DOMAIN job.share,
         brief' = [brief EXCEPT ![b] = job],
         UNCHANGED <<apollo, runs, leads, pipe, barred, unprobed, clock>>,
         rows' \in [Keys -> Candidate],
         \A r \in Runs, d \in Domains : rows'[<<r, d>>].status = "absent" <=> ~ Present(r, d),
         told' \in [Keys -> Nat], excused' \subseteq Keys
  PROVE  /\ LeadTypes' /\ RunsOwned' /\ RowsFound' /\ PipesClean' /\ OneLeadPerAddress'
         /\ brief'[b] = job /\ \A c \in Briefers \ {b} : brief'[c] = brief[c]
<1>1. /\ LeadTypes
      /\ brief' \in [Briefers -> BriefRow] /\ brief'[b] = job
      /\ \A c \in Briefers \ {b} : brief'[c] = brief[c]
      /\ \A c \in Briefers : brief'[c].todo \subseteq DOMAIN brief'[c].share
  BY BriefMoves DEF LeadIInv
<1>2. LeadTypes'
  BY <1>1 DEF LeadTypes
<1>3. RunsOwned' /\ PipesClean' /\ OneLeadPerAddress'
  BY DEF LeadIInv, RunsOwned, PipesClean, OneLeadPerAddress, Active
<1>4. RowsFound'
  <2>1. \A r \in Runs, d \in Domains : Present(r, d)' <=> Present(r, d)
    BY DEF Present
  <2>2. \A p \in Runners : pipe[p].run \in Runs
    BY <1>1 DEF LeadTypes, PipeRow
  <2>3. ASSUME NEW p \in Runners, NEW d \in Domains, (Active(p) /\ Present(pipe[p].run, d))'
        PROVE  d \in pipe[p].found /\ pipe[p].step \notin {"enrich", "buffer"}
    <3>1. pipe'[p] = pipe[p] /\ Active(p)
      BY <2>3 DEF Active
    <3>2. rows'[<<pipe[p].run, d>>].status # "absent"
      BY <2>3, <3>1 DEF Present
    <3>3. Present(pipe[p].run, d)
      BY <2>2, <3>2
    <3>4. QED
      BY <3>1, <3>3 DEF LeadIInv, RowsFound
  <2>4. \A p \in Runners : pipe'[p] = pipe[p]
    OBVIOUS
  <2>5. \A r \in Runs, d \in Domains : Present(r, d)' => r =< Len(runs')
    BY <2>1 DEF LeadIInv, RowsFound
  <2>6. QED
    BY <2>3, <2>4, <2>5 DEF RowsFound
<1>5. QED
  BY <1>1, <1>2, <1>3, <1>4

LEMMA KillBrieferStep ==
  ASSUME LeadIInv, NEW b \in Briefers, KillBriefer(b)
  PROVE  LeadIInv'
<1>1. /\ LeadTypes /\ Sending(b) /\ brief[b] \in BriefRow /\ brief[b].run \in Runs
      /\ rows \in [Keys -> Candidate] /\ told \in [Keys -> Nat]
      /\ brief' = [brief EXCEPT ![b] = IdleBrief]
      /\ UNCHANGED <<apollo, runs, rows, leads, pipe, told, barred, unprobed, clock>>
  BY DEF LeadIInv, LeadTypes, KillBriefer, Sending, BriefRow
<1>2. \A s \in DOMAIN brief[b].share : brief[b].share[s] \subseteq Domains
  BY <1>1 DEF BriefRow
<1>3. /\ excused \subseteq excused'
      /\ \A s \in DOMAIN brief[b].share : \A d \in brief[b].share[s] : <<brief[b].run, d>> \in excused'
  BY DEF KillBriefer, Shared
<1>4. excused' \subseteq Keys
  BY <1>1, <1>2 DEF KillBriefer, Shared, LeadTypes, Keys
<1>5. IdleBrief.todo \subseteq DOMAIN IdleBrief.share
  BY IdleBriefType
<1>6. \A r \in Runs, d \in Domains : rows'[<<r, d>>].status = "absent" <=> ~ Present(r, d)
  BY <1>1 DEF Present
<1>7. /\ LeadTypes' /\ RunsOwned' /\ RowsFound' /\ PipesClean' /\ OneLeadPerAddress'
      /\ brief'[b] = IdleBrief /\ \A c \in Briefers \ {b} : brief'[c] = brief[c]
  BY <1>1, <1>4, <1>5, <1>6, IdleBriefType, BrieferSteps
<1>8. ~ Sending(b)' /\ \A c \in Briefers \ {b} : Sending(c)' <=> Sending(c)
  BY <1>7, IdleBriefType DEF Sending
<1>9. BarredOut' /\ ToldOver'
  BY <1>1 DEF LeadIInv, BarredOut, ToldOver, Over
<1>10. BriefsSound'
  BY <1>1, <1>7, <1>8 DEF LeadIInv, BriefsSound, Over, Present
<1>11. ToldOnce'
  <2>1. ASSUME NEW r \in Runs, NEW d \in Domains, <<r, d>> \notin excused'
        PROVE  /\ told[<<r, d>>] =< 1
               /\ told[<<r, d>>] # 0 => \/ rows[<<r, d>>].status # "ready"
                                        \/ \E c \in Briefers : Marked(c, r, d)'
               /\ \A c \in Briefers : StillToTell(c, r, d)' => told[<<r, d>>] = 0
               /\ \A c, e \in Briefers : Holds(c, r, d)' /\ Holds(e, r, d)' => c = e
    <3>1. <<r, d>> \notin excused /\ ~ Holds(b, r, d)
      BY <1>3, <2>1 DEF Holds
    <3>2. ~ Marked(b, r, d)
      BY <1>1, <3>1 DEF LeadIInv, BriefsSound, Marked, Holds
    <3>3. \A c \in Briefers \ {b} : /\ Marked(c, r, d)' <=> Marked(c, r, d)
                                    /\ StillToTell(c, r, d)' <=> StillToTell(c, r, d)
                                    /\ Holds(c, r, d)' <=> Holds(c, r, d)
      BY <1>7, <1>8 DEF Marked, StillToTell, Holds
    <3>4. ~ StillToTell(b, r, d)' /\ ~ Holds(b, r, d)'
      BY <1>8 DEF StillToTell, Holds
    <3>5. QED
      BY <3>1, <3>2, <3>3, <3>4 DEF LeadIInv, ToldOnce
  <2>2. QED
    BY <1>1, <2>1 DEF ToldOnce
<1>12. QED
  BY <1>7, <1>9, <1>10, <1>11 DEF LeadIInv

LEMMA MarkBriefedStep ==
  ASSUME LeadIInv, NEW b \in Briefers, MarkBriefed(b)
  PROVE  LeadIInv'
<1>1. /\ LeadTypes /\ Sending(b) /\ brief[b] \in BriefRow /\ brief[b].run \in Runs
      /\ brief[b].mark \subseteq Domains
      /\ rows \in [Keys -> Candidate] /\ told \in [Keys -> Nat] /\ excused \subseteq Keys
      /\ barred \subseteq Keys
      /\ brief' = [brief EXCEPT ![b] = IdleBrief]
      /\ UNCHANGED <<apollo, runs, leads, pipe, told, barred, excused, unprobed, clock>>
  BY DEF LeadIInv, LeadTypes, MarkBriefed, Sending, BriefRow
<1>2. /\ DOMAIN rows' = Keys
      /\ \A k \in Keys : rows'[k] = IF k[1] = brief[b].run /\ k[2] \in brief[b].mark
                                    THEN [rows[k] EXCEPT !.status = "briefed"] ELSE rows[k]
      /\ rows' = [k \in Keys |-> rows'[k]]
  BY DEF MarkBriefed
<1>3. \A d \in brief[b].mark : Present(brief[b].run, d) /\ <<brief[b].run, d>> \notin barred
  BY <1>1 DEF LeadIInv, BriefsSound
<1>4. \A k \in Keys : rows'[k] \in Candidate
  <2>1. SUFFICES ASSUME NEW k \in Keys PROVE rows'[k] \in Candidate
    OBVIOUS
  <2>2. rows[k] \in Candidate
    BY <1>1
  <2>3. [rows[k] EXCEPT !.status = "briefed"] \in Candidate
    BY <2>2 DEF Candidate
  <2>4. QED
    BY <1>2, <2>2, <2>3
<1>5. rows' \in [Keys -> Candidate]
  BY <1>2, <1>4
<1>6. ASSUME NEW r \in Runs, NEW d \in Domains
      PROVE  /\ r = brief[b].run /\ d \in brief[b].mark => rows'[<<r, d>>].status = "briefed"
             /\ ~ (r = brief[b].run /\ d \in brief[b].mark) => rows'[<<r, d>>] = rows[<<r, d>>]
  <2>1. <<r, d>> \in Keys /\ rows[<<r, d>>] \in Candidate
    BY <1>1 DEF Keys
  <2>2. rows'[<<r, d>>] = IF r = brief[b].run /\ d \in brief[b].mark
                          THEN [rows[<<r, d>>] EXCEPT !.status = "briefed"] ELSE rows[<<r, d>>]
    BY <1>2, <2>1
  <2>3. QED
    BY <2>1, <2>2 DEF Candidate
<1>7. \A r \in Runs, d \in Domains : rows'[<<r, d>>].status = "absent" <=> ~ Present(r, d)
  BY <1>3, <1>6 DEF Present
<1>8. IdleBrief.todo \subseteq DOMAIN IdleBrief.share
  BY IdleBriefType
<1>9. /\ LeadTypes' /\ RunsOwned' /\ RowsFound' /\ PipesClean' /\ OneLeadPerAddress'
      /\ brief'[b] = IdleBrief /\ \A c \in Briefers \ {b} : brief'[c] = brief[c]
  BY <1>1, <1>5, <1>7, <1>8, IdleBriefType, BrieferSteps
<1>10. ~ Sending(b)' /\ \A c \in Briefers \ {b} : Sending(c)' <=> Sending(c)
  BY <1>9, IdleBriefType DEF Sending
<1>11. ToldOver'
  BY <1>1 DEF LeadIInv, ToldOver, Over
<1>12. BarredOut'
  <2>1. \A k \in barred : rows'[k] = rows[k]
    <3>1. SUFFICES ASSUME NEW k \in barred PROVE rows'[k] = rows[k]
      OBVIOUS
    <3>2. PICK r \in Runs, d \in Domains : k = <<r, d>>
      BY <1>1 DEF Keys
    <3>3. ~ (r = brief[b].run /\ d \in brief[b].mark)
      BY <1>3, <3>1, <3>2
    <3>4. QED
      BY <1>6, <3>2, <3>3
  <2>2. QED
    BY <1>1, <2>1 DEF LeadIInv, BarredOut
<1>13. BriefsSound'
  <2>1. \A c \in Briefers : Sending(c) => brief[c].run \in Runs
    BY <1>1 DEF LeadTypes, BriefRow
  <2>2. \A c \in Briefers : \A s \in DOMAIN brief[c].share : brief[c].share[s] \subseteq Domains
    BY <1>1 DEF LeadTypes, BriefRow
  <2>3. \A r \in Runs, d \in Domains : Present(r, d)' <=> Present(r, d)
    BY <1>7 DEF Present
  <2>4. \A r : Over(r)' <=> Over(r)
    BY <1>1 DEF Over
  <2>5. QED
    BY <1>1, <1>9, <1>10, <2>1, <2>2, <2>3, <2>4 DEF LeadIInv, BriefsSound
<1>14. ToldOnce'
  <2>1. ASSUME NEW r \in Runs, NEW d \in Domains, <<r, d>> \notin excused
        PROVE  /\ told[<<r, d>>] =< 1
               /\ told[<<r, d>>] # 0 => \/ rows'[<<r, d>>].status # "ready"
                                        \/ \E c \in Briefers : Marked(c, r, d)'
               /\ \A c \in Briefers : StillToTell(c, r, d)' => told[<<r, d>>] = 0
               /\ \A c, e \in Briefers : Holds(c, r, d)' /\ Holds(e, r, d)' => c = e
    <3>1. \A c \in Briefers \ {b} : /\ Marked(c, r, d)' <=> Marked(c, r, d)
                                    /\ StillToTell(c, r, d)' <=> StillToTell(c, r, d)
                                    /\ Holds(c, r, d)' <=> Holds(c, r, d)
      BY <1>9, <1>10 DEF Marked, StillToTell, Holds
    <3>2. ~ StillToTell(b, r, d)' /\ ~ Holds(b, r, d)'
      BY <1>10 DEF StillToTell, Holds
    <3>3. Marked(b, r, d) => rows'[<<r, d>>].status = "briefed"
      BY <1>6 DEF Marked
    <3>4. rows[<<r, d>>].status # "ready" => rows'[<<r, d>>].status # "ready"
      BY <1>6
    <3>5. /\ told[<<r, d>>] =< 1
          /\ told[<<r, d>>] # 0 => \/ rows[<<r, d>>].status # "ready"
                                   \/ \E c \in Briefers : Marked(c, r, d)
          /\ \A c \in Briefers : StillToTell(c, r, d) => told[<<r, d>>] = 0
          /\ \A c, e \in Briefers : Holds(c, r, d) /\ Holds(e, r, d) => c = e
      BY <2>1 DEF LeadIInv, ToldOnce
    <3>6. QED
      BY <3>1, <3>2, <3>3, <3>4, <3>5
  <2>2. QED
    BY <1>1, <2>1 DEF ToldOnce
<1>15. QED
  BY <1>9, <1>11, <1>12, <1>13, <1>14 DEF LeadIInv

-----------------------------------------------------------------------------
LEMMA SendStep ==
  ASSUME LeadIInv, NEW b \in Briefers, NEW s \in Owners, Send(b, s)
  PROVE  LeadIInv'
<1>1. /\ LeadTypes /\ Sending(b) /\ brief[b] \in BriefRow /\ brief[b].run \in Runs
      /\ brief[b].mark \subseteq Domains /\ s \in brief[b].todo /\ s \in DOMAIN brief[b].share
      /\ brief[b].todo \subseteq DOMAIN brief[b].share
      /\ rows \in [Keys -> Candidate] /\ told \in [Keys -> Nat] /\ excused \subseteq Keys
      /\ barred \subseteq Keys
      /\ UNCHANGED <<apollo, runs, rows, leads, pipe, barred, unprobed, clock>>
  BY DEF LeadIInv, LeadTypes, Send, Sending, BriefRow
<1>2. PICK cuts \in SUBSET Domains : cuts = brief[b].share[s]
  BY <1>1 DEF BriefRow
<1>3. PICK keys : keys = {<<brief[b].run, d>> : d \in cuts}
  OBVIOUS
<1>4. PICK mark \in {brief[b].mark, brief[b].mark \union cuts}, tells \in BOOLEAN :
        /\ brief' = [brief EXCEPT ![b] = [brief[b] EXCEPT !.todo = brief[b].todo \ {s}, !.mark = mark]]
        /\ told' = IF tells THEN Tell(b, s) ELSE told
        /\ tells => cuts \subseteq mark \/ keys \subseteq excused'
        /\ excused' \in {excused, excused \union keys}
  <2>1. brief \in [Briefers -> BriefRow]
    BY <1>1 DEF LeadTypes
  <2>2. CASE /\ brief' = [brief EXCEPT ![b].todo = @ \ {s}, ![b].mark = @ \union brief[b].share[s]]
             /\ UNCHANGED <<told, excused>>
    BY <1>1, <1>2, <2>1, <2>2
  <2>3. CASE /\ brief' = [brief EXCEPT ![b].todo = @ \ {s}, ![b].mark = @ \union brief[b].share[s]]
             /\ told' = Tell(b, s) /\ UNCHANGED excused
    BY <1>1, <1>2, <2>1, <2>3
  <2>4. CASE /\ brief' = [brief EXCEPT ![b].todo = @ \ {s}]
             /\ told' = Tell(b, s) /\ excused' = excused \union keys
    <3>1. brief' = [brief EXCEPT ![b] = [brief[b] EXCEPT !.todo = brief[b].todo \ {s},
                                                         !.mark = brief[b].mark]]
      BY <1>1, <2>1, <2>4 DEF BriefRow
    <3>2. QED
      BY <2>4, <3>1
  <2>5. CASE /\ brief' = [brief EXCEPT ![b].todo = @ \ {s}]
             /\ UNCHANGED <<told, excused>>
    <3>1. brief' = [brief EXCEPT ![b] = [brief[b] EXCEPT !.todo = brief[b].todo \ {s},
                                                         !.mark = brief[b].mark]]
      BY <1>1, <2>1, <2>5 DEF BriefRow
    <3>2. QED
      BY <2>5, <3>1
  <2>6. QED
    BY <1>2, <1>3, <2>2, <2>3, <2>4, <2>5 DEF Send
<1> DEFINE job == [brief[b] EXCEPT !.todo = brief[b].todo \ {s}, !.mark = mark]
<1>5. /\ job \in BriefRow /\ job.step = "send" /\ job.run = brief[b].run
      /\ job.share = brief[b].share /\ job.todo = brief[b].todo \ {s} /\ job.mark = mark
  BY <1>1, <1>2, <1>4 DEF BriefRow, Sending
<1>6. brief' = [brief EXCEPT ![b] = job]
  BY <1>4
<1> HIDE DEF job
<1>7. ASSUME NEW r \in Runs, NEW d \in Domains
      PROVE  told'[<<r, d>>] = IF tells /\ r = brief[b].run /\ d \in cuts
                               THEN told[<<r, d>>] + 1 ELSE told[<<r, d>>]
  BY <1>2, <1>4 DEF Tell, Keys
<1>8. told' \in [Keys -> Nat]
  <2>1. \A k \in Keys : told[k] + 1 \in Nat /\ told[k] \in Nat
    BY <1>1
  <2>2. QED
    BY <1>1, <1>4, <2>1 DEF Tell
<1>9. excused' \subseteq Keys /\ excused \subseteq excused'
  BY <1>1, <1>2, <1>3, <1>4 DEF Keys
<1>10. job.todo \subseteq DOMAIN job.share
  BY <1>1, <1>5
<1>11. \A r \in Runs, d \in Domains : rows'[<<r, d>>].status = "absent" <=> ~ Present(r, d)
  BY <1>1 DEF Present
<1>12. rows' \in [Keys -> Candidate]
  BY <1>1
<1>13. /\ LeadTypes' /\ RunsOwned' /\ RowsFound' /\ PipesClean' /\ OneLeadPerAddress'
       /\ brief'[b] = job /\ \A c \in Briefers \ {b} : brief'[c] = brief[c]
  BY <1>1, <1>5, <1>6, <1>8, <1>9, <1>10, <1>11, <1>12, BrieferSteps
<1>14. /\ Over(brief[b].run)
       /\ \A t \in DOMAIN brief[b].share : \A d \in brief[b].share[t] :
             /\ <<brief[b].run, d>> \notin barred /\ Present(brief[b].run, d)
             /\ \A u \in DOMAIN brief[b].share : d \in brief[b].share[u] => u = t
       /\ \A d \in brief[b].mark : \E t \in DOMAIN brief[b].share : d \in brief[b].share[t]
  BY <1>1 DEF LeadIInv, BriefsSound
<1>15. ToldOver'
  <2>1. \A r \in Runs, d \in Domains : told'[<<r, d>>] # 0 => told[<<r, d>>] # 0 \/ r = brief[b].run
    BY <1>7
  <2>2. \A r : Over(r)' <=> Over(r)
    BY <1>1 DEF Over
  <2>3. QED
    BY <1>14, <2>1, <2>2 DEF LeadIInv, ToldOver
<1>16. BarredOut'
  <2>1. ASSUME NEW k \in barred PROVE told'[k] = told[k]
    <3>1. PICK r \in Runs, d \in Domains : k = <<r, d>>
      BY <1>1, <2>1 DEF Keys
    <3>2. ~ (r = brief[b].run /\ d \in cuts)
      BY <1>1, <1>2, <1>14, <2>1, <3>1
    <3>3. QED
      BY <1>7, <3>1, <3>2
  <2>2. QED
    BY <1>1, <2>1 DEF LeadIInv, BarredOut
<1>17. BriefsSound'
  <2>1. \A c \in Briefers : Sending(c)' => Sending(c)
    BY <1>1, <1>13 DEF Sending
  <2>2. \A r : \A d : (Over(r)' <=> Over(r)) /\ (Present(r, d)' <=> Present(r, d))
    BY <1>1 DEF Over, Present
  <2>3. \A d \in mark : \E t \in DOMAIN brief[b].share : d \in brief[b].share[t]
    BY <1>1, <1>2, <1>4, <1>14
  <2>4. QED
    BY <1>1, <1>5, <1>13, <1>14, <2>1, <2>2, <2>3 DEF LeadIInv, BriefsSound
<1>18. ToldOnce'
  <2>1. ASSUME NEW r \in Runs, NEW d \in Domains, <<r, d>> \notin excused'
        PROVE  /\ told'[<<r, d>>] =< 1
               /\ told'[<<r, d>>] # 0 => \/ rows[<<r, d>>].status # "ready"
                                         \/ \E c \in Briefers : Marked(c, r, d)'
               /\ \A c \in Briefers : StillToTell(c, r, d)' => told'[<<r, d>>] = 0
               /\ \A c, e \in Briefers : Holds(c, r, d)' /\ Holds(e, r, d)' => c = e
    <3>1. /\ told[<<r, d>>] =< 1
          /\ told[<<r, d>>] # 0 => \/ rows[<<r, d>>].status # "ready"
                                   \/ \E c \in Briefers : Marked(c, r, d)
          /\ \A c \in Briefers : StillToTell(c, r, d) => told[<<r, d>>] = 0
          /\ \A c, e \in Briefers : Holds(c, r, d) /\ Holds(e, r, d) => c = e
      BY <1>9, <2>1 DEF LeadIInv, ToldOnce
    <3>2. \A c \in Briefers : /\ Marked(c, r, d) => Marked(c, r, d)'
                              /\ StillToTell(c, r, d)' => StillToTell(c, r, d)
                              /\ Holds(c, r, d)' => Holds(c, r, d)
      BY <1>1, <1>4, <1>5, <1>13 DEF Marked, StillToTell, Holds, Sending
    <3>3. \A c, e \in Briefers : Holds(c, r, d)' /\ Holds(e, r, d)' => c = e
      BY <3>1, <3>2
    <3>4. CASE tells /\ r = brief[b].run /\ d \in cuts
      <4>1. StillToTell(b, r, d) /\ Holds(b, r, d)
        BY <1>1, <1>2, <3>4 DEF StillToTell, Holds
      <4>2. told[<<r, d>>] = 0 /\ told'[<<r, d>>] = 1
        BY <1>7, <3>1, <3>4, <4>1
      <4>3. d \in mark
        BY <1>3, <1>4, <2>1, <3>4
      <4>4. Marked(b, r, d)'
        BY <1>5, <1>13, <3>4, <4>3 DEF Marked, Sending
      <4>5. ~ StillToTell(b, r, d)'
        BY <1>1, <1>2, <1>5, <1>13, <1>14, <3>4 DEF StillToTell
      <4>6. \A c \in Briefers \ {b} : ~ StillToTell(c, r, d)'
        <5>1. \A c \in Briefers : StillToTell(c, r, d) => Holds(c, r, d)
          BY <1>1 DEF StillToTell, Holds, LeadTypes
        <5>2. QED
          BY <3>1, <3>2, <4>1, <5>1
      <4>7. QED
        BY <3>3, <4>2, <4>4, <4>5, <4>6
    <3>5. CASE ~ (tells /\ r = brief[b].run /\ d \in cuts)
      <4>1. told'[<<r, d>>] = told[<<r, d>>]
        BY <1>7, <3>5
      <4>2. QED
        BY <3>1, <3>2, <3>3, <4>1
    <3>6. QED
      BY <3>4, <3>5
  <2>2. QED
    BY <1>1, <2>1 DEF ToldOnce
<1>19. QED
  BY <1>13, <1>15, <1>16, <1>17, <1>18 DEF LeadIInv

(* What StartBrief does with run r.                                        *)
BriefOf(b, r) ==
    \E a \in Allocations(r) :
        LET cuts == [s \in BriefedSdrs(r) |->
                        PrimaryOf(r, s) \union {d \in Exploration(r) : a[d] = s}] IN
        /\ brief' = [brief EXCEPT ![b] = [step |-> "send", run |-> r, share |-> cuts,
                                         todo |-> BriefedSdrs(r), mark |-> {}]]
        /\ excused' = excused \union
             {<<r, d>> : d \in Shared(cuts) \intersect Held(r)}

(* A briefing takes rows that are ready, each for one SDR; those another   *)
(* briefing holds are excused.                                             *)
LEMMA StartBriefStep ==
  ASSUME LeadIInv, NEW b \in Briefers, StartBrief(b)
  PROVE  LeadIInv'
<1>1. PICK r : r = Len(runs)
  OBVIOUS
<1>2. /\ LeadTypes /\ brief[b].step = "idle" /\ ~ Sending(b) /\ r > 0 /\ r \in Nat /\ ~ Stale(r)
      /\ rows \in [Keys -> Candidate] /\ told \in [Keys -> Nat] /\ excused \subseteq Keys
      /\ barred \subseteq Keys /\ brief \in [Briefers -> BriefRow]
      /\ UNCHANGED <<apollo, runs, rows, leads, pipe, told, barred, unprobed, clock>>
  BY <1>1 DEF LeadIInv, LeadTypes, StartBrief, Sending
<1>3. r \in 1 .. Len(runs) /\ r \in Runs /\ Over(r)
  <2>1. r \in 1 .. Len(runs)
    BY <1>1, <1>2
  <2>2. QED
    BY <1>2, <2>1, RunIsRun DEF Over, Stale
<1>4. PICK a \in Allocations(r) :
        LET cuts == [s \in BriefedSdrs(r) |->
                        PrimaryOf(r, s) \union {d \in Exploration(r) : a[d] = s}] IN
        /\ brief' = [brief EXCEPT ![b] = [step |-> "send", run |-> r, share |-> cuts,
                                         todo |-> BriefedSdrs(r), mark |-> {}]]
        /\ excused' = excused \union
             {<<r, d>> : d \in Shared(cuts) \intersect Held(r)}
  <2>1. BriefOf(b, Len(runs))
    BY DEF StartBrief, BriefOf
  <2>2. BriefOf(b, r)
    BY <1>1, <2>1
  <2>3. QED
    BY <2>2 DEF BriefOf
<1>5. PICK cuts : cuts = [s \in BriefedSdrs(r) |->
                              PrimaryOf(r, s) \union {d \in Exploration(r) : a[d] = s}]
  OBVIOUS
<1>6. PICK sdrs \in SUBSET Owners : sdrs = BriefedSdrs(r) /\ DOMAIN cuts = sdrs
  BY <1>5 DEF BriefedSdrs
<1>7. \A s \in sdrs : cuts[s] = PrimaryOf(r, s) \union {d \in Exploration(r) : a[d] = s}
  BY <1>5, <1>6
<1>8. \A s \in sdrs : \A d \in cuts[s] : d \in Domains /\ rows[<<r, d>>].status = "ready"
  BY <1>7 DEF PrimaryOf, Exploration, RowsOf
<1>9. \A s, t \in sdrs : \A d \in cuts[s] : d \in cuts[t] => s = t
  <2>1. SUFFICES ASSUME NEW s \in sdrs, NEW t \in sdrs, NEW d \in cuts[s], d \in cuts[t]
                 PROVE  s = t
    OBVIOUS
  <2>2. CASE Grade[d] = "primary"
    <3>1. d \notin Exploration(r)
      BY <2>2 DEF Exploration
    <3>2. rows[<<r, d>>].sdr = s /\ rows[<<r, d>>].sdr = t
      BY <1>7, <2>1, <3>1 DEF PrimaryOf
    <3>3. QED
      BY <3>2
  <2>3. CASE Grade[d] # "primary"
    <3>1. d \notin PrimaryOf(r, s) /\ d \notin PrimaryOf(r, t)
      BY <2>3 DEF PrimaryOf
    <3>2. QED
      BY <1>7, <2>1, <3>1
  <2>4. QED
    BY <2>2, <2>3
<1>10. cuts \in [sdrs -> SUBSET Domains]
  BY <1>5, <1>6, <1>7, <1>8
<1> DEFINE job == [step |-> "send", run |-> r, share |-> cuts, todo |-> sdrs, mark |-> {}]
<1>11. brief' = [brief EXCEPT ![b] = job]
  BY <1>4, <1>5, <1>6
<1>12. /\ job \in BriefRow /\ job.step = "send" /\ job.run = r /\ job.share = cuts
       /\ job.todo = sdrs /\ job.mark = {}
  <2>1. cuts \in UNION {[ss -> SUBSET Domains] : ss \in SUBSET Owners}
    BY <1>10
  <2>2. QED
    BY <1>3, <2>1 DEF BriefRow
<1> HIDE DEF job
<1>13. PICK shared \in SUBSET Domains :
         /\ excused' = excused \union {<<r, d>> : d \in shared \intersect Held(r)}
         /\ \A s \in sdrs : cuts[s] \subseteq shared
  <2>1. excused' = excused \union {<<r, d>> : d \in Shared(cuts) \intersect Held(r)}
    BY <1>4, <1>5, <1>6
  <2>2. Shared(cuts) \subseteq Domains
    BY <1>6, <1>8 DEF Shared
  <2>3. \A s \in sdrs : cuts[s] \subseteq Shared(cuts)
    BY <1>6 DEF Shared
  <2>4. QED
    BY <2>1, <2>2, <2>3
<1>14. /\ excused \subseteq excused' /\ excused' \subseteq Keys
       /\ \A s \in sdrs : \A d \in cuts[s] : \A c \in Briefers :
             Holds(c, r, d) => <<r, d>> \in excused'
  <2>1. excused \subseteq excused' /\ excused' \subseteq Keys
    BY <1>2, <1>3, <1>13 DEF Keys
  <2>2. \A c \in Briefers : \A d : Holds(c, r, d) => d \in Held(r)
    <3>1. \A c \in Briefers : \A d : Holds(c, r, d) =>
            /\ c \in {o \in Briefers : brief[o].step # "idle" /\ brief[o].run = r}
            /\ d \in Shared(brief[c].share)
      BY DEF Holds, Sending, Shared
    <3>2. QED
      BY <3>1 DEF Held
  <2>3. QED
    BY <1>13, <2>1, <2>2
<1>15. job.todo \subseteq DOMAIN job.share
  BY <1>6, <1>12
<1>16. \A k \in Runs, d \in Domains : rows'[<<k, d>>].status = "absent" <=> ~ Present(k, d)
  BY <1>2 DEF Present
<1>17. rows' \in [Keys -> Candidate] /\ told' \in [Keys -> Nat]
  BY <1>2
<1>18. /\ LeadTypes' /\ RunsOwned' /\ RowsFound' /\ PipesClean' /\ OneLeadPerAddress'
       /\ brief'[b] = job /\ \A c \in Briefers \ {b} : brief'[c] = brief[c]
  BY <1>2, <1>11, <1>12, <1>14, <1>15, <1>16, <1>17, BrieferSteps
<1>19. BarredOut' /\ ToldOver'
  BY <1>2 DEF LeadIInv, BarredOut, ToldOver, Over
<1>20. \A s \in sdrs : \A d \in cuts[s] : <<r, d>> \notin barred /\ Present(r, d)
  BY <1>8 DEF LeadIInv, BarredOut, Present
<1>21. BriefsSound'
  <2>1. \A k : \A d : (Over(k)' <=> Over(k)) /\ (Present(k, d)' <=> Present(k, d))
    BY <1>2 DEF Over, Present
  <2>2. \A c \in Briefers \ {b} : Sending(c)' <=> Sending(c)
    BY <1>18 DEF Sending
  <2>3. \A c \in Briefers \ {b} : brief'[c] = brief[c]
    BY <1>18
  <2>4. brief'[b].run = r /\ brief'[b].share = cuts /\ brief'[b].mark = {}
    BY <1>12, <1>18
  <2>5. QED
    BY <1>2, <1>3, <1>6, <1>9, <1>20, <2>1, <2>2, <2>3, <2>4 DEF LeadIInv, BriefsSound
<1>22. ToldOnce'
  <2>1. ASSUME NEW k \in Runs, NEW d \in Domains, <<k, d>> \notin excused'
        PROVE  /\ told[<<k, d>>] =< 1
               /\ told[<<k, d>>] # 0 => \/ rows[<<k, d>>].status # "ready"
                                        \/ \E c \in Briefers : Marked(c, k, d)'
               /\ \A c \in Briefers : StillToTell(c, k, d)' => told[<<k, d>>] = 0
               /\ \A c, e \in Briefers : Holds(c, k, d)' /\ Holds(e, k, d)' => c = e
    <3>1. /\ told[<<k, d>>] =< 1
          /\ told[<<k, d>>] # 0 => \/ rows[<<k, d>>].status # "ready"
                                   \/ \E c \in Briefers : Marked(c, k, d)
          /\ \A c \in Briefers : StillToTell(c, k, d) => told[<<k, d>>] = 0
          /\ \A c, e \in Briefers : Holds(c, k, d) /\ Holds(e, k, d) => c = e
      BY <1>14, <2>1 DEF LeadIInv, ToldOnce
    <3>2. \A c \in Briefers \ {b} : /\ Marked(c, k, d)' <=> Marked(c, k, d)
                                    /\ StillToTell(c, k, d)' <=> StillToTell(c, k, d)
                                    /\ Holds(c, k, d)' <=> Holds(c, k, d)
      BY <1>18 DEF Marked, StillToTell, Holds, Sending
    <3>3. ~ Marked(b, k, d)
      BY <1>2 DEF Marked
    <3>4. StillToTell(b, k, d)' \/ Holds(b, k, d)' => k = r /\ \E s \in sdrs : d \in cuts[s]
      BY <1>6, <1>12, <1>18 DEF StillToTell, Holds
    <3>5. \A c \in Briefers : Marked(c, k, d) => Holds(c, k, d)
      BY DEF LeadIInv, BriefsSound, Marked, Holds
    <3>6. StillToTell(b, k, d)' \/ Holds(b, k, d)' => \A c \in Briefers : ~ Holds(c, k, d)
      BY <1>14, <2>1, <3>4
    <3>7. StillToTell(b, k, d)' => told[<<k, d>>] = 0
      <4>1. SUFFICES ASSUME StillToTell(b, k, d)' PROVE told[<<k, d>>] = 0
        OBVIOUS
      <4>2. rows[<<k, d>>].status = "ready"
        BY <1>8, <3>4, <4>1
      <4>3. \A c \in Briefers : ~ Marked(c, k, d)
        BY <3>5, <3>6, <4>1
      <4>4. QED
        BY <3>1, <4>2, <4>3
    <3>8. QED
      BY <3>1, <3>2, <3>3, <3>6, <3>7
  <2>2. QED
    BY <1>2, <2>1 DEF ToldOnce
<1>23. QED
  BY <1>18, <1>19, <1>21, <1>22 DEF LeadIInv

-----------------------------------------------------------------------------
LEMMA NextLead == LeadIInv /\ [LeadNext]_leadVars => LeadIInv'
<1> SUFFICES ASSUME LeadIInv, [LeadNext]_leadVars PROVE LeadIInv'
  OBVIOUS
<1>1. CASE UNCHANGED leadVars
  <2>1. UNCHANGED <<apollo, runs, rows, leads, pipe, brief, told, barred, excused, unprobed, clock>>
    BY <1>1 DEF leadVars
  <2>2. LeadTypes' /\ RunsOwned' /\ RowsFound' /\ PipesClean' /\ OneLeadPerAddress'
    BY <2>1 DEF LeadIInv, LeadTypes, RunsOwned, RowsFound, PipesClean, OneLeadPerAddress,
                Active, Present
  <2>3. QED
    BY <2>1, <2>2, BriefingStays DEF LeadIInv
<1>2. ASSUME NEW p \in Runners, NEW injected \in BOOLEAN, StartRun(p, injected) PROVE LeadIInv'
  BY <1>2, StartRunStep
<1>3. ASSUME NEW p \in Runners, NEW d \in Domains, CreateLead(p, d) PROVE LeadIInv'
  BY <1>3, CreateLeadStep
<1>4. ASSUME NEW p \in Runners,
             \/ MarkWritten(p) \/ Gather(p) \/ Buffer(p)
             \/ OpenGate(p) \/ CloseRun(p) \/ KillRunner(p)
      PROVE  LeadIInv'
  BY <1>4, MarkWrittenStep, GatherStep, BufferStep, OpenGateStep, CloseRunStep, KillRunnerStep
<1>5. ASSUME NEW b \in Briefers, StartBrief(b) \/ MarkBriefed(b) \/ KillBriefer(b) PROVE LeadIInv'
  BY <1>5, StartBriefStep, MarkBriefedStep, KillBrieferStep
<1>6. ASSUME NEW b \in Briefers, NEW s \in Owners, Send(b, s) PROVE LeadIInv'
  BY <1>6, SendStep
<1>7. QED
  BY <1>1, <1>2, <1>3, <1>4, <1>5, <1>6, HourPassesStep DEF LeadNext

LEMMA LeadFollows == LeadIInv => LeadInv
<1> SUFFICES ASSUME LeadIInv PROVE LeadInv
  OBVIOUS
<1>1. LeadTypes /\ Keys = Runs \X Domains
  BY DEF LeadIInv, Keys
<1>2. LeadTypeOK
  BY <1>1 DEF LeadTypes, LeadTypeOK, PipeRow, BriefRow
<1>3. BriefedOnce
  <2>1. SUFFICES ASSUME NEW k \in Keys, k \notin excused PROVE ~ (told[k] > 1)
    BY DEF BriefedOnce
  <2>2. PICK r \in Runs, d \in Domains : k = <<r, d>>
    BY <1>1
  <2>3. told[k] =< 1 /\ told[k] \in Nat
    BY <1>1, <2>1, <2>2 DEF LeadIInv, ToldOnce, LeadTypes
  <2>4. QED
    BY <2>3
<1>4. SuppressedStaysOut
  BY DEF LeadIInv, BarredOut, SuppressedStaysOut
<1>5. QED
  BY <1>2, <1>3, <1>4 DEF LeadIInv, LeadInv

(* The night and the morning stay sound: no candidate's SDR is told twice  *)
(* without an excuse, what a run called suppressed is neither written nor  *)
(* told, and an address that can be probed has one Lead, over any runners, *)
(* briefers, SDRs, accounts and kills (run_pipeline, create_lead and       *)
(* send_daily_briefing).                                                   *)
THEOREM LeadHolds == LeadSpec => []LeadInv
<1>1. LeadIInv /\ [LeadNext]_leadVars => LeadIInv'
  BY NextLead
<1>2. LeadSpec => []LeadIInv
  BY InitLead, <1>1, PTL DEF LeadSpec
<1>3. QED
  BY <1>2, LeadFollows, PTL

-----------------------------------------------------------------------------
(* The rotation *)

(* The place k, from nought, is among those from j on that come before p,  *)
(* around the end of the slots.                                            *)
Between(j, p, k) == IF j =< p THEN j =< k /\ k < p ELSE k >= j \/ k < p

(* Those between j and p have had one lead more than the others: the turn  *)
(* that began at j is now at p.                                            *)
TurnOf(given, slots, p) ==
    \E j \in 0 .. Len(slots) - 1, m \in 0 .. MaxShare :
        \A k \in 0 .. Len(slots) - 1 :
            given[slots[k + 1]] = IF Between(j, p, k) THEN m + 1 ELSE m

(* While no two routers have overlapped, the turn is where the next lead   *)
(* goes.                                                                   *)
RoundRobin ==
    (~ crossed /\ Slots # <<>>) => TurnOf(share, Slots, NextIndex(index, Len(Slots)))

(* A router that has not overlapped another writes over what it read, for  *)
(* the slots that there are.                                               *)
Alone ==
    ~ crossed =>
        \A r \in Routers : router[r].step = "write" =>
            /\ \A o \in Routers \ {r} : router[o].step = "idle"
            /\ router[r].slots = Slots /\ router[r].read = index

(* What the cache says of an active user it was told before the user left. *)
Seen ==
    \A s \in Members : /\ (users[s].cached /\ users[s].active) => users[s].at =< leftAt[s]
                       /\ s \in active => leftAt[s] = Stays
                       /\ users[s].at =< time

(* A router that writes has a slot to write, and no more than there are.   *)
Fit ==
    \A r \in Routers : router[r].step = "write" =>
        router[r].slots # <<>> /\ Len(router[r].slots) =< NoIndex

RoutingTypes == /\ RoutingTypeOK /\ router \in [Routers -> Router] /\ Fit

RoutingIInv == RoutingTypes /\ Seen /\ Alone /\ RoundRobin

\* A finite set of places has one that comes n-th.
LEMMA NthIsOne ==
  ASSUME NEW S, S \subseteq Nat, IsFiniteSet(S), NEW i \in 1 .. Cardinality(S)
  PROVE  /\ Nth(S, i) \in S
         /\ Cardinality({r \in S : r =< Nth(S, i)}) = i
<1> DEFINE n == Cardinality(S)
           Below(s) == {r \in S : r =< s}
           rank == [s \in S |-> Cardinality(Below(s))]
<1>1. n \in Nat
  BY FS_CardinalityType
<1>2. \A s \in S : IsFiniteSet(Below(s)) /\ Cardinality(Below(s)) \in 1 .. n
  <2> SUFFICES ASSUME NEW s \in S PROVE IsFiniteSet(Below(s)) /\ Cardinality(Below(s)) \in 1 .. n
    OBVIOUS
  <2>1. Below(s) \subseteq S /\ s \in Below(s)
    OBVIOUS
  <2>2. IsFiniteSet(Below(s)) /\ Cardinality(Below(s)) =< n
    BY <2>1, FS_Subset
  <2>3. Cardinality(Below(s)) \in Nat /\ Cardinality(Below(s)) # 0
    BY <2>1, <2>2, FS_CardinalityType, FS_EmptySet
  <2> HIDE DEF Below, n
  <2>4. QED
    BY <1>1, <2>2, <2>3
<1>3. \A s, t \in S : s < t => Cardinality(Below(s)) # Cardinality(Below(t))
  <2> SUFFICES ASSUME NEW s \in S, NEW t \in S, s < t PROVE Cardinality(Below(s)) # Cardinality(Below(t))
    OBVIOUS
  <2>1. s \in Nat /\ t \in Nat
    OBVIOUS
  <2>2. Below(s) \subseteq Below(t) /\ t \in Below(t) /\ t \notin Below(s)
    <3>1. t \in Below(t) /\ t \notin Below(s)
      BY <2>1
    <3>2. ASSUME NEW r \in Below(s) PROVE r \in Below(t)
      <4>1. r \in Nat /\ r \in S /\ r =< s
        OBVIOUS
      <4>2. r =< t
        BY <2>1, <4>1
      <4>3. QED
        BY <4>1, <4>2
    <3> HIDE DEF Below
    <3>3. QED
      BY <3>1, <3>2
  <2>3. Below(s) # Below(t)
    BY <2>2
  <2> HIDE DEF Below
  <2>4. QED
    BY <1>2, <2>2, <2>3, FS_Subset
<1>4. rank \in Injection(S, 1 .. n)
  <2>1. rank \in [S -> 1 .. n]
    BY <1>2
  <2>2. \A s, t \in S : rank[s] = rank[t] => s = t
    <3> SUFFICES ASSUME NEW s \in S, NEW t \in S, s # t PROVE rank[s] # rank[t]
      OBVIOUS
    <3>1. s < t \/ t < s
      BY SMT
    <3> HIDE DEF Below
    <3>2. QED
      BY <1>3, <3>1
  <2> HIDE DEF rank, n
  <2>3. QED
    BY <2>1, <2>2 DEF Injection, IsInjective
<1>5. IsFiniteSet(1 .. n) /\ Cardinality(1 .. n) = n
  BY <1>1, FS_Interval
<1>6. rank \in Surjection(S, 1 .. n)
  <2> HIDE DEF rank
  <2>1. QED
    BY <1>4, <1>5, FS_Injection
<1>7. \E s \in S : rank[s] = i
  BY <1>6 DEF Surjection
<1>8. \E s \in S : Cardinality({r \in S : r =< s}) = i
  BY <1>7
<1>9. QED
  BY <1>8 DEF Nth

\* The members that pass a test stand once each in the slots.
LEMMA FilteredIsSlots ==
  ASSUME NEW test
  PROVE  /\ Filtered(test) \in Seq(Members)
         /\ Len(Filtered(test)) \in Nat /\ Len(Filtered(test)) =< NoIndex
         /\ \A n \in 1 .. Len(Filtered(test)) :
                Filtered(test)[n] \in Members /\ test[Filtered(test)[n]]
         /\ \A a, b \in 1 .. Len(Filtered(test)) :
                Filtered(test)[a] = Filtered(test)[b] => a = b
<1> DEFINE places == {i \in DOMAIN Rotation : test[Rotation[i]]}
           c == Cardinality(places)
           F == [n \in 1 .. c |-> Rotation[Nth(places, n)]]
<1>1. Filtered(test) = F
  BY DEF Filtered
<1>2. DOMAIN Rotation = 1 .. NoIndex /\ NoIndex \in Nat
  BY RotationAssumption DEF NoIndex
<1>3. IsFiniteSet(1 .. NoIndex) /\ Cardinality(1 .. NoIndex) = NoIndex
  BY <1>2, FS_Interval
<1>4. places \subseteq 1 .. NoIndex /\ places \subseteq Nat
  BY <1>2
<1>5. IsFiniteSet(places) /\ c =< NoIndex /\ c \in Nat
  <2> HIDE DEF places
  <2>1. QED
    BY <1>3, <1>4, FS_Subset, FS_CardinalityType
<1>6. \A n \in 1 .. c : /\ Nth(places, n) \in places
                        /\ Cardinality({r \in places : r =< Nth(places, n)}) = n
  <2> HIDE DEF places
  <2>1. QED
    BY <1>4, <1>5, NthIsOne
<1>7. \A n \in 1 .. c : F[n] = Rotation[Nth(places, n)]
  OBVIOUS
<1>8. \A n \in 1 .. c : F[n] \in Members /\ test[F[n]]
  <2> SUFFICES ASSUME NEW n \in 1 .. c PROVE F[n] \in Members /\ test[F[n]]
    OBVIOUS
  <2>1. Nth(places, n) \in places
    BY <1>6
  <2>2. Nth(places, n) \in DOMAIN Rotation /\ test[Rotation[Nth(places, n)]]
    BY <2>1
  <2>3. Rotation[Nth(places, n)] \in Members
    BY <2>2 DEF Members, ToSet
  <2>4. QED
    BY <1>7, <2>2, <2>3
<1>9. \A a, b \in 1 .. c : F[a] = F[b] => a = b
  <2> SUFFICES ASSUME NEW a \in 1 .. c, NEW b \in 1 .. c, F[a] = F[b] PROVE a = b
    OBVIOUS
  <2>1. Nth(places, a) \in DOMAIN Rotation /\ Nth(places, b) \in DOMAIN Rotation
    BY <1>6
  <2>2. Rotation[Nth(places, a)] = Rotation[Nth(places, b)]
    BY <1>7
  <2>3. Nth(places, a) = Nth(places, b)
    BY <2>1, <2>2, RotationAssumption
  <2> HIDE DEF places, F
  <2>4. QED
    BY <1>6, <2>3
<1>10. F \in [1 .. c -> Members]
  <2>1. F = [n \in 1 .. c |-> F[n]]
    OBVIOUS
  <2> HIDE DEF F, places
  <2>2. QED
    BY <1>8, <2>1
<1> HIDE DEF F, c, places
<1>11. F \in Seq(Members) /\ Len(F) = c
  BY <1>5, <1>10
<1>12. QED
  BY <1>1, <1>5, <1>8, <1>9, <1>11

\* The slots of now.
LEMMA SlotsAreMembers ==
  /\ Slots \in Seq(Members) /\ Len(Slots) \in Nat /\ Len(Slots) =< NoIndex
  /\ \A n \in 1 .. Len(Slots) : Slots[n] \in Members
  /\ \A a, b \in 1 .. Len(Slots) : Slots[a] = Slots[b] => a = b
<1>1. QED
  BY FilteredIsSlots DEF Slots, SlotsAt

\* After the last place comes the first.
LEMMA Wraps ==
  ASSUME NEW n \in Nat \ {0}
  PROVE  /\ \A p \in 0 .. n - 1 : (p + 1) % n = IF p + 1 < n THEN p + 1 ELSE 0
         /\ \A a \in Nat : a % n \in 0 .. n - 1
OBVIOUS

\* The next index is a place of the slots.
LEMMA NextIndexIsAPlace ==
  ASSUME NEW read \in 0 .. NoIndex, NEW n \in Nat \ {0}
  PROVE  NextIndex(read, n) \in 0 .. n - 1
<1>1. read \in Nat /\ read + 1 \in Nat
  BY RotationAssumption DEF NoIndex
<1>2. (read + 1) % n \in 0 .. n - 1
  BY <1>1, Wraps
<1>3. 0 \in 0 .. n - 1
  OBVIOUS
<1>4. QED
  BY <1>2, <1>3 DEF NextIndex

\* Members that have had nothing since they became the members: a turn
\* begins wherever the index is.
LEMMA TurnBegins ==
  ASSUME NEW slots \in Seq(Members), NEW p \in 0 .. Len(slots) - 1, slots # <<>>
  PROVE  TurnOf([s \in Members |-> 0], slots, p)
<1> DEFINE none == [s \in Members |-> 0]
<1>1. \A k \in 0 .. Len(slots) - 1 : none[slots[k + 1]] = 0 /\ ~ Between(p, p, k)
  <2> SUFFICES ASSUME NEW k \in 0 .. Len(slots) - 1
               PROVE  none[slots[k + 1]] = 0 /\ ~ Between(p, p, k)
    OBVIOUS
  <2>1. slots[k + 1] \in Members
    OBVIOUS
  <2>2. ~ Between(p, p, k)
    BY DEF Between
  <2>3. QED
    BY <2>1, <2>2
<1>2. 0 \in 0 .. MaxShare
  BY UserHoursAssumption
<1> HIDE DEF none
<1>3. TurnOf(none, slots, p)
  BY <1>1, <1>2 DEF TurnOf
<1>4. QED
  BY <1>3 DEF none

\* A lead to the place where the turn is moves the turn to the next place.
LEMMA TurnMoves ==
  ASSUME NEW slots \in Seq(Members), NEW p \in 0 .. Len(slots) - 1, slots # <<>>,
         \A a, b \in 1 .. Len(slots) : slots[a] = slots[b] => a = b,
         NEW given \in [Members -> Nat], TurnOf(given, slots, p),
         given[slots[p + 1]] < MaxShare
  PROVE  TurnOf([given EXCEPT ![slots[p + 1]] = @ + 1], slots, (p + 1) % Len(slots))
<1> DEFINE n == Len(slots)
           after == [given EXCEPT ![slots[p + 1]] = @ + 1]
           q == IF p + 1 < n THEN p + 1 ELSE 0
<1>1. n \in Nat \ {0}
  OBVIOUS
<1>2. (p + 1) % n = q /\ q \in 0 .. n - 1
  <2>1. p \in 0 .. n - 1
    OBVIOUS
  <2> HIDE DEF n
  <2>2. (p + 1) % n = q
    BY <1>1, <2>1, Wraps
  <2>3. q \in 0 .. n - 1
    BY <1>1, <2>1
  <2>4. QED
    BY <2>2, <2>3
<1>3. PICK j \in 0 .. n - 1, m \in 0 .. MaxShare :
        \A k \in 0 .. n - 1 : given[slots[k + 1]] = IF Between(j, p, k) THEN m + 1 ELSE m
  BY DEF TurnOf
<1>4. m \in Nat /\ MaxShare \in Nat
  BY UserHoursAssumption
<1>5. given[slots[p + 1]] = m
  <2>1. ~ Between(j, p, p)
    BY <1>1 DEF Between
  <2>2. QED
    BY <1>3, <2>1
<1>6. \A k \in 0 .. n - 1 : after[slots[k + 1]] = IF k = p THEN m + 1 ELSE given[slots[k + 1]]
  <2> SUFFICES ASSUME NEW k \in 0 .. n - 1
               PROVE  after[slots[k + 1]] = IF k = p THEN m + 1 ELSE given[slots[k + 1]]
    OBVIOUS
  <2>1. slots[k + 1] \in Members /\ slots[p + 1] \in Members
    OBVIOUS
  <2>2. k # p => slots[k + 1] # slots[p + 1]
    <3>1. k + 1 \in 1 .. n /\ p + 1 \in 1 .. n
      OBVIOUS
    <3>2. k + 1 = p + 1 => k = p
      OBVIOUS
    <3>3. QED
      BY <3>1, <3>2
  <2>3. CASE k = p
    BY <1>5, <2>1, <2>3
  <2>4. CASE k # p
    BY <2>1, <2>2, <2>4
  <2>5. QED
    BY <2>3, <2>4
<1> HIDE DEF after, n
<1>7. CASE q # j
  <2>1. \A k \in 0 .. n - 1 : Between(j, q, k) <=> (Between(j, p, k) \/ k = p)
    <3> SUFFICES ASSUME NEW k \in 0 .. n - 1
                 PROVE  Between(j, q, k) <=> (Between(j, p, k) \/ k = p)
      OBVIOUS
    <3>1. p \in 0 .. n - 1
      BY DEF n
    <3>2. QED
      BY <1>1, <1>7, <3>1 DEF Between
  <2>2. ~ Between(j, p, p)
    BY <1>1 DEF Between, n
  <2>3. \A k \in 0 .. n - 1 : after[slots[k + 1]] = IF Between(j, q, k) THEN m + 1 ELSE m
    <3> SUFFICES ASSUME NEW k \in 0 .. n - 1
                 PROVE  after[slots[k + 1]] = IF Between(j, q, k) THEN m + 1 ELSE m
      OBVIOUS
    <3>1. CASE k = p
      BY <1>6, <2>1, <3>1
    <3>2. CASE k # p
      BY <1>3, <1>6, <2>1, <3>2
    <3>3. QED
      BY <3>1, <3>2
  <2> HIDE DEF q
  <2>4. TurnOf(after, slots, q)
    BY <2>3 DEF TurnOf, n
  <2>5. QED
    BY <1>2, <2>4 DEF n, after
<1>8. CASE q = j
  <2>1. \A k \in 0 .. n - 1 : k = p \/ Between(j, p, k)
    <3> SUFFICES ASSUME NEW k \in 0 .. n - 1 PROVE k = p \/ Between(j, p, k)
      OBVIOUS
    <3>1. p \in 0 .. n - 1
      BY DEF n
    <3>2. QED
      BY <1>1, <1>8, <3>1 DEF Between
  <2>2. \A k \in 0 .. n - 1 : ~ Between(q, q, k)
    BY <1>1, <1>2 DEF Between
  <2>3. m + 1 \in 0 .. MaxShare
    BY <1>4, <1>5
  <2>4. \A k \in 0 .. n - 1 : after[slots[k + 1]] = m + 1
    BY <1>3, <1>6, <2>1
  <2> HIDE DEF q
  <2>5. TurnOf(after, slots, q)
    BY <1>2, <2>2, <2>3, <2>4 DEF TurnOf, n
  <2>6. QED
    BY <1>2, <2>5 DEF n, after
<1>9. QED
  BY <1>7, <1>8

\* What a router does to its place.
LEMMA RouterTypes ==
  ASSUME RoutingTypes, NEW r \in Routers, NEW x \in Router,
         router' = [router EXCEPT ![r] = x]
  PROVE  /\ router' \in [Routers -> Router] /\ router'[r] = x
         /\ \A o \in Routers : o # r => router'[o] = router[o]
BY DEF RoutingTypes

\* An idle router is a router.
LEMMA IdleRouterType == IdleRouter \in Router /\ IdleRouter.step = "idle" /\ NoIndex \in Nat
<1>1. NoIndex \in Nat
  BY RotationAssumption DEF NoIndex
<1>2. <<>> \in Seq(Members)
  OBVIOUS
<1>3. QED
  BY <1>1, <1>2 DEF IdleRouter, Router

\* The types say of each router what a step of one other keeps.
LEMMA TypesKept ==
  ASSUME RoutingTypes, NEW r \in Routers, NEW x \in Router,
         router' = [router EXCEPT ![r] = x],
         x.step = "write" => x.slots # <<>> /\ Len(x.slots) =< NoIndex
  PROVE  /\ router' \in [Routers -> Router] /\ Fit'
         /\ \A o \in Routers : /\ router'[o].step \in {"idle", "write"}
                               /\ router'[o].step = "write" => router'[o].slots # <<>>
                               /\ router'[o].read \in 0 .. NoIndex
<1>1. /\ router' \in [Routers -> Router] /\ router'[r] = x
      /\ \A o \in Routers : o # r => router'[o] = router[o]
  BY RouterTypes
<1>2. Fit'
  <2> SUFFICES ASSUME NEW o \in Routers, router'[o].step = "write"
               PROVE  router'[o].slots # <<>> /\ Len(router'[o].slots) =< NoIndex
    BY DEF Fit
  <2>1. CASE o = r
    BY <1>1, <2>1
  <2>2. CASE o # r
    BY <1>1, <2>2 DEF RoutingTypes, Fit
  <2>3. QED
    BY <2>1, <2>2
<1>3. \A o \in Routers : router'[o] \in Router
  BY <1>1
<1>4. QED
  BY <1>1, <1>2, <1>3 DEF Router, Fit

\* The cache as it is after a refresh: the slots are the active members.
LEMMA RefreshedSlots ==
  ASSUME RoutingTypes, Refresh
  PROVE  Slots' = Filtered([s \in Members |-> s \in active])
<1> DEFINE U == [s \in Members |-> [cached |-> TRUE, active |-> s \in active, at |-> time]]
<1>1. users' = U /\ time' = time /\ time \in Nat /\ UserHours \in Nat
  BY UserHoursAssumption DEF Refresh, RoutingTypes, RoutingTypeOK, Times
<1>2. Slots' = Filtered([s \in Members |->
                  (U[s].cached /\ U[s].at + UserHours >= time) /\ U[s].active])
  BY <1>1 DEF Slots, SlotsAt, Known
<1>3. \A s \in Members : ((U[s].cached /\ U[s].at + UserHours >= time) /\ U[s].active) <=> (s \in active)
  <2> SUFFICES ASSUME NEW s \in Members
               PROVE  ((U[s].cached /\ U[s].at + UserHours >= time) /\ U[s].active) <=> (s \in active)
    OBVIOUS
  <2>1. U[s].cached = TRUE /\ U[s].at = time /\ (U[s].active <=> (s \in active))
    OBVIOUS
  <2>2. time + UserHours >= time
    BY <1>1
  <2> HIDE DEF U
  <2>3. U[s].cached /\ U[s].at + UserHours >= time
    BY <2>1, <2>2
  <2>4. QED
    BY <2>1, <2>3, Zenon
<1> HIDE DEF U
<1>4. [s \in Members |-> (U[s].cached /\ U[s].at + UserHours >= time) /\ U[s].active]
        = [s \in Members |-> s \in active]
  BY <1>3
<1>5. QED
  BY <1>2, <1>4

\* Where members change, all of them start with nothing.
LEMMA RoundBegins ==
  ASSUME RoutingTypes, Slots' \in Seq(Members), Len(Slots') \in Nat,
         share' = [s \in Members |-> 0], index' = index
  PROVE  RoundRobin'
<1> SUFFICES ASSUME Slots' # <<>>
             PROVE  TurnOf(share', Slots', NextIndex(index', Len(Slots')))
  BY DEF RoundRobin
<1> DEFINE slots == Slots'
           n == Len(Slots')
           p == NextIndex(index, n)
<1>1. n \in Nat \ {0} /\ slots \in Seq(Members) /\ slots # <<>>
  <2> HIDE DEF slots
  <2>1. QED
    BY DEF slots
<1>2. index \in 0 .. NoIndex
  BY DEF RoutingTypes, RoutingTypeOK
<1>3. p \in 0 .. n - 1
  <2> HIDE DEF n
  <2>1. QED
    BY <1>1, <1>2, NextIndexIsAPlace
<1> HIDE DEF p
<1>4. TurnOf([s \in Members |-> 0], slots, p)
  <2>1. p \in 0 .. Len(slots) - 1
    BY <1>3
  <2> HIDE DEF slots
  <2>2. QED
    BY <1>1, <2>1, TurnBegins
<1>5. QED
  BY <1>4 DEF p

\* At first nobody is in the cache, and the first lead goes to the first slot.
LEMMA RoutingInitially == RoutingInit => RoutingIInv
<1> SUFFICES ASSUME RoutingInit PROVE RoutingIInv
  OBVIOUS
<1> USE DEF RoutingInit
<1>1. IdleRouter \in Router /\ IdleRouter.step = "idle" /\ NoIndex \in Nat
  BY IdleRouterType
<1>2. MaxTime \in Nat /\ MaxShare \in Nat /\ UserHours \in Nat
  BY UserHoursAssumption
<1>3. \A r \in Routers : router[r] = IdleRouter
  OBVIOUS
<1>4. router \in [Routers -> Router] /\ Fit
  BY <1>1, <1>3 DEF Fit
<1>5. RoutingTypeOK
  <2>1. users \in [Members -> [cached : BOOLEAN, active : BOOLEAN, at : Times]]
    BY <1>2 DEF Times
  <2>2. leftAt \in [Members -> Times \union {Stays}]
    BY <1>2
  <2>3. index \in 0 .. NoIndex /\ time \in Times
    BY <1>1, <1>2 DEF Times
  <2>3a. active \subseteq Members /\ crossed \in BOOLEAN
    OBVIOUS
  <2>4. share \in [Members -> 0 .. MaxShare]
    BY <1>2
  <2>5. \A r \in Routers : router[r].step = "idle" /\ router[r].read \in 0 .. NoIndex
    BY <1>1, <1>3 DEF IdleRouter
  <2>6. QED
    BY <2>1, <2>2, <2>3, <2>4, <2>5, <2>3a DEF RoutingTypeOK
<1>6. RoutingTypes
  BY <1>4, <1>5 DEF RoutingTypes
<1>7. Seen
  BY <1>2 DEF Seen
<1>8. Alone
  BY <1>1, <1>3 DEF Alone
<1>9. RoundRobin
  <2> SUFFICES ASSUME Slots # <<>>
               PROVE  TurnOf(share, Slots, NextIndex(index, Len(Slots)))
    BY DEF RoundRobin
  <2>1. Slots \in Seq(Members) /\ Len(Slots) \in Nat \ {0}
    BY SlotsAreMembers
  <2>2. index \in 0 .. NoIndex
    BY <1>5 DEF RoutingTypeOK
  <2>3. NextIndex(index, Len(Slots)) \in 0 .. Len(Slots) - 1
    BY <2>1, <2>2, NextIndexIsAPlace
  <2>4. QED
    BY <2>1, <2>3, TurnBegins
<1>10. QED
  BY <1>6, <1>7, <1>8, <1>9 DEF RoutingIInv

\* A refresh: other members, and the shares begin again; or the same ones.
LEMMA RefreshKeeps == ASSUME RoutingIInv, Refresh PROVE RoutingIInv'
<1> USE DEF RoutingIInv
<1>1. /\ users' = [s \in Members |-> [cached |-> TRUE, active |-> s \in active, at |-> time]]
      /\ active' = active /\ leftAt' = leftAt /\ index' = index /\ router' = router /\ time' = time
  BY DEF Refresh
<1>2. MaxTime \in Nat /\ MaxShare \in Nat /\ time \in Times
  BY UserHoursAssumption DEF RoutingTypes, RoutingTypeOK
<1>3. Slots' = Filtered([s \in Members |-> s \in active])
  BY RefreshedSlots
<1>4. /\ Slots' \in Seq(Members) /\ Len(Slots') \in Nat
  BY <1>3, FilteredIsSlots
<1>5. \/ /\ Slots' = Slots /\ share' = share /\ crossed' = crossed
      \/ /\ share' = [s \in Members |-> 0]
         /\ crossed' = \E r \in Routers : router[r].step # "idle"
  BY <1>3 DEF Refresh
<1>6. users' \in [Members -> [cached : BOOLEAN, active : BOOLEAN, at : Times]]
  BY <1>1, <1>2
<1>7. share' \in [Members -> 0 .. MaxShare]
  <2>1. CASE share' = share
    BY <2>1 DEF RoutingTypes, RoutingTypeOK
  <2>2. CASE share' = [s \in Members |-> 0]
    BY <1>2, <2>2
  <2>3. QED
    BY <1>5, <2>1, <2>2
<1>8. crossed' \in BOOLEAN
  <2>1. crossed \in BOOLEAN
    BY DEF RoutingTypes, RoutingTypeOK
  <2>2. QED
    BY <1>5, <2>1, Zenon
<1>9. RoutingTypes'
  BY <1>1, <1>6, <1>7, <1>8 DEF RoutingTypes, RoutingTypeOK, Fit
<1>10. Seen'
  <2> SUFFICES ASSUME NEW s \in Members
               PROVE  /\ (users'[s].cached /\ users'[s].active) => users'[s].at =< leftAt'[s]
                      /\ s \in active' => leftAt'[s] = Stays
                      /\ users'[s].at =< time'
    BY DEF Seen
  <2>1. users'[s].at = time /\ (users'[s].active => s \in active)
    BY <1>1
  <2>2. time \in Nat /\ time =< MaxTime
    BY <1>2 DEF Times
  <2>3. s \in active => leftAt[s] = Stays
    BY DEF Seen
  <2>4. s \in active => time =< leftAt[s]
    BY <1>2, <2>2, <2>3 DEF Stays
  <2>5. QED
    BY <1>1, <2>1, <2>2, <2>3, <2>4 DEF Times
<1>11. Alone' /\ RoundRobin'
  <2>1. CASE Slots' = Slots /\ share' = share /\ crossed' = crossed
    BY <1>1, <2>1 DEF Alone, RoundRobin
  <2>2. CASE /\ share' = [s \in Members |-> 0]
             /\ crossed' = \E r \in Routers : router[r].step # "idle"
    <3>1. RoundRobin'
      BY <1>1, <1>4, <2>2, RoundBegins
    <3>2. ~ crossed' => \A r \in Routers : router'[r].step = "idle"
      BY <1>1, <2>2
    <3>3. Alone'
      BY <3>2 DEF Alone
    <3>4. QED
      BY <3>1, <3>3
  <2>3. QED
    BY <1>5, <2>1, <2>2
<1>12. QED
  BY <1>9, <1>10, <1>11

\* A router reads what it will write over.
LEMMA SelectIndexKeeps ==
  ASSUME RoutingIInv, NEW r \in Routers, SelectIndex(r) PROVE RoutingIInv'
<1> USE DEF RoutingIInv
<1> DEFINE x == [step |-> "write", slots |-> Slots, read |-> index]
<1>1. /\ Slots # <<>> /\ router' = [router EXCEPT ![r] = x]
      /\ active' = active /\ leftAt' = leftAt /\ users' = users /\ index' = index
      /\ share' = share /\ time' = time
  BY DEF SelectIndex
<1>2. crossed' = (crossed \/ \E o \in Routers \ {r} : router[o].step # "idle")
  BY DEF SelectIndex
<1>3. Slots' = Slots /\ Slots \in Seq(Members) /\ Len(Slots) =< NoIndex
  BY <1>1, SlotsAreMembers DEF Slots, SlotsAt, Known
<1>4. x.step = "write" /\ x.slots = Slots /\ x.read = index
  OBVIOUS
<1>5. x \in Router
  BY <1>3 DEF Router, RoutingTypes, RoutingTypeOK
<1> HIDE DEF x
<1>6. /\ router' \in [Routers -> Router] /\ Fit'
      /\ \A o \in Routers : /\ router'[o].step \in {"idle", "write"}
                            /\ router'[o].step = "write" => router'[o].slots # <<>>
                            /\ router'[o].read \in 0 .. NoIndex
  BY <1>1, <1>3, <1>4, <1>5, TypesKept
<1>7. crossed' \in BOOLEAN
  <2>1. crossed \in BOOLEAN
    BY DEF RoutingTypes, RoutingTypeOK
  <2>2. QED
    BY <1>2, <2>1, Zenon
<1>8. RoutingTypes'
  BY <1>1, <1>6, <1>7 DEF RoutingTypes, RoutingTypeOK
<1>9. Seen'
  BY <1>1 DEF Seen
<1>10. RoundRobin'
  BY <1>1, <1>2, <1>3 DEF RoundRobin
<1>11. Alone'
  <2> SUFFICES ASSUME ~ crossed', NEW p \in Routers, router'[p].step = "write"
               PROVE  /\ \A o \in Routers \ {p} : router'[o].step = "idle"
                      /\ router'[p].slots = Slots' /\ router'[p].read = index'
    BY DEF Alone
  <2>1. \A o \in Routers \ {r} : router[o].step = "idle"
    BY <1>2
  <2>2. router'[r] = x /\ \A o \in Routers : o # r => router'[o] = router[o]
    BY <1>1, <1>5, RouterTypes
  <2>3. p = r
    BY <2>1, <2>2
  <2>4. QED
    BY <1>1, <1>3, <1>4, <2>1, <2>2, <2>3
<1>12. QED
  BY <1>8, <1>9, <1>10, <1>11

\* A router that is alone writes the place of the turn, and moves it.
LEMMA WriteIndexKeeps ==
  ASSUME RoutingIInv, NEW r \in Routers, WriteIndex(r) PROVE RoutingIInv'
<1> USE DEF RoutingIInv
<1> DEFINE c == router[r]
           n == Len(c.slots)
           i == NextIndex(c.read, n)
           s == c.slots[i + 1]
<1>1. /\ c.step = "write" /\ share[s] < MaxShare
      /\ \/ /\ c.read = NoIndex => index = NoIndex
            /\ index' = i /\ share' = [share EXCEPT ![s] = @ + 1]
         \/ /\ c.read = NoIndex /\ index # NoIndex
            /\ index' = index /\ share' = share
  BY DEF WriteIndex
<1>2. /\ router' = [router EXCEPT ![r] = IdleRouter]
      /\ active' = active /\ leftAt' = leftAt /\ users' = users
      /\ crossed' = crossed /\ time' = time
  BY DEF WriteIndex
<1>3. Slots' = Slots
  BY <1>2 DEF Slots, SlotsAt, Known
<1>4. /\ c.slots \in Seq(Members) /\ c.slots # <<>> /\ n =< NoIndex /\ c.read \in 0 .. NoIndex
  BY <1>1 DEF RoutingTypes, Fit, Router
<1>5. n \in Nat \ {0} /\ NoIndex \in Nat
  BY <1>4, IdleRouterType
<1>6. i \in 0 .. n - 1
  <2> HIDE DEF n, c
  <2>1. QED
    BY <1>4, <1>5, NextIndexIsAPlace DEF i
<1>7. s \in Members
  BY <1>4, <1>5, <1>6
<1> HIDE DEF i, s
<1>8. i \in 0 .. NoIndex /\ i # NoIndex
  BY <1>4, <1>5, <1>6
<1>9. index' \in 0 .. NoIndex
  BY <1>1, <1>8 DEF RoutingTypes, RoutingTypeOK
<1>10. share \in [Members -> 0 .. MaxShare] /\ MaxShare \in Nat
  BY UserHoursAssumption DEF RoutingTypes, RoutingTypeOK
<1>11. share' \in [Members -> 0 .. MaxShare]
  BY <1>1, <1>7, <1>10
<1>12. /\ router' \in [Routers -> Router] /\ Fit'
       /\ \A o \in Routers : /\ router'[o].step \in {"idle", "write"}
                             /\ router'[o].step = "write" => router'[o].slots # <<>>
                             /\ router'[o].read \in 0 .. NoIndex
  BY <1>2, IdleRouterType, TypesKept
<1>13. RoutingTypes'
  BY <1>2, <1>9, <1>11, <1>12 DEF RoutingTypes, RoutingTypeOK
<1>14. Seen'
  BY <1>2 DEF Seen
<1>15. router'[r].step = "idle" /\ \A o \in Routers : o # r => router'[o] = router[o]
  BY <1>2, IdleRouterType, RouterTypes
<1>16. ~ crossed => /\ \A o \in Routers \ {r} : router[o].step = "idle"
                    /\ c.slots = Slots /\ c.read = index
  BY <1>1 DEF Alone
<1>17. Alone'
  <2>1. ~ crossed' => \A o \in Routers : router'[o].step = "idle"
    BY <1>2, <1>15, <1>16
  <2>2. QED
    BY <2>1 DEF Alone
<1>18. RoundRobin'
  <2> SUFFICES ASSUME ~ crossed, Slots # <<>>
               PROVE  TurnOf(share', Slots, NextIndex(index', Len(Slots)))
    BY <1>2, <1>3 DEF RoundRobin
  <2>1. c.slots = Slots /\ c.read = index /\ n = Len(Slots)
    BY <1>16
  <2>2. index' = i /\ share' = [share EXCEPT ![s] = @ + 1]
    BY <1>1, <2>1
  <2>3. i = NextIndex(index, Len(Slots)) /\ s = Slots[i + 1]
    BY <2>1 DEF i, s
  <2>4. TurnOf(share, Slots, i)
    BY <2>3 DEF RoundRobin
  <2>5. share \in [Members -> Nat] /\ share[Slots[i + 1]] < MaxShare
    BY <1>1, <1>10, <2>3
  <2>6. i \in 0 .. Len(Slots) - 1
    BY <1>6, <2>1
  <2>7. /\ Slots \in Seq(Members)
        /\ \A a, b \in 1 .. Len(Slots) : Slots[a] = Slots[b] => a = b
    BY SlotsAreMembers
  <2>8. TurnOf([share EXCEPT ![Slots[i + 1]] = @ + 1], Slots, (i + 1) % Len(Slots))
    BY <2>4, <2>5, <2>6, <2>7, TurnMoves
  <2>9. NextIndex(i, Len(Slots)) = (i + 1) % Len(Slots)
    BY <1>8 DEF NextIndex
  <2>10. QED
    BY <2>2, <2>3, <2>8, <2>9
<1>19. QED
  BY <1>13, <1>14, <1>17, <1>18

\* A router that is killed leaves the turn where it was.
LEMMA KillRouterKeeps ==
  ASSUME RoutingIInv, NEW r \in Routers, KillRouter(r) PROVE RoutingIInv'
<1> USE DEF RoutingIInv
<1>1. /\ router' = [router EXCEPT ![r] = IdleRouter]
      /\ active' = active /\ leftAt' = leftAt /\ users' = users /\ index' = index
      /\ share' = share /\ crossed' = crossed /\ time' = time
  BY DEF KillRouter
<1>2. Slots' = Slots
  BY <1>1 DEF Slots, SlotsAt, Known
<1>3. /\ router' \in [Routers -> Router] /\ Fit'
      /\ \A o \in Routers : /\ router'[o].step \in {"idle", "write"}
                            /\ router'[o].step = "write" => router'[o].slots # <<>>
                            /\ router'[o].read \in 0 .. NoIndex
  BY <1>1, IdleRouterType, TypesKept
<1>4. RoutingTypes'
  BY <1>1, <1>3 DEF RoutingTypes, RoutingTypeOK
<1>5. Seen' /\ RoundRobin'
  BY <1>1, <1>2 DEF Seen, RoundRobin
<1>6. router'[r].step = "idle" /\ \A o \in Routers : o # r => router'[o] = router[o]
  BY <1>1, IdleRouterType, RouterTypes
<1>7. Alone'
  <2> SUFFICES ASSUME ~ crossed', NEW p \in Routers, router'[p].step = "write"
               PROVE  /\ \A o \in Routers \ {p} : router'[o].step = "idle"
                      /\ router'[p].slots = Slots' /\ router'[p].read = index'
    BY DEF Alone
  <2>1. p # r /\ router'[p] = router[p]
    BY <1>6
  <2>2. /\ \A o \in Routers \ {p} : router[o].step = "idle"
        /\ router[p].slots = Slots /\ router[p].read = index
    BY <1>1, <2>1 DEF Alone
  <2>3. \A o \in Routers \ {p} : router'[o].step = "idle"
    BY <1>6, <2>2
  <2>4. QED
    BY <1>1, <1>2, <2>1, <2>2, <2>3
<1>8. QED
  BY <1>4, <1>5, <1>7

\* Whoever leaves was active whenever the cache was told so.
LEMMA LeaveKeeps ==
  ASSUME RoutingIInv, NEW s \in Members, Leave(s) PROVE RoutingIInv'
<1> USE DEF RoutingIInv
<1>1. /\ s \in active /\ active' = active \ {s} /\ leftAt' = [leftAt EXCEPT ![s] = time]
      /\ users' = users /\ index' = index /\ router' = router
      /\ share' = share /\ crossed' = crossed /\ time' = time
  BY DEF Leave
<1>2. Slots' = Slots
  BY <1>1 DEF Slots, SlotsAt, Known
<1>3. RoutingTypes'
  BY <1>1 DEF RoutingTypes, RoutingTypeOK, Fit
<1>4. Alone' /\ RoundRobin'
  BY <1>1, <1>2 DEF Alone, RoundRobin
<1>5. Seen'
  <2> SUFFICES ASSUME NEW o \in Members
               PROVE  /\ (users'[o].cached /\ users'[o].active) => users'[o].at =< leftAt'[o]
                      /\ o \in active' => leftAt'[o] = Stays
                      /\ users'[o].at =< time'
    BY DEF Seen
  <2>1. leftAt'[o] = IF o = s THEN time ELSE leftAt[o]
    BY <1>1 DEF RoutingTypes, RoutingTypeOK
  <2>2. QED
    BY <1>1, <2>1 DEF Seen
<1>6. QED
  BY <1>3, <1>4, <1>5

\* An hour: other members, and the shares begin again; or the same ones.
LEMMA TimePassesKeeps == ASSUME RoutingIInv, TimePasses PROVE RoutingIInv'
<1> USE DEF RoutingIInv
<1>1. /\ time < MaxTime /\ (\A r \in Routers : router[r].step = "idle")
      /\ time' = time + 1
      /\ active' = active /\ leftAt' = leftAt /\ users' = users /\ index' = index
      /\ router' = router
  BY DEF TimePasses
<1>2. MaxTime \in Nat /\ MaxShare \in Nat /\ time \in Nat
  BY UserHoursAssumption DEF RoutingTypes, RoutingTypeOK, Times
<1>3. Slots' = SlotsAt(time + 1)
  BY <1>1 DEF Slots, SlotsAt, Known
<1>4. Slots' \in Seq(Members) /\ Len(Slots') \in Nat
  BY <1>3, FilteredIsSlots DEF SlotsAt
<1>5. \/ Slots' = Slots /\ share' = share /\ crossed' = crossed
      \/ share' = [s \in Members |-> 0] /\ crossed' = FALSE
  BY <1>3 DEF TimePasses
<1>6. share' \in [Members -> 0 .. MaxShare] /\ crossed' \in BOOLEAN
  <2>1. CASE share' = share /\ crossed' = crossed
    BY <2>1 DEF RoutingTypes, RoutingTypeOK
  <2>2. CASE share' = [s \in Members |-> 0] /\ crossed' = FALSE
    <3>1. share' \in [Members -> 0 .. MaxShare]
      BY <1>2, <2>2
    <3>2. QED
      BY <2>2, <3>1, Zenon
  <2>3. QED
    BY <1>5, <2>1, <2>2
<1>7. time' \in Times
  BY <1>1, <1>2 DEF Times
<1>8. RoutingTypes'
  BY <1>1, <1>6, <1>7 DEF RoutingTypes, RoutingTypeOK, Fit
<1>9. Seen'
  <2> SUFFICES ASSUME NEW s \in Members PROVE users[s].at =< time + 1
    BY <1>1 DEF Seen
  <2>1. users[s].at =< time /\ users[s].at \in Nat
    BY DEF Seen, RoutingTypes, RoutingTypeOK, Times
  <2>2. QED
    BY <1>2, <2>1
<1>10. Alone'
  BY <1>1 DEF Alone
<1>11. RoundRobin'
  <2>1. CASE Slots' = Slots /\ share' = share /\ crossed' = crossed
    BY <1>1, <2>1 DEF RoundRobin
  <2>2. CASE share' = [s \in Members |-> 0]
    BY <1>1, <1>4, <2>2, RoundBegins
  <2>3. QED
    BY <1>5, <2>1, <2>2
<1>12. QED
  BY <1>8, <1>9, <1>10, <1>11

\* A step of the rotation, or none.
LEMMA RoutingStep == RoutingIInv /\ [RoutingNext]_routingVars => RoutingIInv'
<1> SUFFICES ASSUME RoutingIInv, [RoutingNext]_routingVars PROVE RoutingIInv'
  OBVIOUS
<1>1. CASE Refresh
  BY <1>1, RefreshKeeps
<1>2. ASSUME NEW r \in Routers, SelectIndex(r) \/ WriteIndex(r) \/ KillRouter(r) PROVE RoutingIInv'
  BY <1>2, SelectIndexKeeps, WriteIndexKeeps, KillRouterKeeps
<1>3. ASSUME NEW s \in Members, Leave(s) PROVE RoutingIInv'
  BY <1>3, LeaveKeeps
<1>4. CASE TimePasses
  BY <1>4, TimePassesKeeps
<1>5. CASE UNCHANGED routingVars
  <2>1. Slots' = Slots
    BY <1>5 DEF routingVars, Slots, SlotsAt, Known
  <2>2. QED
    BY <1>5, <2>1 DEF routingVars, RoutingIInv, RoutingTypes, RoutingTypeOK, Fit, Seen, Alone, RoundRobin
<1>6. QED
  BY <1>1, <1>2, <1>3, <1>4, <1>5 DEF RoutingNext

\* In a turn nobody is two leads ahead; and a slot is as old as the cache
\* lets it be.
LEMMA RoutingIInvImplies == RoutingIInv => RoutingInv
<1> SUFFICES ASSUME RoutingIInv PROVE RoutingInv
  OBVIOUS
<1> USE DEF RoutingIInv
<1>1. RoutingTypeOK
  BY DEF RoutingTypes
<1>2. RotationIsFair
  <2> SUFFICES ASSUME ~ crossed, NEW a \in DOMAIN Slots, NEW b \in DOMAIN Slots
               PROVE  share[Slots[a]] =< share[Slots[b]] + 1
    BY DEF RotationIsFair
  <2> DEFINE n == Len(Slots)
  <2>1. n \in Nat /\ a \in 1 .. n /\ b \in 1 .. n /\ Slots # <<>>
    BY SlotsAreMembers
  <2>2. PICK j \in 0 .. n - 1, m \in 0 .. MaxShare :
          \A k \in 0 .. n - 1 :
            share[Slots[k + 1]] = IF Between(j, NextIndex(index, n), k) THEN m + 1 ELSE m
    BY <2>1 DEF RoundRobin, TurnOf
  <2> HIDE DEF n
  <2>3. m \in Nat
    BY UserHoursAssumption
  <2>4. \A k \in 0 .. n - 1 : share[Slots[k + 1]] \in {m, m + 1}
    BY <2>2
  <2>5. a - 1 \in 0 .. n - 1 /\ b - 1 \in 0 .. n - 1 /\ (a - 1) + 1 = a /\ (b - 1) + 1 = b
    BY <2>1
  <2>6. share[Slots[a]] \in {m, m + 1} /\ share[Slots[b]] \in {m, m + 1}
    BY <2>4, <2>5
  <2>7. QED
    BY <2>3, <2>6
<1>3. LeaversGetNothing
  <2> SUFFICES ASSUME NEW n \in 1 .. Len(Slots) PROVE time =< leftAt[Slots[n]] + UserHours
    <3>1. \A s \in ToSet(Slots) : \E n \in 1 .. Len(Slots) : s = Slots[n]
      BY SlotsAreMembers DEF ToSet
    <3>2. QED
      BY <3>1 DEF LeaversGetNothing
  <2> DEFINE test == [s \in Members |-> Known(s, time) /\ users[s].active]
             s == Slots[n]
  <2>1. Slots = Filtered(test)
    BY DEF Slots, SlotsAt
  <2>2. s \in Members /\ test[s]
    <3> HIDE DEF test
    <3>1. QED
      BY <2>1, FilteredIsSlots
  <2>3. users[s].cached /\ users[s].at + UserHours >= time /\ users[s].active
    <3> HIDE DEF s
    <3>1. QED
      BY <2>2 DEF Known
  <2> HIDE DEF s
  <2>4. users[s].at =< leftAt[s]
    BY <2>2, <2>3 DEF Seen
  <2>5. users[s].at \in Nat /\ leftAt[s] \in Nat /\ time \in Nat /\ UserHours \in Nat
    BY <2>2, UserHoursAssumption DEF RoutingTypes, RoutingTypeOK, Times, Stays
  <2>6. time =< leftAt[s] + UserHours
    BY <2>3, <2>4, <2>5
  <2>7. QED
    BY <2>6 DEF s
<1>4. QED
  BY <1>1, <1>2, <1>3 DEF RoutingInv

(* The rotation of a segment is fair: while its members are the same and   *)
(* no two processes read one index, none of them is two leads ahead of     *)
(* another, whoever is killed between the SELECT and the UPDATE of         *)
(* _next_index; and an SDR who has left gets none once the day that        *)
(* _lookup_user trusts its cache for is over.                              *)
THEOREM RoutingHolds == RoutingSpec => []RoutingInv
<1>1. RoutingInit => RoutingIInv
  BY RoutingInitially
<1>2. RoutingIInv /\ [RoutingNext]_routingVars => RoutingIInv'
  BY RoutingStep
<1>3. RoutingIInv => RoutingInv
  BY RoutingIInvImplies
<1>4. QED
  BY <1>1, <1>2, <1>3, PTL DEF RoutingSpec
=============================================================================
