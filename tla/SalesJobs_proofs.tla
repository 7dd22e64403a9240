-------------------------- MODULE SalesJobs_proofs --------------------------
(***************************************************************************)
(* What the jobs of agents/sales_reps guarantee for every value of their   *)
(* constants.                                                              *)
(* RateLimits: a window that no two checks have raced for lets through its *)
(* limit and no more, and no window refuses a use that is left.            *)
(* SalesJobs: its jobs keep to those limits, a batch stores a grade once,  *)
(* and scans brief an opportunity once a window.                           *)
(* CallGrades: a grade is a plan's to the digit, and the Friday reports    *)
(* count every call that is graded in time, once.                          *)
(* DealWatch: the sweeps over open deals see what they were made to see.   *)
(***************************************************************************)
EXTENDS SalesJobs, CallGrades, DealWatch, FiniteSetTheorems, WellFoundedInduction, TLAPS

\* The start of a window is a time up to now.
LEMMA WindowStartType ==
  ASSUME NEW b \in Buckets, NEW t \in Windows
  PROVE  WindowStart(b, t) \in Windows
<1>1. PeriodOf[b] \in Nat /\ PeriodOf[b] > 0 /\ t \in Nat
  BY PeriodAssumption, ClockAssumption DEF Windows
<1>2. t % PeriodOf[b] \in Nat /\ t % PeriodOf[b] <= t
  BY <1>1, Z3
<1>3. QED
  BY <1>1, <1>2, ClockAssumption DEF WindowStart, Windows

-----------------------------------------------------------------------------
(* Types *)

LEMMA RateInitType == RateInit => RateTypeOK
  BY ClockAssumption DEF RateInit, RateTypeOK, NoCheck, Check_, Check, Windows

LEMMA RateNextType == RateTypeOK /\ [RateNext]_rateVars => RateTypeOK'
<1> SUFFICES ASSUME RateTypeOK, [RateNext]_rateVars PROVE RateTypeOK'
  OBVIOUS
<1>1. ASSUME NEW p \in Callers, NEW b \in Buckets, RateSelect(p, b) PROVE RateTypeOK'
  <2>1. WindowStart(b, clock) \in Windows
    BY WindowStartType DEF RateTypeOK
  <2>2. counts[b][WindowStart(b, clock)] \in Nat
    BY <2>1 DEF RateTypeOK
  <2>3. b # NoBucket
    BY BucketAssumption
  <2>4. check' \in [Callers -> Check]
    BY <1>1, <2>1, <2>2 DEF RateTypeOK, RateSelect, Check_, Check
  <2>5. \A q \in Callers : check'[q].pc # "idle" => check'[q].bucket # NoBucket
    BY <1>1, <2>3 DEF RateTypeOK, RateSelect, Check_
  <2>6. raced' \subseteq Buckets \X Windows
    BY <1>1, <2>1 DEF RateTypeOK, RateSelect
  <2>7. QED
    BY <1>1, <2>4, <2>5, <2>6 DEF RateTypeOK, RateSelect
<1>2. ASSUME NEW p \in Callers, RateWrite(p) PROVE RateTypeOK'
  <2>1. check[p].bucket \in Buckets /\ check[p].window \in Windows /\ check[p].seen \in Nat
    BY <1>2 DEF RateTypeOK, RateWrite, Check
  <2>2. check' \in [Callers -> Check]
    BY <1>2, <2>1 DEF RateTypeOK, RateWrite, Check_, Check
  <2>3. \A q \in Callers : check'[q].pc # "idle" => check'[q].bucket # NoBucket
    BY <1>2, <2>1, BucketAssumption DEF RateTypeOK, RateWrite, Check_
  <2>4. counts' \in [Buckets -> [Windows -> Nat]]
    BY <1>2, <2>1 DEF RateTypeOK, RateWrite
  <2>5. granted' \in [Buckets -> [Windows -> Nat]]
    BY <1>2, <2>1 DEF RateTypeOK, RateWrite
  <2>6. QED
    BY <1>2, <2>2, <2>3, <2>4, <2>5 DEF RateTypeOK, RateWrite
<1>3. ASSUME NEW p \in Callers, RateEnd(p) PROVE RateTypeOK'
  <2>1. NoCheck \in Check /\ NoCheck.pc = "idle"
    BY ClockAssumption DEF NoCheck, Check_, Check, Windows
  <2>2. check' = [check EXCEPT ![p] = NoCheck] /\ UNCHANGED <<counts, clock, granted, raced>>
    BY <1>3 DEF RateEnd
  <2>3. QED
    BY <2>1, <2>2 DEF RateTypeOK
<1>4. CASE RateTick
  BY <1>4, ClockAssumption DEF RateTypeOK, RateTick, Windows
<1>5. CASE UNCHANGED rateVars
  BY <1>5 DEF RateTypeOK, rateVars
<1>6. QED
  BY <1>1, <1>2, <1>3, <1>4, <1>5 DEF RateNext

\* Every variable of the limits keeps its type.
THEOREM RateTypes == RateSpec => []RateTypeOK
<1>1. QED
  BY RateInitType, RateNextType, PTL DEF RateSpec

-----------------------------------------------------------------------------
(* Nobody is refused early *)

\* Lost increments only ever leave the table behind what was let through.
TableLags ==
  /\ \A b \in Buckets, w \in Windows : counts[b][w] <= granted[b][w]
  /\ \A p \in Callers :
       /\ check[p].pc = "write" =>
            check[p].seen <= granted[check[p].bucket][check[p].window]
       /\ check[p].answer = "refused" => check[p].pc = "answered"
       /\ check[p].answer = "refused" =>
            granted[check[p].bucket][check[p].window] >= LimitOf[check[p].bucket]

LEMMA TableLagsInit == RateInit => TableLags
  BY DEF RateInit, TableLags, NoCheck, Check_

LEMMA TableLagsNext == RateTypeOK /\ TableLags /\ [RateNext]_rateVars => TableLags'
<1> SUFFICES ASSUME RateTypeOK, TableLags, [RateNext]_rateVars PROVE TableLags'
  OBVIOUS
<1>1. ASSUME NEW p \in Callers, NEW b \in Buckets, RateSelect(p, b) PROVE TableLags'
  <2> DEFINE w == WindowStart(b, clock)
  <2>1. w \in Windows
    BY WindowStartType DEF RateTypeOK
  <2>2. counts[b][w] \in Nat /\ granted[b][w] \in Nat /\ LimitOf[b] \in Nat
        /\ counts[b][w] <= granted[b][w]
    BY <2>1, LimitAssumption DEF RateTypeOK, TableLags
  <2>3. UNCHANGED <<counts, granted>> /\ \A q \in Callers \ {p} : check'[q] = check[q]
    BY <1>1 DEF RateSelect, RateTypeOK
  <2>4. \/ check'[p] = Check_("answered", b, w, counts[b][w], "refused") /\ Exceeds(b, counts[b][w])
        \/ check'[p] = Check_("write", b, w, counts[b][w], "none")
    BY <1>1 DEF RateSelect, RateTypeOK
  <2> HIDE DEF w
  <2>5. Exceeds(b, counts[b][w]) => granted[b][w] >= LimitOf[b]
    BY <2>2 DEF Exceeds
  <2>6. QED
    BY <2>1, <2>2, <2>3, <2>4, <2>5 DEF TableLags, Check_
<1>2. ASSUME NEW p \in Callers, RateWrite(p) PROVE TableLags'
  <2> DEFINE b == check[p].bucket
             w == check[p].window
             seen == check[p].seen
             clash == seen = 0 /\ counts[b][w] # 0
  <2>1. b \in Buckets /\ w \in Windows /\ seen \in Nat /\ seen <= granted[b][w]
    BY <1>2 DEF RateTypeOK, RateWrite, Check, TableLags
  <2>2. \A q \in Callers \ {p} : check'[q] = check[q]
    BY <1>2 DEF RateWrite, RateTypeOK
  <2>3. check'[p].pc = "answered" /\ check'[p].answer # "refused"
    BY <1>2 DEF RateWrite, RateTypeOK, Check_
  <2>4. \A c \in Buckets, v \in Windows :
          /\ counts'[c][v] = IF c = b /\ v = w /\ ~clash THEN seen + 1 ELSE counts[c][v]
          /\ granted'[c][v] = IF c = b /\ v = w /\ ~clash THEN granted[c][v] + 1
                              ELSE granted[c][v]
    BY <1>2, <2>1 DEF RateWrite, RateTypeOK
  <2> HIDE DEF clash, b, w, seen
  <2>5. \A c \in Buckets, v \in Windows :
          /\ counts[c][v] \in Nat /\ granted[c][v] \in Nat /\ granted'[c][v] >= granted[c][v]
          /\ granted'[c][v] \in Nat
    BY <2>4 DEF RateTypeOK
  <2>6. \A c \in Buckets, v \in Windows : counts'[c][v] <= granted'[c][v]
    BY <2>1, <2>4, <2>5 DEF TableLags
  <2>7. \A q \in Callers \ {p} :
          /\ check[q].pc # "idle" => check[q].bucket \in Buckets /\ check[q].window \in Windows
          /\ check[q].seen \in Nat
    BY DEF RateTypeOK, Check
  <2>8. \A q \in Callers \ {p} :
          /\ check'[q].pc = "write" =>
               check'[q].seen <= granted'[check'[q].bucket][check'[q].window]
          /\ check'[q].answer = "refused" => check'[q].pc = "answered"
          /\ check'[q].answer = "refused" =>
               granted'[check'[q].bucket][check'[q].window] >= LimitOf[check'[q].bucket]
    <3> TAKE q \in Callers \ {p}
    <3>1. CASE check[q].pc = "idle"
      BY <3>1, <2>2 DEF TableLags
    <3>2. CASE check[q].pc # "idle"
      <4>1. LimitOf[check[q].bucket] \in Nat
        BY <3>2, <2>7, LimitAssumption
      <4>2. QED
        BY <3>2, <4>1, <2>2, <2>5, <2>7 DEF TableLags
    <3>3. QED
      BY <3>1, <3>2
  <2>9. QED
    BY <2>3, <2>6, <2>8 DEF TableLags
<1>3. ASSUME NEW p \in Callers, RateEnd(p) PROVE TableLags'
  <2>1. check' = [check EXCEPT ![p] = NoCheck] /\ UNCHANGED <<counts, granted>>
    BY <1>3 DEF RateEnd
  <2>2. QED
    BY <2>1 DEF TableLags, RateTypeOK, NoCheck, Check_
<1>4. CASE RateTick
  BY <1>4 DEF TableLags, RateTick
<1>5. CASE UNCHANGED rateVars
  BY <1>5 DEF TableLags, rateVars
<1>6. QED
  BY <1>1, <1>2, <1>3, <1>4, <1>5 DEF RateNext

\* A refusal means that the window has let through its limit, for any callers,
\* limits and interleaving of their SELECTs and writes.
THEOREM RefusalsAreDue == RateSpec => []NeverRefusedEarly
<1>1. TableLags => NeverRefusedEarly
  BY DEF TableLags, NeverRefusedEarly
<1>2. QED
  BY <1>1, RateTypes, TableLagsInit, TableLagsNext, PTL DEF RateSpec

-----------------------------------------------------------------------------
(* A window that is not raced for *)

\* Of a window nobody has raced for, the table is exact, its one writer holds the
\* current count, and a writer of a hard limit has room for one more.
Exact ==
  /\ \A b \in Buckets, w \in Windows : <<b, w>> \notin raced =>
       /\ granted[b][w] = counts[b][w]
       /\ b \notin Soft => counts[b][w] <= LimitOf[b]
       /\ \A p \in Callers : Writing(p, b, w) => check[p].seen = counts[b][w]
       /\ \A p, q \in Callers : Writing(p, b, w) /\ Writing(q, b, w) => p = q
  /\ \A p \in Callers :
       check[p].pc = "write" /\ check[p].bucket \notin Soft =>
         check[p].seen + 1 <= LimitOf[check[p].bucket]

LEMMA ExactInit == RateInit => Exact
<1> SUFFICES ASSUME RateInit PROVE Exact
  OBVIOUS
<1>1. \A p \in Callers : check[p].pc = "idle"
  BY DEF RateInit, NoCheck, Check_
<1>2. \A b \in Buckets : LimitOf[b] \in Nat
  BY LimitAssumption
<1>3. QED
  BY <1>1, <1>2 DEF RateInit, Exact, Writing

LEMMA ExactNext == RateTypeOK /\ Exact /\ [RateNext]_rateVars => Exact'
<1> SUFFICES ASSUME RateTypeOK, Exact, [RateNext]_rateVars PROVE Exact'
  OBVIOUS
<1>1. ASSUME NEW p \in Callers, NEW b \in Buckets, RateSelect(p, b) PROVE Exact'
  <2> DEFINE w == WindowStart(b, clock)
             count == counts[b][w]
             refused == Exceeds(b, count) /\ b \notin Soft
  <2>1. w \in Windows
    BY WindowStartType DEF RateTypeOK
  <2>2. count \in Nat /\ LimitOf[b] \in Nat /\ LimitOf[b] > 0
    BY <2>1, LimitAssumption DEF RateTypeOK
  <2>3. UNCHANGED <<counts, granted>> /\ \A q \in Callers \ {p} : check'[q] = check[q]
    BY <1>1 DEF RateSelect, RateTypeOK
  <2>4. check'[p] = IF refused THEN Check_("answered", b, w, count, "refused")
                    ELSE Check_("write", b, w, count, "none")
    BY <1>1 DEF RateSelect, RateTypeOK
  <2>5. raced \subseteq raced'
        /\ (~refused /\ (\E q \in Callers \ {p} : Writing(q, b, w)) => <<b, w>> \in raced')
    BY <1>1 DEF RateSelect
  <2>6. ~refused /\ b \notin Soft => count + 1 <= LimitOf[b]
    BY <2>2 DEF Exceeds
  <2> HIDE DEF w, count, refused
  <2>7. \A q \in Callers \ {p}, c \in Buckets, v \in Windows :
          Writing(q, c, v)' <=> Writing(q, c, v)
    BY <2>3 DEF Writing
  <2>8. \A c \in Buckets, v \in Windows :
          Writing(p, c, v)' <=> ~refused /\ c = b /\ v = w
    BY <2>4 DEF Writing, Check_
  <2>9. ASSUME NEW c \in Buckets, NEW v \in Windows, <<c, v>> \notin raced'
        PROVE  /\ granted'[c][v] = counts'[c][v]
               /\ c \notin Soft => counts'[c][v] <= LimitOf[c]
               /\ \A q \in Callers : Writing(q, c, v)' => check'[q].seen = counts'[c][v]
               /\ \A q, r \in Callers : Writing(q, c, v)' /\ Writing(r, c, v)' => q = r
    <3>1. <<c, v>> \notin raced
      BY <2>5, <2>9
    <3>2. check'[p].pc = "write" => check'[p].seen = count
      BY <2>4 DEF Check_
    <3>3. Writing(p, c, v)' => \A q \in Callers \ {p} : ~Writing(q, c, v)
      BY <2>5, <2>8, <2>9
    <3>4. \A q \in Callers : Writing(q, c, v)' => check'[q].seen = counts'[c][v]
      <4>1. Writing(p, c, v)' => check'[p].seen = counts'[c][v]
        BY <2>3, <2>8, <3>2 DEF Writing, count
      <4>2. \A q \in Callers \ {p} : Writing(q, c, v)' => check'[q].seen = counts'[c][v]
        BY <2>3, <2>7, <3>1 DEF Exact
      <4>3. QED
        BY <4>1, <4>2
    <3>5. \A q, r \in Callers : Writing(q, c, v)' /\ Writing(r, c, v)' => q = r
      BY <2>7, <3>1, <3>3 DEF Exact
    <3>6. QED
      BY <2>3, <3>1, <3>4, <3>5 DEF Exact
  <2>10. \A q \in Callers : check'[q].pc = "write" /\ check'[q].bucket \notin Soft =>
           check'[q].seen + 1 <= LimitOf[check'[q].bucket]
    <3>1. check'[p].pc = "write" /\ check'[p].bucket \notin Soft =>
            check'[p].seen + 1 <= LimitOf[check'[p].bucket]
      BY <2>4, <2>6 DEF Check_
    <3>2. QED
      BY <3>1, <2>3 DEF Exact
  <2>11. QED
    BY <2>9, <2>10 DEF Exact
<1>2. ASSUME NEW p \in Callers, RateWrite(p) PROVE Exact'
  <2> DEFINE b == check[p].bucket
             w == check[p].window
             seen == check[p].seen
             clash == seen = 0 /\ counts[b][w] # 0
  <2>1. b \in Buckets /\ w \in Windows /\ seen \in Nat /\ Writing(p, b, w)
        /\ LimitOf[b] \in Nat /\ (b \notin Soft => seen + 1 <= LimitOf[b])
    BY <1>2, LimitAssumption DEF RateTypeOK, RateWrite, Check, Exact, Writing
  <2>2. \A q \in Callers \ {p} : check'[q] = check[q]
    BY <1>2 DEF RateWrite, RateTypeOK
  <2>3. check'[p].pc = "answered" /\ raced' = raced
    BY <1>2 DEF RateWrite, RateTypeOK, Check_
  <2>4. \A c \in Buckets, v \in Windows :
          /\ counts'[c][v] = IF c = b /\ v = w /\ ~clash THEN seen + 1 ELSE counts[c][v]
          /\ granted'[c][v] = IF c = b /\ v = w /\ ~clash THEN granted[c][v] + 1
                              ELSE granted[c][v]
    BY <1>2, <2>1 DEF RateWrite, RateTypeOK
  <2>5. <<b, w>> \notin raced => seen = counts[b][w] /\ ~clash
    BY <2>1 DEF Exact
  <2> HIDE DEF clash, b, w, seen
  <2>6. \A q \in Callers, c \in Buckets, v \in Windows :
          Writing(q, c, v)' <=> q # p /\ Writing(q, c, v)
    BY <2>2, <2>3 DEF Writing
  <2>7. ASSUME NEW c \in Buckets, NEW v \in Windows, <<c, v>> \notin raced'
        PROVE  /\ granted'[c][v] = counts'[c][v]
               /\ c \notin Soft => counts'[c][v] <= LimitOf[c]
               /\ \A q \in Callers : Writing(q, c, v)' => check'[q].seen = counts'[c][v]
               /\ \A q, r \in Callers : Writing(q, c, v)' /\ Writing(r, c, v)' => q = r
    <3>1. <<c, v>> \notin raced
      BY <2>3, <2>7
    <3>2. counts[c][v] \in Nat /\ granted[c][v] \in Nat
      BY DEF RateTypeOK
    <3>3. CASE c = b /\ v = w
      <4>1. seen = counts[c][v] /\ ~clash
        BY <2>5, <3>1, <3>3
      <4>2. counts'[c][v] = seen + 1 /\ granted'[c][v] = granted[c][v] + 1
        BY <2>4, <3>3, <4>1
      <4>3. \A q \in Callers : ~Writing(q, c, v)'
        BY <2>1, <2>6, <3>1, <3>3 DEF Exact
      <4>4. granted[c][v] = counts[c][v]
        BY <3>1 DEF Exact
      <4>5. QED
        BY <2>1, <3>2, <3>3, <4>1, <4>2, <4>3, <4>4
    <3>4. CASE ~(c = b /\ v = w)
      <4>1. counts'[c][v] = counts[c][v] /\ granted'[c][v] = granted[c][v]
        BY <2>4, <3>4
      <4>2. QED
        BY <2>2, <2>6, <3>1, <4>1 DEF Exact
    <3>5. QED
      BY <3>3, <3>4
  <2>8. \A q \in Callers : check'[q].pc = "write" /\ check'[q].bucket \notin Soft =>
           check'[q].seen + 1 <= LimitOf[check'[q].bucket]
    BY <2>2, <2>3 DEF Exact
  <2>9. QED
    BY <2>7, <2>8 DEF Exact
<1>3. ASSUME NEW p \in Callers, RateEnd(p) PROVE Exact'
  <2>1. check' = [check EXCEPT ![p] = NoCheck] /\ UNCHANGED <<counts, granted, raced>>
    BY <1>3 DEF RateEnd
  <2>2. NoCheck.pc = "idle"
    BY DEF NoCheck, Check_
  <2>3. \A q \in Callers : check'[q] = check[q] \/ check'[q].pc = "idle"
    BY <2>1, <2>2 DEF RateTypeOK
  <2>4. QED
    BY <2>1, <2>3 DEF Exact, Writing
<1>4. CASE RateTick
  BY <1>4 DEF Exact, Writing, RateTick
<1>5. CASE UNCHANGED rateVars
  BY <1>5 DEF Exact, Writing, rateVars
<1>6. QED
  BY <1>1, <1>2, <1>3, <1>4, <1>5 DEF RateNext

\* A window that no two checks have raced for lets through what its row counts,
\* and a hard limit's no more than the limit.
THEOREM LimitsCap == RateSpec => []CappedUnlessRaced
<1>1. RateTypeOK /\ Exact => CappedUnlessRaced
  BY DEF Exact, CappedUnlessRaced, RateTypeOK
<1>2. QED
  BY <1>1, RateTypes, ExactInit, ExactNext, PTL DEF RateSpec

-----------------------------------------------------------------------------
(* The jobs count in the table of limits by its checks alone *)

LEMMA StepsAreRateSteps == [Next]_vars => [RateNext]_rateVars
<1> SUFFICES ASSUME [Next]_vars PROVE [RateNext]_rateVars
  OBVIOUS
<1>1. ASSUME NEW p \in Callers, NEW kind, StartSync(p, kind) PROVE [RateNext]_rateVars
  BY <1>1, BucketsUsed DEF StartSync, RateNext
<1>2. ASSUME NEW p \in Callers, NEW c \in Calls, AskSlot(p, c) PROVE [RateNext]_rateVars
  BY <1>2, BucketsUsed DEF AskSlot, RateNext
<1>3. ASSUME NEW p \in Callers, SlotWrite(p) \/ SlotAnswer(p) \/ Crash(p)
      PROVE  [RateNext]_rateVars
  BY <1>3 DEF SlotWrite, SlotAnswer, Crash, RateNext
<1>4. CASE Tick
  BY <1>4 DEF Tick, RateNext
<1>5. ASSUME NEW p \in Callers, NEW kind, NEW rows, StartBatch(p, kind, rows)
      PROVE  UNCHANGED rateVars
  BY <1>5 DEF StartBatch
<1>6. ASSUME NEW p \in Callers, NEW c \in Calls, StartGrade(p, c) \/ SkipGraded(p, c)
      PROVE  UNCHANGED rateVars
  BY <1>6 DEF StartGrade, SkipGraded
<1>7. ASSUME NEW p \in Callers, NEW opps, StartScan(p, opps) PROVE UNCHANGED rateVars
  BY <1>7 DEF StartScan
<1>8. ASSUME NEW p \in Callers, NEW o \in Opps, StartBrief(p, o) \/ Candidate(p, o)
      PROVE  UNCHANGED rateVars
  BY <1>8 DEF StartBrief, Candidate
<1>9. ASSUME NEW p \in Callers,
             StoreGrade(p) \/ LeaveUngraded(p) \/ WriteBrief(p) \/ NoBrief(p) \/ Done(p)
      PROVE  UNCHANGED rateVars
  BY <1>9 DEF StoreGrade, LeaveUngraded, WriteBrief, NoBrief, Done
<1>10. CASE Leaderboard
  BY <1>10 DEF Leaderboard
<1>11. CASE UNCHANGED vars
  BY <1>11 DEF vars
<1>12. QED
  BY <1>1, <1>2, <1>3, <1>4, <1>5, <1>6, <1>7, <1>8, <1>9, <1>10, <1>11 DEF Next

\* The jobs of sales_reps, whatever they do, use the table rate_limits as
\* RateLimits says its callers do.
THEOREM JobsCheckLimits == Spec => RateSpec
<1>1. Init => RateInit
  BY DEF Init
<1>2. QED
  BY <1>1, StepsAreRateSteps, PTL DEF Spec, RateSpec

\* Whatever jobs run side by side, an hour's slots that no two of them raced for
\* are not overdrawn.
THEOREM JobsAreCapped == Spec => []CappedUnlessRaced
<1>1. QED
  BY JobsCheckLimits, LimitsCap, PTL

\* No job is refused a slot that is left in its hour.
THEOREM JobsAreNotRefusedEarly == Spec => []NeverRefusedEarly
<1>1. QED
  BY JobsCheckLimits, RefusalsAreDue, PTL

-----------------------------------------------------------------------------
(* What a step does to the jobs *)

\* The job of p becomes the given one.
Becomes(p, kind, pc, todo, item) == job' = [job EXCEPT ![p] = Job_(kind, pc, todo, item)]

\* The jobs of a typed state.
JobsOK ==
  /\ job \in [Callers -> Job]
  /\ \A p \in Callers : job[p].item \in Opps => job[p].kind \in {"brief_scan", "brief"}

LEMMA BecomesType ==
  ASSUME JobsOK, NEW p \in Callers, NEW kind \in Kinds, NEW pc \in {"idle", "rows", "slot", "work"},
         NEW todo \in (SUBSET Calls) \cup (SUBSET Opps), NEW item \in Calls \cup Opps \cup {NoItem},
         item \in Opps => kind \in {"brief_scan", "brief"},
         Becomes(p, kind, pc, todo, item)
  PROVE  JobsOK'
<1>1. Job_(kind, pc, todo, item) \in Job
  BY DEF Job, Job_
<1>2. job' \in [Callers -> Job]
  BY <1>1 DEF Becomes, JobsOK
<1>3. \A q \in Callers : job'[q].item \in Opps => job'[q].kind \in {"brief_scan", "brief"}
  BY DEF Becomes, JobsOK, Job_
<1>4. QED
  BY <1>2, <1>3 DEF JobsOK

LEMMA BecomesValue ==
  ASSUME JobsOK, NEW p \in Callers, NEW kind, NEW pc, NEW todo, NEW item,
         Becomes(p, kind, pc, todo, item)
  PROVE  /\ job'[p] = Job_(kind, pc, todo, item)
         /\ job'[p].kind = kind /\ job'[p].pc = pc /\ job'[p].item = item
         /\ \A q \in Callers \ {p} : job'[q] = job[q]
  BY DEF Becomes, JobsOK, Job_

LEMMA StartBecomes ==
  ASSUME NEW p \in Callers, NEW kind, NEW pc, NEW todo, NEW item,
         Start(p, kind, pc, todo, item)
  PROVE  /\ Becomes(p, kind, pc, todo, item)
         /\ job[p] = NoJob
         /\ kind \in Ticks => \A q \in Callers : job[q].kind # kind
         /\ started < MaxJobs /\ started' = started + 1
  BY DEF Start, Becomes

LEMMA GoOnBecomes ==
  ASSUME JobsOK, NEW p \in Callers, NEW pc, NEW todo, NEW item, GoOn(p, pc, todo, item)
  PROVE  Becomes(p, job[p].kind, pc, todo, item)
  BY DEF JobsOK, GoOn, Becomes

LEMMA FinishBecomes ==
  ASSUME JobsOK, NEW p \in Callers, Finish(p)
  PROVE  Becomes(p, "none", "idle", {}, NoItem)
  BY DEF JobsOK, Finish, Becomes, NoJob

LEMMA NextBecomes ==
  ASSUME JobsOK, NEW p \in Callers, Next_(p)
  PROVE  \/ Becomes(p, job[p].kind, "rows", job[p].todo \ {job[p].item}, NoItem)
         \/ Becomes(p, "none", "idle", {}, NoItem)
  BY GoOnBecomes, FinishBecomes DEF Next_

LEMMA NextMoves ==
  ASSUME JobsOK, NEW p \in Callers, Next_(p)
  PROVE  job'[p].pc \in {"rows", "idle"} /\ \A q \in Callers \ {p} : job'[q] = job[q]
<1>1. CASE Becomes(p, job[p].kind, "rows", job[p].todo \ {job[p].item}, NoItem)
  BY <1>1, BecomesValue
<1>2. CASE Becomes(p, "none", "idle", {}, NoItem)
  BY <1>2, BecomesValue
<1>3. QED
  BY <1>1, <1>2, NextBecomes

-----------------------------------------------------------------------------
(* Types *)

LEMMA InitType == Init => TypeOK
<1> SUFFICES ASSUME Init PROVE TypeOK
  OBVIOUS
<1>1. RateTypeOK
  BY RateInitType DEF Init
<1>2. NoJob \in Job /\ NoJob.pc = "idle" /\ NoJob.item = NoItem
  BY DEF NoJob, Job_, Job, Kinds
<1>3. \A p \in Callers : check[p].pc = "idle"
  BY DEF Init, RateInit, NoCheck, Check_
<1>4. QED
  BY <1>1, <1>2, <1>3, ItemAssumption, BoundAssumption DEF Init, TypeOK

\* What a step does to the jobs and to who is in a check.
JobsChecked ==
  /\ JobsOK
  /\ \A p \in Callers : job[p].pc = "slot" <=> check[p].pc # "idle"

\* A check that begins puts its process in a check, and one that ends takes it out.
LEMMA CheckSteps ==
  ASSUME RateTypeOK, NEW p \in Callers
  PROVE  /\ \A b \in Buckets : RateSelect(p, b) =>
               check'[p].pc # "idle" /\ \A q \in Callers \ {p} : check'[q] = check[q]
         /\ RateWrite(p) =>
               /\ check[p].pc = "write" /\ check'[p].pc = "answered"
               /\ \A q \in Callers \ {p} : check'[q] = check[q]
         /\ RateEnd(p) =>
               check'[p].pc = "idle" /\ \A q \in Callers \ {p} : check'[q] = check[q]
<1>1. ASSUME NEW b \in Buckets, RateSelect(p, b)
      PROVE  check'[p].pc # "idle" /\ \A q \in Callers \ {p} : check'[q] = check[q]
  BY <1>1 DEF RateTypeOK, RateSelect, Check_
<1>2. RateWrite(p) =>
        /\ check[p].pc = "write" /\ check'[p].pc = "answered"
        /\ \A q \in Callers \ {p} : check'[q] = check[q]
  BY DEF RateTypeOK, RateWrite, Check_
<1>3. RateEnd(p) =>
        check'[p].pc = "idle" /\ \A q \in Callers \ {p} : check'[q] = check[q]
  BY DEF RateTypeOK, RateEnd, NoCheck, Check_
<1>4. QED
  BY <1>1, <1>2, <1>3

LEMMA NextJobsChecked == TypeOK /\ [Next]_vars => JobsChecked'
<1> SUFFICES ASSUME TypeOK, [Next]_vars PROVE JobsChecked'
  OBVIOUS
<1>1. JobsOK /\ RateTypeOK /\ \A p \in Callers : job[p] \in Job
  BY DEF TypeOK, JobsOK
<1>2. \A p \in Callers : job[p].pc = "slot" <=> check[p].pc # "idle"
  BY DEF TypeOK
\* A step that leaves the limits alone and no job waiting that did not.
<1>3. ASSUME NEW p \in Callers, NEW kind \in Kinds, NEW pc \in {"idle", "rows", "work"},
             NEW todo \in (SUBSET Calls) \cup (SUBSET Opps),
             NEW item \in Calls \cup Opps \cup {NoItem},
             item \in Opps => kind \in {"brief_scan", "brief"},
             Becomes(p, kind, pc, todo, item), job[p].pc # "slot", UNCHANGED rateVars
      PROVE  JobsChecked'
  <2>1. JobsOK'
    BY <1>1, <1>3, BecomesType
  <2>2. job'[p].pc = pc /\ \A q \in Callers \ {p} : job'[q] = job[q]
    BY <1>1, <1>3, BecomesValue
  <2>3. check' = check
    BY <1>3 DEF rateVars
  <2>4. QED
    BY <1>2, <1>3, <2>1, <2>2, <2>3 DEF JobsChecked
\* A job that begins a check.
<1>4. ASSUME NEW p \in Callers, NEW b \in Buckets, NEW kind \in Kinds,
             NEW todo \in (SUBSET Calls) \cup (SUBSET Opps), NEW item \in Calls \cup {NoItem},
             Becomes(p, kind, "slot", todo, item), RateSelect(p, b)
      PROVE  JobsChecked'
  <2>1. JobsOK'
    BY <1>1, <1>4, BecomesType, ItemAssumption
  <2>2. job'[p].pc = "slot" /\ \A q \in Callers \ {p} : job'[q] = job[q]
    BY <1>1, <1>4, BecomesValue
  <2>3. check'[p].pc # "idle" /\ \A q \in Callers \ {p} : check'[q] = check[q]
    BY <1>1, <1>4, CheckSteps
  <2>4. QED
    BY <1>2, <2>1, <2>2, <2>3 DEF JobsChecked
\* A job that ends one.
<1>5. ASSUME NEW p \in Callers, NEW kind \in Kinds, NEW pc \in {"idle", "work"},
             NEW todo \in (SUBSET Calls) \cup (SUBSET Opps),
             NEW item \in Calls \cup Opps \cup {NoItem},
             item \in Opps => kind \in {"brief_scan", "brief"},
             Becomes(p, kind, pc, todo, item), RateEnd(p)
      PROVE  JobsChecked'
  <2>1. JobsOK'
    BY <1>1, <1>5, BecomesType
  <2>2. job'[p].pc = pc /\ \A q \in Callers \ {p} : job'[q] = job[q]
    BY <1>1, <1>5, BecomesValue
  <2>3. check'[p].pc = "idle" /\ \A q \in Callers \ {p} : check'[q] = check[q]
    BY <1>1, <1>5, CheckSteps
  <2>4. QED
    BY <1>2, <1>5, <2>1, <2>2, <2>3 DEF JobsChecked
<1> DEFINE Todo == (SUBSET Calls) \cup (SUBSET Opps)
<1>6. \A p \in Callers :
        /\ job[p].kind \in Kinds /\ job[p].todo \in Todo
        /\ job[p].item \in Calls \cup Opps \cup {NoItem}
        /\ \A x : job[p].todo \ {x} \in Todo
        /\ job[p].item \in Opps => job[p].kind \in {"brief_scan", "brief"}
  BY <1>1 DEF Job, JobsOK
<1>7. NoItem \notin Opps /\ (\A c \in Calls : c \notin Opps) /\ {} \in Todo
  BY ItemAssumption
<1>8. ASSUME NEW p \in Callers, NEW kind \in {"grader_poll", "batch_grade"},
             NEW rows \in SUBSET Calls, StartBatch(p, kind, rows) PROVE JobsChecked'
  <2>1. Becomes(p, kind, "rows", rows, NoItem) /\ job[p].pc # "slot"
    BY <1>8, StartBecomes DEF StartBatch, NoJob, Job_
  <2>2. QED
    BY <1>3, <1>7, <1>8, <2>1 DEF StartBatch, Kinds, Ticks
<1>9. ASSUME NEW p \in Callers, NEW c \in Calls, StartGrade(p, c) PROVE JobsChecked'
  <2>1. Becomes(p, "grade", "work", {}, c) /\ job[p].pc # "slot"
    BY <1>9, StartBecomes DEF StartGrade, NoJob, Job_
  <2>2. QED
    BY <1>3, <1>7, <1>9, <2>1 DEF StartGrade, Kinds
<1>10. ASSUME NEW p \in Callers, NEW opps \in SUBSET Opps, StartScan(p, opps) PROVE JobsChecked'
  <2>1. Becomes(p, "brief_scan", "rows", opps, NoItem) /\ job[p].pc # "slot"
    BY <1>10, StartBecomes DEF StartScan, NoJob, Job_
  <2>2. QED
    BY <1>3, <1>7, <1>10, <2>1 DEF StartScan, Kinds, Ticks
<1>11. ASSUME NEW p \in Callers, NEW o \in Opps, StartBrief(p, o) PROVE JobsChecked'
  <2>1. Becomes(p, "brief", "work", {}, o) /\ job[p].pc # "slot"
    BY <1>11, StartBecomes DEF StartBrief, NoJob, Job_
  <2>2. QED
    BY <1>3, <1>7, <1>11, <2>1 DEF StartBrief, Kinds
<1>12. ASSUME NEW p \in Callers, NEW kind \in {"sync_tick", "sync_check"}, StartSync(p, kind)
       PROVE  JobsChecked'
  <2>1. Becomes(p, kind, "slot", {}, NoItem) /\ RateSelect(p, SyncAlert)
    BY <1>12, StartBecomes DEF StartSync
  <2>2. QED
    BY <1>4, <1>7, <1>12, <2>1, BucketsUsed DEF Kinds, Ticks
<1>13. ASSUME NEW p \in Callers, Done(p) PROVE JobsChecked'
  <2>1. Becomes(p, "none", "idle", {}, NoItem) /\ job[p].pc # "slot"
    BY <1>1, <1>13, FinishBecomes DEF Done
  <2>2. QED
    BY <1>3, <1>7, <1>13, <2>1 DEF Done, Kinds
<1>14. ASSUME NEW p \in Callers, NEW c \in Calls, SkipGraded(p, c) PROVE JobsChecked'
  <2>1. Becomes(p, job[p].kind, "rows", job[p].todo \ {c}, NoItem) /\ job[p].pc # "slot"
    BY <1>1, <1>14, GoOnBecomes DEF SkipGraded
  <2>2. QED
    BY <1>3, <1>6, <1>7, <1>14, <2>1 DEF SkipGraded
<1>15. ASSUME NEW p \in Callers, NEW c \in Calls, AskSlot(p, c) PROVE JobsChecked'
  <2>1. Becomes(p, job[p].kind, "slot", job[p].todo, c) /\ RateSelect(p, Grader)
    BY <1>1, <1>15, GoOnBecomes DEF AskSlot
  <2>2. QED
    BY <1>4, <1>6, <1>7, <2>1, BucketsUsed
<1>16. ASSUME NEW p \in Callers, SlotWrite(p) PROVE JobsChecked'
  <2>1. job' = job /\ RateWrite(p)
    BY <1>16 DEF SlotWrite, salesVars
  <2>2. QED
    BY <1>1, <1>2, <2>1, CheckSteps DEF JobsChecked, JobsOK
<1>17. ASSUME NEW p \in Callers, SlotAnswer(p) PROVE JobsChecked'
  <2>1. RateEnd(p)
    BY <1>17 DEF SlotAnswer
  <2>2. \/ Becomes(p, job[p].kind, "work", job[p].todo, job[p].item)
        \/ Becomes(p, "none", "idle", {}, NoItem)
    BY <1>1, <1>17, GoOnBecomes, FinishBecomes DEF SlotAnswer
  <2>3. CASE Becomes(p, job[p].kind, "work", job[p].todo, job[p].item)
    BY <1>5, <1>6, <2>1, <2>3
  <2>4. CASE Becomes(p, "none", "idle", {}, NoItem)
    BY <1>5, <1>7, <2>1, <2>4 DEF Kinds
  <2>5. QED
    BY <2>2, <2>3, <2>4
<1>18. ASSUME NEW p \in Callers, Next_(p), job[p].pc = "work", UNCHANGED rateVars
       PROVE  JobsChecked'
  <2>1. \/ Becomes(p, job[p].kind, "rows", job[p].todo \ {job[p].item}, NoItem)
        \/ Becomes(p, "none", "idle", {}, NoItem)
    BY <1>1, <1>18, NextBecomes
  <2>2. CASE Becomes(p, job[p].kind, "rows", job[p].todo \ {job[p].item}, NoItem)
    BY <1>3, <1>6, <1>7, <1>18, <2>2
  <2>3. CASE Becomes(p, "none", "idle", {}, NoItem)
    BY <1>3, <1>7, <1>18, <2>3 DEF Kinds
  <2>4. QED
    BY <2>1, <2>2, <2>3
<1>19. ASSUME NEW p \in Callers,
              StoreGrade(p) \/ LeaveUngraded(p) \/ WriteBrief(p) \/ NoBrief(p)
       PROVE  JobsChecked'
  BY <1>18, <1>19 DEF StoreGrade, LeaveUngraded, WriteBrief, NoBrief
<1>20. ASSUME NEW p \in Callers, NEW o \in Opps, Candidate(p, o) PROVE JobsChecked'
  <2>1. job[p].kind = "brief_scan" /\ job[p].pc # "slot" /\ UNCHANGED rateVars
    BY <1>20 DEF Candidate
  <2>2. \/ Becomes(p, job[p].kind, "rows", job[p].todo \ {o}, NoItem)
        \/ Becomes(p, job[p].kind, "work", job[p].todo, o)
    BY <1>1, <1>20, GoOnBecomes DEF Candidate
  <2>3. CASE Becomes(p, job[p].kind, "rows", job[p].todo \ {o}, NoItem)
    BY <1>3, <1>6, <1>7, <2>1, <2>3
  <2>4. CASE Becomes(p, job[p].kind, "work", job[p].todo, o)
    BY <1>3, <1>6, <2>1, <2>4
  <2>5. QED
    BY <2>2, <2>3, <2>4
<1>21. ASSUME NEW p \in Callers, Crash(p) PROVE JobsChecked'
  <2>1. Becomes(p, "none", "idle", {}, NoItem) /\ RateEnd(p)
    BY <1>1, <1>21, FinishBecomes DEF Crash
  <2>2. QED
    BY <1>5, <1>7, <2>1 DEF Kinds
<1>22. CASE Leaderboard
  BY <1>1, <1>2, <1>22 DEF Leaderboard, rateVars, JobsChecked, JobsOK
<1>23. CASE Tick
  BY <1>1, <1>2, <1>23 DEF Tick, RateTick, salesVars, JobsChecked, JobsOK
<1>24. CASE UNCHANGED vars
  BY <1>1, <1>2, <1>24 DEF vars, rateVars, salesVars, JobsChecked, JobsOK
<1>25. QED
  BY <1>8, <1>9, <1>10, <1>11, <1>12, <1>13, <1>14, <1>15, <1>16, <1>17, <1>19, <1>20,
     <1>21, <1>22, <1>23, <1>24 DEF Next

\* Which steps write which table: all but four leave every table alone.
LEMMA TableSteps ==
  ASSUME [Next]_vars
  PROVE  \/ /\ UNCHANGED <<grades, briefs, board, stores>>
            /\ \/ UNCHANGED <<started, crashes>>
               \/ started < MaxJobs /\ started' = started + 1 /\ crashes' = crashes
               \/ crashes < MaxCrashes /\ crashes' = crashes + 1 /\ started' = started
         \/ \E p \in Callers : StoreGrade(p) \/ WriteBrief(p)
         \/ Leaderboard
<1> USE DEF StartBatch, StartGrade, StartScan, StartBrief, StartSync, Start
<1>1. ASSUME NEW p \in Callers, NEW kind, NEW rows, StartBatch(p, kind, rows)
      PROVE  /\ UNCHANGED <<grades, briefs, board, stores, crashes>>
             /\ started < MaxJobs /\ started' = started + 1
  BY <1>1
<1>2. ASSUME NEW p \in Callers, NEW c \in Calls, StartGrade(p, c)
      PROVE  /\ UNCHANGED <<grades, briefs, board, stores, crashes>>
             /\ started < MaxJobs /\ started' = started + 1
  BY <1>2
<1>3. ASSUME NEW p \in Callers, NEW opps, StartScan(p, opps)
      PROVE  /\ UNCHANGED <<grades, briefs, board, stores, crashes>>
             /\ started < MaxJobs /\ started' = started + 1
  BY <1>3
<1>4. ASSUME NEW p \in Callers, NEW o \in Opps, StartBrief(p, o)
      PROVE  /\ UNCHANGED <<grades, briefs, board, stores, crashes>>
             /\ started < MaxJobs /\ started' = started + 1
  BY <1>4
<1>5. ASSUME NEW p \in Callers, NEW kind, StartSync(p, kind)
      PROVE  /\ UNCHANGED <<grades, briefs, board, stores, crashes>>
             /\ started < MaxJobs /\ started' = started + 1
  BY <1>5
<1>6. ASSUME NEW p \in Callers, NEW c \in Calls, SkipGraded(p, c) \/ AskSlot(p, c)
      PROVE  UNCHANGED <<grades, briefs, board, stores, started, crashes>>
  BY <1>6 DEF SkipGraded, AskSlot
<1>7. ASSUME NEW p \in Callers, NEW o \in Opps, Candidate(p, o)
      PROVE  UNCHANGED <<grades, briefs, board, stores, started, crashes>>
  BY <1>7 DEF Candidate
<1>8. ASSUME NEW p \in Callers,
             SlotWrite(p) \/ SlotAnswer(p) \/ LeaveUngraded(p) \/ NoBrief(p) \/ Done(p)
      PROVE  UNCHANGED <<grades, briefs, board, stores, started, crashes>>
  BY <1>8 DEF SlotWrite, SlotAnswer, LeaveUngraded, NoBrief, Done, salesVars
<1>9. ASSUME NEW p \in Callers, Crash(p)
      PROVE  /\ UNCHANGED <<grades, briefs, board, stores, started>>
             /\ crashes < MaxCrashes /\ crashes' = crashes + 1
  BY <1>9 DEF Crash
<1>10. Tick \/ UNCHANGED vars => UNCHANGED <<grades, briefs, board, stores, started, crashes>>
  BY DEF Tick, vars, salesVars
<1> HIDE DEF StartBatch, StartGrade, StartScan, StartBrief, StartSync, Start
<1>11. QED
  BY <1>1, <1>2, <1>3, <1>4, <1>5, <1>6, <1>7, <1>8, <1>9, <1>10 DEF Next

\* The briefs are numbered by how many there are, so there are finitely many.
TypeInv == TypeOK /\ IsFiniteSet(briefs)

LEMMA InitTypeInv == Init => TypeInv
  BY InitType, FS_EmptySet DEF TypeInv, Init

LEMMA NextTypeInv == TypeInv /\ [Next]_vars => TypeInv'
<1> SUFFICES ASSUME TypeInv, [Next]_vars PROVE TypeInv'
  OBVIOUS
<1>1. JobsChecked' /\ RateTypeOK'
  BY NextJobsChecked, StepsAreRateSteps, RateNextType DEF TypeInv, TypeOK
<1>2. ASSUME IsFiniteSet(briefs)', grades' \subseteq Calls,
             briefs' \subseteq
               [no : Nat, opp : Opps, at : Windows, by : {"brief_scan", "brief"}],
             board' \subseteq [rep : Reps, counted : SUBSET Calls, graded : SUBSET Calls],
             stores' \in [Callers -> [Calls -> Nat]],
             started' \in 0 .. MaxJobs, crashes' \in 0 .. MaxCrashes
      PROVE  TypeInv'
  BY <1>1, <1>2 DEF TypeInv, TypeOK, JobsChecked, JobsOK
<1>3. CASE /\ UNCHANGED <<grades, briefs, board, stores>>
           /\ \/ UNCHANGED <<started, crashes>>
              \/ started < MaxJobs /\ started' = started + 1 /\ crashes' = crashes
              \/ crashes < MaxCrashes /\ crashes' = crashes + 1 /\ started' = started
  <2>1. started' \in 0 .. MaxJobs /\ crashes' \in 0 .. MaxCrashes
    BY <1>3, BoundAssumption DEF TypeInv, TypeOK
  <2>2. QED
    BY <1>2, <1>3, <2>1 DEF TypeInv, TypeOK
<1>4. ASSUME NEW p \in Callers, StoreGrade(p) PROVE TypeInv'
  <2>1. grades' \subseteq Calls
    BY <1>4 DEF StoreGrade, TypeInv, TypeOK
  <2>2. stores' \in [Callers -> [Calls -> Nat]]
    BY <1>4 DEF StoreGrade, TypeInv, TypeOK
  <2>3. QED
    BY <1>2, <1>4, <2>1, <2>2 DEF StoreGrade, TypeInv, TypeOK
<1>5. ASSUME NEW p \in Callers, WriteBrief(p) PROVE TypeInv'
  <2> DEFINE b == [no |-> Cardinality(briefs), opp |-> job[p].item,
                   at |-> clock, by |-> job[p].kind]
  <2>1. briefs' = briefs \cup {b}
    BY <1>5 DEF WriteBrief
  <2>2. Cardinality(briefs) \in Nat
    BY FS_CardinalityType DEF TypeInv
  <2>3. job[p].item \in Opps /\ job[p].kind \in {"brief_scan", "brief"} /\ clock \in Windows
    BY <1>5 DEF WriteBrief, TypeInv, TypeOK, RateTypeOK
  <2>4. b \in [no : Nat, opp : Opps, at : Windows, by : {"brief_scan", "brief"}]
    BY <2>2, <2>3
  <2> HIDE DEF b
  <2>5. IsFiniteSet(briefs)'
    BY <2>1, FS_AddElement DEF TypeInv
  <2>6. briefs' \subseteq [no : Nat, opp : Opps, at : Windows, by : {"brief_scan", "brief"}]
    BY <2>1, <2>4 DEF TypeInv, TypeOK
  <2>7. QED
    BY <1>2, <1>5, <2>5, <2>6 DEF WriteBrief, TypeInv, TypeOK
<1>6. CASE Leaderboard
  <2>1. PICK kept \in [{RepOf[c] : c \in grades} -> SUBSET grades] :
          board' = {[rep |-> rep, counted |-> kept[rep], graded |-> GradedOf(rep)] :
                      rep \in DOMAIN kept}
    BY <1>6 DEF Leaderboard
  <2>2. \A rep \in {RepOf[c] : c \in grades} :
          /\ rep \in Reps
          /\ kept[rep] \in SUBSET Calls /\ GradedOf(rep) \in SUBSET Calls
    BY <2>1, RepAssumption DEF GradedOf, TypeInv, TypeOK
  <2>3. board' \subseteq [rep : Reps, counted : SUBSET Calls, graded : SUBSET Calls]
    BY <2>1, <2>2
  <2>4. QED
    BY <1>2, <1>6, <2>3 DEF Leaderboard, TypeInv, TypeOK
<1>7. QED
  BY <1>3, <1>4, <1>5, <1>6, TableSteps

\* Every variable keeps its type, only waiting jobs are in a check, and only the
\* jobs that brief are at an opportunity.
THEOREM TypeCorrect == Spec => []TypeOK
<1>1. Spec => []TypeInv
  BY InitTypeInv, NextTypeInv, PTL DEF Spec
<1>2. TypeInv => TypeOK
  BY DEF TypeInv
<1>3. QED
  BY <1>1, <1>2, PTL

-----------------------------------------------------------------------------
(* How a job comes to a call or to an opportunity *)

\* A batch comes to a call that has no grade, a scan to an opportunity that has no
\* recent brief, and a scan begins when there is none.
ComesToWork(q) ==
  /\ job'[q].kind \in Batches /\ job'[q].pc \in {"slot", "work"} =>
       \/ /\ job[q].kind = job'[q].kind /\ job[q].item = job'[q].item
          /\ job[q].pc \in {"slot", "work"}
       \/ job'[q].item \notin grades
  /\ job'[q].kind = "brief_scan" /\ job'[q].pc = "work" =>
       job'[q] = job[q] \/ ~BriefRecently(job'[q].item)
  /\ job'[q].kind = "brief_scan" =>
       job[q].kind = "brief_scan" \/ \A r \in Callers : job[r].kind # "brief_scan"

OneMoves == \E p \in Callers : ComesToWork(p) /\ \A q \in Callers \ {p} : job'[q] = job[q]

LEMMA JobSteps == JobsOK /\ [Next]_vars => job' = job \/ OneMoves
<1> SUFFICES ASSUME JobsOK, [Next]_vars PROVE job' = job \/ OneMoves
  OBVIOUS
\* A job that waits for its next row, or ends.
<1>1. ASSUME NEW p \in Callers, NEW todo, NEW pc \in {"idle", "rows"},
             NEW kind \in {job[p].kind, "none"}, Becomes(p, kind, pc, todo, NoItem)
      PROVE  OneMoves
  BY <1>1, BecomesValue DEF OneMoves, ComesToWork
\* A job that starts, not as a scan and not at a slot of a batch.
<1>2. ASSUME NEW p \in Callers, NEW kind, NEW pc, NEW todo, NEW item,
             Becomes(p, kind, pc, todo, item), kind # "brief_scan",
             kind \in Batches => pc = "rows"
      PROVE  OneMoves
  BY <1>2, BecomesValue DEF OneMoves, ComesToWork
<1>3. ASSUME NEW p \in Callers, NEW kind \in {"grader_poll", "batch_grade"}, NEW rows,
             StartBatch(p, kind, rows)
      PROVE  OneMoves
  BY <1>2, <1>3, StartBecomes DEF StartBatch
<1>4. ASSUME NEW p \in Callers, NEW c \in Calls, StartGrade(p, c) PROVE OneMoves
  BY <1>2, <1>4, StartBecomes DEF StartGrade, Batches
<1>5. ASSUME NEW p \in Callers, NEW opps, StartScan(p, opps) PROVE OneMoves
  <2>1. /\ Becomes(p, "brief_scan", "rows", opps, NoItem)
        /\ \A q \in Callers : job[q].kind # "brief_scan"
    BY <1>5, StartBecomes DEF StartScan, Ticks
  <2>2. QED
    BY <2>1, BecomesValue DEF OneMoves, ComesToWork
<1>6. ASSUME NEW p \in Callers, NEW o \in Opps, StartBrief(p, o) PROVE OneMoves
  BY <1>2, <1>6, StartBecomes DEF StartBrief, Batches
<1>7. ASSUME NEW p \in Callers, NEW kind \in {"sync_tick", "sync_check"}, StartSync(p, kind)
      PROVE  OneMoves
  BY <1>2, <1>7, StartBecomes DEF StartSync, Batches
<1>8. ASSUME NEW p \in Callers, Done(p) \/ Crash(p) PROVE OneMoves
  BY <1>1, <1>8, FinishBecomes DEF Done, Crash
<1>9. ASSUME NEW p \in Callers, NEW c \in Calls, SkipGraded(p, c) PROVE OneMoves
  BY <1>1, <1>9, GoOnBecomes DEF SkipGraded
<1>10. ASSUME NEW p \in Callers, NEW c \in Calls, AskSlot(p, c) PROVE OneMoves
  <2>1. /\ Becomes(p, job[p].kind, "slot", job[p].todo, c)
        /\ c \notin grades /\ job[p].kind # "brief_scan"
    BY <1>10, GoOnBecomes DEF AskSlot, Batches
  <2>2. QED
    BY <2>1, BecomesValue DEF OneMoves, ComesToWork
<1>11. ASSUME NEW p \in Callers, SlotAnswer(p) PROVE OneMoves
  <2>1. job[p].pc = "slot"
    BY <1>11 DEF SlotAnswer
  <2>2. \/ Becomes(p, job[p].kind, "work", job[p].todo, job[p].item) /\ job[p].kind \in Batches
        \/ Becomes(p, "none", "idle", {}, NoItem)
    BY <1>11, GoOnBecomes, FinishBecomes DEF SlotAnswer
  <2>3. CASE Becomes(p, job[p].kind, "work", job[p].todo, job[p].item) /\ job[p].kind \in Batches
    <3>1. job[p].kind # "brief_scan"
      BY <2>3 DEF Batches
    <3>2. QED
      BY <2>1, <2>3, <3>1, BecomesValue DEF OneMoves, ComesToWork
  <2>4. CASE Becomes(p, "none", "idle", {}, NoItem)
    BY <1>1, <2>4
  <2>5. QED
    BY <2>2, <2>3, <2>4
<1>12. ASSUME NEW p \in Callers,
              StoreGrade(p) \/ LeaveUngraded(p) \/ WriteBrief(p) \/ NoBrief(p)
       PROVE  OneMoves
  <2>1. Next_(p)
    BY <1>12 DEF StoreGrade, LeaveUngraded, WriteBrief, NoBrief
  <2>2. QED
    BY <1>1, <2>1, NextBecomes
<1>13. ASSUME NEW p \in Callers, NEW o \in Opps, Candidate(p, o) PROVE OneMoves
  <2>1. job[p].kind = "brief_scan"
    BY <1>13 DEF Candidate
  <2>2. \/ Becomes(p, job[p].kind, "rows", job[p].todo \ {o}, NoItem)
        \/ Becomes(p, job[p].kind, "work", job[p].todo, o) /\ ~BriefRecently(o)
    BY <1>13, GoOnBecomes DEF Candidate
  <2>3. CASE Becomes(p, job[p].kind, "work", job[p].todo, o) /\ ~BriefRecently(o)
    <3>1. /\ job'[p].kind = "brief_scan" /\ job'[p].item = o
          /\ \A q \in Callers \ {p} : job'[q] = job[q]
      BY <2>1, <2>3, BecomesValue
    <3>2. job'[p].kind \notin Batches
      BY <3>1 DEF Batches
    <3>3. QED
      BY <2>1, <2>3, <3>1, <3>2 DEF OneMoves, ComesToWork
  <2>4. QED
    BY <1>1, <2>2, <2>3
<1>14. ASSUME NEW p \in Callers, SlotWrite(p) PROVE job' = job
  BY <1>14 DEF SlotWrite, salesVars
<1>15. Leaderboard \/ Tick \/ UNCHANGED vars => job' = job
  BY DEF Leaderboard, Tick, vars, salesVars
<1>16. QED
  BY <1>3, <1>4, <1>5, <1>6, <1>7, <1>8, <1>9, <1>10, <1>11, <1>12, <1>13, <1>14, <1>15 DEF Next

-----------------------------------------------------------------------------
(* A batch stores a grade once *)

\* What a process has stored is graded, and the call its batch is at is not one it
\* has stored.
Graded ==
  /\ \A p \in Callers, c \in Calls : stores[p][c] <= 1 /\ (stores[p][c] > 0 => c \in grades)
  /\ \A p \in Callers :
       job[p].kind \in Batches /\ job[p].pc \in {"slot", "work"} /\ job[p].item \in Calls =>
         stores[p][job[p].item] = 0

LEMMA InitGraded == Init => Graded
  BY DEF Init, Graded, NoJob, Job_

LEMMA NextGraded == TypeOK /\ Graded /\ [Next]_vars => Graded'
<1> SUFFICES ASSUME TypeOK, Graded, [Next]_vars PROVE Graded'
  OBVIOUS
<1>1. JobsOK /\ \A p \in Callers, c \in Calls : stores[p][c] \in Nat
  BY DEF JobsOK, TypeOK
<1>2. \A q \in Callers : job'[q] = job[q] \/ ComesToWork(q)
  BY <1>1, JobSteps DEF OneMoves
<1>3. CASE UNCHANGED <<grades, stores>>
  <2>1. ASSUME NEW q \in Callers, job'[q].kind \in Batches, job'[q].pc \in {"slot", "work"},
               job'[q].item \in Calls
        PROVE  stores'[q][job'[q].item] = 0
    <3>1. CASE job'[q] = job[q]
      BY <1>3, <2>1, <3>1 DEF Graded
    <3>2. CASE ComesToWork(q)
      <4>1. CASE /\ job[q].kind = job'[q].kind /\ job[q].item = job'[q].item
                 /\ job[q].pc \in {"slot", "work"}
        BY <1>3, <2>1, <4>1 DEF Graded
      <4>2. CASE job'[q].item \notin grades
        BY <1>1, <1>3, <2>1, <4>2 DEF Graded
      <4>3. QED
        BY <2>1, <3>2, <4>1, <4>2 DEF ComesToWork
    <3>3. QED
      BY <1>2, <3>1, <3>2
  <2>2. QED
    BY <1>3, <2>1 DEF Graded
<1>4. ASSUME NEW p \in Callers, StoreGrade(p) PROVE Graded'
  <2> DEFINE c == job[p].item
  <2>1. c \in Calls /\ grades' = grades \cup {c}
    BY <1>4 DEF StoreGrade
  <2>2. \A q \in Callers, d \in Calls :
          stores'[q][d] = IF q = p /\ d = c /\ job[p].kind \in Batches
                          THEN stores[q][d] + 1 ELSE stores[q][d]
    BY <1>4, <2>1 DEF StoreGrade, TypeOK
  <2>3. job[p].kind \in Batches => stores[p][c] = 0
    BY <1>4, <2>1 DEF StoreGrade, Graded
  <2>4. \A q \in Callers, d \in Calls :
          stores'[q][d] <= 1 /\ (stores'[q][d] > 0 => d \in grades')
    BY <1>1, <2>1, <2>2, <2>3 DEF Graded
  <2>5. Next_(p)
    BY <1>4 DEF StoreGrade
  <2>6. job'[p].pc \in {"rows", "idle"} /\ \A q \in Callers \ {p} : job'[q] = job[q]
    BY <1>1, <2>5, NextMoves
  <2>7. \A q \in Callers :
          job'[q].kind \in Batches /\ job'[q].pc \in {"slot", "work"} /\ job'[q].item \in Calls =>
            stores'[q][job'[q].item] = 0
    BY <2>2, <2>6 DEF Graded
  <2>8. QED
    BY <2>4, <2>7 DEF Graded
<1>5. ASSUME NEW p \in Callers, WriteBrief(p) PROVE UNCHANGED <<grades, stores>>
  BY <1>5 DEF WriteBrief
<1>6. Leaderboard => UNCHANGED <<grades, stores>>
  BY DEF Leaderboard
<1>7. QED
  BY <1>3, <1>4, <1>5, <1>6, TableSteps

\* However polls, batches and commands overlap and are killed, no process stores
\* the grade of a call from a batch twice.
THEOREM BatchesAreIdempotent == Spec => []GradedOncePerRunner
<1>1. TypeOK /\ Graded => GradedOncePerRunner
  BY DEF Graded, GradedOncePerRunner
<1>2. QED
  BY <1>1, TypeCorrect, InitGraded, NextGraded, PTL DEF Spec

-----------------------------------------------------------------------------
(* Scans brief an opportunity once a window *)

\* One scan runs at a time, and the opportunity it is at has no brief of a scan
\* from within the window; briefs are numbered in order and none is of the future.
Apart ==
  /\ IsFiniteSet(briefs)
  /\ \A b \in briefs : b.no < Cardinality(briefs) /\ b.at <= clock
  /\ \A p, q \in Callers :
       job[p].kind = "brief_scan" /\ job[q].kind = "brief_scan" => p = q
  /\ \A p \in Callers : job[p].kind = "brief_scan" /\ job[p].pc = "work" =>
       \A b \in briefs : b.by = "brief_scan" /\ b.opp = job[p].item =>
         b.at + BriefWindow < clock
  /\ ScanBriefsApart

LEMMA InitApart == Init => Apart
  BY FS_EmptySet DEF Init, Apart, NoJob, Job_, ScanBriefsApart

LEMMA NextApart == TypeOK /\ Apart /\ [Next]_vars => Apart'
<1> SUFFICES ASSUME TypeOK, Apart, [Next]_vars PROVE Apart'
  OBVIOUS
<1>1. JobsOK /\ clock \in Nat /\ clock' \in Nat /\ clock' >= clock
  <2>1. RateTypeOK /\ RateTypeOK'
    BY StepsAreRateSteps, RateNextType DEF TypeOK
  <2>2. clock' = clock \/ clock' = clock + 1
    BY StepsAreRateSteps DEF RateNext, RateSelect, RateWrite, RateEnd, RateTick, rateVars
  <2>3. QED
    BY <2>1, <2>2, ClockAssumption DEF TypeOK, JobsOK, RateTypeOK, Windows
<1>2. \A b \in briefs : b.at \in Nat /\ b.no \in Nat
  BY ClockAssumption DEF TypeOK, Windows
<1>3. job' = job \/ OneMoves
  BY <1>1, JobSteps
<1>4. \A p, q \in Callers :
        job'[p].kind = "brief_scan" /\ job'[q].kind = "brief_scan" => p = q
  <2>1. CASE job' = job
    BY <2>1 DEF Apart
  <2>2. CASE OneMoves
    BY <2>2 DEF Apart, OneMoves, ComesToWork
  <2>3. QED
    BY <1>3, <2>1, <2>2
<1>5. CASE UNCHANGED briefs
  <2>1. ASSUME NEW p \in Callers, job'[p].kind = "brief_scan", job'[p].pc = "work",
               NEW b \in briefs, b.by = "brief_scan", b.opp = job'[p].item
        PROVE  b.at + BriefWindow < clock'
    <3>1. CASE job'[p] = job[p]
      BY <1>1, <1>2, <2>1, <3>1, BoundAssumption DEF Apart
    <3>2. CASE ~BriefRecently(job'[p].item)
      BY <1>1, <1>2, <2>1, <3>2, BoundAssumption DEF BriefRecently
    <3>3. QED
      BY <1>3, <2>1, <3>1, <3>2 DEF OneMoves, ComesToWork
  <2>2. \A b \in briefs : b.no < Cardinality(briefs) /\ b.at <= clock'
    BY <1>1, <1>2 DEF Apart
  <2>3. QED
    BY <1>4, <1>5, <2>1, <2>2 DEF Apart, ScanBriefsApart
<1>6. ASSUME NEW p \in Callers, WriteBrief(p) PROVE Apart'
  <2> DEFINE new == [no |-> Cardinality(briefs), opp |-> job[p].item,
                     at |-> clock, by |-> job[p].kind]
  <2>1. briefs' = briefs \cup {new} /\ clock' = clock /\ job[p].pc = "work"
    BY <1>6 DEF WriteBrief, rateVars
  <2>2. Cardinality(briefs) \in Nat
    BY FS_CardinalityType DEF Apart
  <2>3. new \notin briefs
    BY <2>2 DEF Apart
  <2>4. IsFiniteSet(briefs') /\ Cardinality(briefs') = Cardinality(briefs) + 1
    BY <2>1, <2>3, FS_AddElement DEF Apart
  <2>5. \A b \in briefs' : b.no < Cardinality(briefs') /\ b.at <= clock'
    BY <1>1, <1>2, <2>1, <2>2, <2>4 DEF Apart
  <2>6. ScanBriefsApart'
    <3>1. ASSUME NEW b1 \in briefs', NEW b2 \in briefs', b1.opp = b2.opp, b1.no < b2.no,
                 b1.by = "brief_scan", b2.by = "brief_scan"
          PROVE  b2.at > b1.at + BriefWindow
      <4>1. CASE b1 \in briefs /\ b2 \in briefs
        BY <3>1, <4>1 DEF Apart, ScanBriefsApart
      <4>2. CASE b1 \in briefs /\ b2 = new
        BY <1>1, <1>2, <2>1, <3>1, <4>2, BoundAssumption DEF Apart
      <4>3. CASE b1 = new
        <5>1. b2.no <= Cardinality(briefs)
          BY <1>2, <2>1, <2>2 DEF Apart
        <5>2. b2.no \in Nat
          BY <1>2, <2>1, <2>2
        <5>3. QED
          BY <2>2, <3>1, <4>3, <5>1, <5>2
      <4>4. QED
        BY <2>1, <4>1, <4>2, <4>3
    <3>2. QED
      BY <3>1 DEF ScanBriefsApart
  <2>7. \A q \in Callers : job'[q].kind = "brief_scan" /\ job'[q].pc = "work" =>
          \A b \in briefs' : b.by = "brief_scan" /\ b.opp = job'[q].item =>
            b.at + BriefWindow < clock'
    <3>1. job'[p].pc \in {"rows", "idle"} /\ \A q \in Callers \ {p} : job'[q] = job[q]
      BY <1>1, <1>6, NextMoves DEF WriteBrief
    <3>2. ASSUME NEW q \in Callers, job'[q].kind = "brief_scan", job'[q].pc = "work",
                 NEW b \in briefs', b.by = "brief_scan", b.opp = job'[q].item
          PROVE  b.at + BriefWindow < clock'
      <4>1. q # p /\ job'[q] = job[q]
        BY <3>1, <3>2
      <4>2. b \in briefs
        BY <2>1, <3>2, <4>1 DEF Apart
      <4>3. QED
        BY <2>1, <3>2, <4>1, <4>2 DEF Apart
    <3>3. QED
      BY <3>2
  <2>8. QED
    BY <1>4, <2>4, <2>5, <2>6, <2>7 DEF Apart
<1>7. ASSUME NEW p \in Callers, StoreGrade(p) PROVE UNCHANGED briefs
  BY <1>7 DEF StoreGrade
<1>8. Leaderboard => UNCHANGED briefs
  BY DEF Leaderboard
<1>9. QED
  BY <1>5, <1>6, <1>7, <1>8, TableSteps

\* Two briefs of scans for one opportunity are further apart than the window,
\* for any number of commands that brief it in between and any crashes.
THEOREM ScansKeepApart == Spec => []ScanBriefsApart
<1>1. Apart => ScanBriefsApart
  BY DEF Apart
<1>2. QED
  BY <1>1, TypeCorrect, InitApart, NextApart, PTL DEF Spec
-----------------------------------------------------------------------------
(* Grades of calls and Friday's reports *)

Labels == {"pass_excellent", "pass_good", "fail_needs_work", "fail_major_gaps"}
Marks == {g \in [type : GradableTypes, pct : 200 .. 1000, label : Labels, missed : BOOLEAN,
                  at : Nat, by : Names \union {"nobody"}] :
            g.label = GradeLabel(g.pct, 1000)}

(* The Friday 17:00 that a grade waits for.                                *)
Friday(a) == IF PartOfWeek(a) = 3 THEN 3 * Week(a) + 2 ELSE 3 * Week(a) - 1

(* A call has a grade of its week or none, and nothing counted it before.  *)
CallTypes ==
    /\ gradeOf \in [Meetings -> Marks \union {NoGrade}]
    /\ \A c \in Meetings : HasGrade(c) => gradeOf[c].at \in 1 .. slot
    /\ slot \in 1 .. LastSlot /\ regraded \subseteq Meetings /\ idle \in BOOLEAN
    /\ boards \in [Meetings -> SUBSET (1 .. Week(LastSlot))]
    /\ cards \in [Meetings -> SUBSET (1 .. Week(LastSlot))]
    /\ \A c \in Meetings : ~ HasGrade(c) => boards[c] = {} /\ cards[c] = {}

(* A call graded once is on the cards of the first tick that ran after it. *)
CardsFollow ==
    ~ idle => \A c \in Meetings \ regraded : HasGrade(c) =>
        cards[c] = IF gradeOf[c].by # "nobody" /\ slot > Friday(gradeOf[c].at)
                   THEN {Week(Friday(gradeOf[c].at))} ELSE {}

CallsIInv == CallTypes /\ OneBoardPerGrading /\ CardsFollow

\* Three slots to a week, the first week from one.
LEMMA Weeks ==
  ASSUME NEW s \in Nat \ {0}
  PROVE  /\ Week(s) \in Nat \ {0} /\ PartOfWeek(s) \in 1 .. 3
         /\ s = 3 * Week(s) - 3 + PartOfWeek(s)
BY DEF Week, PartOfWeek

\* A later slot is of no earlier week.
LEMMA WeeksGrow ==
  ASSUME NEW s \in Nat \ {0}, NEW t \in Nat \ {0}, s =< t
  PROVE  Week(s) =< Week(t)
<1>1. Week(s) \in Nat /\ PartOfWeek(s) \in 1 .. 3 /\ s = 3 * Week(s) - 3 + PartOfWeek(s)
  BY Weeks
<1>2. Week(t) \in Nat /\ PartOfWeek(t) \in 1 .. 3 /\ t = 3 * Week(t) - 3 + PartOfWeek(t)
  BY Weeks
<1>3. QED
  BY <1>1, <1>2

\* The tick that a grade waits for is the first Friday 17:00 from then on.
LEMMA TickIsNext ==
  ASSUME NEW a \in Nat \ {0}
  PROVE  /\ Friday(a) \in Nat \ {0} /\ a =< Friday(a) /\ Friday(a) < a + 3
         /\ PartOfWeek(Friday(a)) = 2
         /\ \A s \in Nat \ {0} : (a =< s /\ PartOfWeek(s) = 2) => Friday(a) =< s
<1>1. /\ Week(a) \in Nat \ {0} /\ PartOfWeek(a) \in 1 .. 3 /\ a = 3 * Week(a) - 3 + PartOfWeek(a)
  BY Weeks
<1>2. Friday(a) \in Nat \ {0} /\ a =< Friday(a) /\ Friday(a) < a + 3
  BY <1>1 DEF Friday
<1>3. /\ Week(Friday(a)) \in Nat /\ PartOfWeek(Friday(a)) \in 1 .. 3
      /\ Friday(a) = 3 * Week(Friday(a)) - 3 + PartOfWeek(Friday(a))
  BY <1>2, Weeks
<1>4. PartOfWeek(Friday(a)) = 2
  BY <1>1, <1>3 DEF Friday
<1>5. ASSUME NEW s \in Nat \ {0}, a =< s, PartOfWeek(s) = 2 PROVE Friday(a) =< s
  <2>1. Week(s) \in Nat /\ s = 3 * Week(s) - 3 + 2
    BY <1>5, Weeks
  <2>2. QED
    BY <1>1, <1>5, <2>1 DEF Friday
<1>6. QED
  BY <1>2, <1>4, <1>5

\* A reply's score for either kind of section is one of the five.
LEMMA ScoresClamped ==
  ASSUME NEW r \in Replies
  PROVE  PlainScore(r) \in 1 .. 5 /\ CriticalScore(r) \in 1 .. 5
<1>1. /\ r.readable \in BOOLEAN /\ r.critical \in {Unread} \union 0 .. 6
      /\ r.plain \in {Unread} \union 0 .. 6
  BY GradesAssumption DEF Reply
<1>2. Clamp(r.critical) \in 1 .. 5 /\ Clamp(r.plain) \in 1 .. 5
  BY <1>1 DEF Clamp, Unread
<1>3. QED
  BY <1>2 DEF PlainScore, CriticalScore

\* A row's percentage stays in range and says what its label says.
LEMMA GradeIsMarked ==
  ASSUME NEW type \in GradableTypes, NEW r \in Replies, slot \in Nat,
         NEW by \in Names \union {"nobody"}
  PROVE  Grade(type, r, by) \in Marks /\ Grade(type, r, by).at = slot
<1> DEFINE p == PlainScore(r)
           k == CriticalScore(r)
           points == Weighted(type, r)
           max == MaxWeighted(type)
           pct == (1000 * points + max \div 2) \div max
           missed == r.readable /\ r.missed # {}
<1>1. p \in 1 .. 5 /\ k \in 1 .. 5
  BY ScoresClamped
<1>2. \/ max = 60 /\ points = 8 * k + 4 * p
      \/ max = 80 /\ points = 4 * k + 12 * p
      \/ max = 50 /\ points = 6 * k + 4 * p
  BY <1>1 DEF GradableTypes, MaxWeighted, Weighted, Rubric, FirstCall, SecondCall, FollowUp,
              SdrColdCall, Section
<1>3. /\ points \in Nat /\ max \in Nat \ {0} /\ max =< 5 * points /\ points =< max
      /\ max \in {60, 80, 50}
  <2> HIDE DEF points, max, p, k
  <2>1. QED
    BY <1>1, <1>2
<1> HIDE DEF points, max
<1>4. /\ pct \in 200 .. 1000
      /\ Reaches(points, max, 70) <=> Reaches(pct, 1000, 70)
      /\ Reaches(points, max, 50) <=> Reaches(pct, 1000, 50)
      /\ Reaches(points, max, 35) <=> Reaches(pct, 1000, 35)
  <2>1. CASE max = 60
    BY <1>3, <2>1 DEF Reaches
  <2>2. CASE max = 80
    BY <1>3, <2>2 DEF Reaches
  <2>3. CASE max = 50
    BY <1>3, <2>3 DEF Reaches
  <2>4. QED
    BY <1>3, <2>1, <2>2, <2>3
<1> HIDE DEF pct
<1>5. GradeLabel(points, max) = GradeLabel(pct, 1000) /\ GradeLabel(pct, 1000) \in Labels
  <2>1. GradeLabel(points, max) = GradeLabel(pct, 1000)
    BY <1>4 DEF GradeLabel
  <2>2. GradeLabel(pct, 1000) \in Labels
    BY DEF GradeLabel, Labels
  <2>3. QED
    BY <2>1, <2>2
<1>6. missed \in BOOLEAN
  OBVIOUS
<1>7. Grade(type, r, by) = [type |-> type, pct |-> pct, label |-> GradeLabel(points, max),
                            missed |-> missed, at |-> slot, by |-> by]
  BY DEF Grade, points, max, pct
<1> HIDE DEF missed
<1>8. QED
  BY <1>4, <1>5, <1>6, <1>7 DEF Marks

\* A mark is not the absence of one.
LEMMA NoGradeIsNoMark == NoGrade \notin Marks /\ NoGrade.at = 0
BY DEF NoGrade, Marks, GradableTypes

\* What a grade says of a call.
LEMMA GradedCall ==
  ASSUME CallTypes, NEW c \in Meetings
  PROVE  /\ HasGrade(c) <=> gradeOf[c] \in Marks
         /\ HasGrade(c) => gradeOf[c].at \in 1 .. slot
         /\ ~ HasGrade(c) => gradeOf[c].at = 0 /\ boards[c] = {} /\ cards[c] = {}
<1>1. gradeOf[c] \in Marks \union {NoGrade}
  BY DEF CallTypes
<1>2. QED
  BY <1>1, NoGradeIsNoMark DEF CallTypes, HasGrade

\* A tick of the clock keeps every grade's week in the past.
LEMMA GradesKept ==
  ASSUME CallTypes, gradeOf' = gradeOf, slot' \in slot .. LastSlot, regraded' = regraded,
         boards' \in [Meetings -> SUBSET (1 .. Week(LastSlot))],
         cards' \in [Meetings -> SUBSET (1 .. Week(LastSlot))], idle' \in BOOLEAN,
         \A c \in Meetings : ~ HasGrade(c) => boards'[c] = {} /\ cards'[c] = {}
  PROVE  CallTypes'
<1>1. slot \in Nat /\ LastSlot \in Nat /\ 1 =< slot /\ slot' \in Nat
  BY GradesAssumption DEF CallTypes
<1>2. slot' \in 1 .. LastSlot
  BY <1>1
<1>3. \A c \in Meetings : HasGrade(c)' <=> HasGrade(c)
  BY DEF HasGrade
<1>4. \A c \in Meetings : HasGrade(c) => gradeOf[c].at \in 1 .. slot'
  <2> SUFFICES ASSUME NEW c \in Meetings, HasGrade(c) PROVE gradeOf[c].at \in 1 .. slot'
    OBVIOUS
  <2>1. gradeOf[c].at \in 1 .. slot
    BY DEF CallTypes
  <2>2. QED
    BY <1>1, <2>1
<1>5. QED
  BY <1>2, <1>3, <1>4 DEF CallTypes

\* A report counts this week, which is among the weeks.
LEMMA NoteTypes ==
  ASSUME CallTypes, NEW history \in [Meetings -> SUBSET (1 .. Week(LastSlot))], NEW counted
  PROVE  /\ Note(history, counted) \in [Meetings -> SUBSET (1 .. Week(LastSlot))]
         /\ \A c \in Meetings : Note(history, counted)[c] =
                IF c \in counted THEN history[c] \union {Week(slot)} ELSE history[c]
<1>1. slot \in Nat \ {0} /\ LastSlot \in Nat \ {0} /\ slot =< LastSlot
  BY GradesAssumption DEF CallTypes
<1>2. Week(slot) \in Nat \ {0} /\ Week(LastSlot) \in Nat /\ Week(slot) =< Week(LastSlot)
  BY <1>1, Weeks, WeeksGrow
<1>3. Week(slot) \in 1 .. Week(LastSlot)
  BY <1>2
<1>4. QED
  BY <1>3 DEF Note

\* A tick moves a slot, so a call is past its tick if it was, or if this is it.
LEMMA PastTick ==
  ASSUME CallTypes, NEW c \in Meetings, HasGrade(c), slot' = slot + 1
  PROVE  /\ Friday(gradeOf[c].at) \in Nat /\ slot \in Nat
         /\ slot' > Friday(gradeOf[c].at)
              <=> (slot > Friday(gradeOf[c].at) \/ slot = Friday(gradeOf[c].at))
         /\ slot = Friday(gradeOf[c].at) => PartOfWeek(slot) = 2
<1>1. gradeOf[c].at \in Nat \ {0} /\ slot \in Nat
  BY DEF CallTypes
<1>2. Friday(gradeOf[c].at) \in Nat /\ PartOfWeek(Friday(gradeOf[c].at)) = 2
  BY <1>1, TickIsNext
<1>3. QED
  BY <1>1, <1>2

\* Nothing is graded at first.
LEMMA CallsInitially == CallInit => CallsIInv
<1> SUFFICES ASSUME CallInit PROVE CallsIInv
  OBVIOUS
<1> USE DEF CallInit
<1>1. \A c \in Meetings : gradeOf[c] = NoGrade /\ ~ HasGrade(c)
  BY DEF HasGrade
<1>2. CallTypes
  <2>1. gradeOf \in [Meetings -> Marks \union {NoGrade}] /\ slot \in 1 .. LastSlot
    BY GradesAssumption
  <2>2. /\ boards \in [Meetings -> SUBSET (1 .. Week(LastSlot))]
        /\ cards \in [Meetings -> SUBSET (1 .. Week(LastSlot))]
        /\ \A c \in Meetings : boards[c] = {} /\ cards[c] = {}
    OBVIOUS
  <2>3. regraded \subseteq Meetings /\ idle \in BOOLEAN
    OBVIOUS
  <2>4. QED
    BY <1>1, <2>1, <2>2, <2>3 DEF CallTypes
<1>3. OneBoardPerGrading
  BY DEF OneBoardPerGrading
<1>4. CardsFollow
  BY <1>1 DEF CardsFollow
<1>5. QED
  BY <1>2, <1>3, <1>4 DEF CallsIInv

\* A grade is of this slot, whose reports are yet to come; a second one puts
\* its call beyond what is promised.
LEMMA GradeCallKeeps ==
  ASSUME CallsIInv, NEW c \in Meetings, NEW t \in Transcripts, NEW r \in Replies,
         GradeCall(c, t, r)
  PROVE  CallsIInv'
<1> USE DEF CallsIInv
<1> DEFINE g == Grade(Classify(t), r, t.by)
<1>1. /\ gradeOf' = [gradeOf EXCEPT ![c] = g]
      /\ regraded' = IF HasGrade(c) THEN regraded \union {c} ELSE regraded
      /\ slot' = slot /\ boards' = boards /\ cards' = cards /\ idle' = idle
  BY DEF GradeCall
<1>2. slot \in Nat \ {0} /\ Classify(t) \in GradableTypes /\ t.by \in Names \union {"nobody"}
  BY GradesAssumption DEF CallTypes, GradeCall, IsGradable, Transcript
<1>3. g \in Marks /\ g.at = slot
  BY <1>2, GradeIsMarked
<1> HIDE DEF g
<1>4. gradeOf' \in [Meetings -> Marks \union {NoGrade}]
  BY <1>1, <1>3 DEF CallTypes
<1>5. gradeOf'[c] = g /\ \A d \in Meetings : d # c => gradeOf'[d] = gradeOf[d]
  BY <1>1 DEF CallTypes
<1>6. HasGrade(c)' /\ \A d \in Meetings : d # c => (HasGrade(d)' <=> HasGrade(d))
  BY <1>3, <1>5, NoGradeIsNoMark DEF HasGrade
<1>7. \A d \in Meetings : HasGrade(d)' => gradeOf'[d].at \in 1 .. slot'
  <2> SUFFICES ASSUME NEW d \in Meetings, HasGrade(d)' PROVE gradeOf'[d].at \in 1 .. slot
    BY <1>1
  <2>1. CASE d = c
    BY <1>2, <1>3, <1>5, <2>1
  <2>2. CASE d # c
    BY <1>5, <1>6, <2>2 DEF CallTypes
  <2>3. QED
    BY <2>1, <2>2
<1>8. \A d \in Meetings : ~ HasGrade(d)' => boards[d] = {} /\ cards[d] = {}
  BY <1>6 DEF CallTypes
<1>9. /\ regraded' \subseteq Meetings /\ regraded \subseteq regraded'
      /\ (c \notin regraded' => ~ HasGrade(c))
  BY <1>1 DEF CallTypes
<1>10. CallTypes'
  BY <1>1, <1>4, <1>7, <1>8, <1>9 DEF CallTypes
<1>11. OneBoardPerGrading'
  <2> SUFFICES ASSUME NEW d \in Meetings, d \notin regraded'
               PROVE  boards[d] \subseteq {Week(gradeOf'[d].at)}
    BY <1>1 DEF OneBoardPerGrading
  <2>1. CASE d = c
    BY <1>9, <2>1, GradedCall
  <2>2. CASE d # c
    BY <1>5, <1>9, <2>2 DEF OneBoardPerGrading
  <2>3. QED
    BY <2>1, <2>2
<1>12. CardsFollow'
  <2> SUFFICES ASSUME ~ idle, NEW d \in Meetings \ regraded', HasGrade(d)'
               PROVE  cards[d] = IF gradeOf'[d].by # "nobody" /\ slot > Friday(gradeOf'[d].at)
                                 THEN {Week(Friday(gradeOf'[d].at))} ELSE {}
    BY <1>1 DEF CardsFollow
  <2>1. CASE d = c
    <3>1. cards[d] = {} /\ gradeOf'[d].at = slot
      BY <1>3, <1>5, <1>9, <2>1, GradedCall
    <3>2. slot \in Nat /\ Friday(slot) \in Nat /\ slot =< Friday(slot)
      BY <1>2, TickIsNext
    <3>3. ~ (slot > Friday(slot))
      BY <3>2
    <3>4. QED
      BY <3>1, <3>3
  <2>2. CASE d # c
    BY <1>5, <1>6, <1>9, <2>2 DEF CardsFollow
  <2>3. QED
    BY <2>1, <2>2
<1>13. QED
  BY <1>10, <1>11, <1>12

\* Friday 16:00: a call on this week's board was graded this week.
LEMMA LeaderboardKeeps == ASSUME CallsIInv, LeaderboardWeekly PROVE CallsIInv'
<1> USE DEF CallsIInv
<1>1. /\ slot < LastSlot /\ PartOfWeek(slot) = 1 /\ slot' = slot + 1
      /\ gradeOf' = gradeOf /\ cards' = cards /\ regraded' = regraded /\ idle' = idle
  BY DEF LeaderboardWeekly
<1>0. PICK name \in Names : boards' = Note(boards, OnBoard(Week(slot), name))
  BY DEF LeaderboardWeekly
<1>2. /\ boards' \in [Meetings -> SUBSET (1 .. Week(LastSlot))]
      /\ \A c \in Meetings : boards'[c] =
            IF c \in OnBoard(Week(slot), name) THEN boards[c] \union {Week(slot)} ELSE boards[c]
  <2> DEFINE counted == OnBoard(Week(slot), name)
  <2>1. boards \in [Meetings -> SUBSET (1 .. Week(LastSlot))]
    BY DEF CallTypes
  <2>2. boards' = Note(boards, counted)
    BY <1>0
  <2> HIDE DEF counted
  <2>3. /\ Note(boards, counted) \in [Meetings -> SUBSET (1 .. Week(LastSlot))]
        /\ \A c \in Meetings : Note(boards, counted)[c] =
              IF c \in counted THEN boards[c] \union {Week(slot)} ELSE boards[c]
    BY <2>1, NoteTypes
  <2>4. QED
    BY <2>2, <2>3 DEF counted
<1>3. slot' \in slot .. LastSlot
  BY <1>1, GradesAssumption DEF CallTypes
<1>4. \A c \in Meetings : ~ HasGrade(c) => boards'[c] = {} /\ cards'[c] = {}
  BY <1>1, <1>2 DEF CallTypes, OnBoard
<1>5. CallTypes'
  BY <1>1, <1>2, <1>3, <1>4, GradesKept DEF CallTypes
<1>6. OneBoardPerGrading'
  BY <1>1, <1>2 DEF OneBoardPerGrading, OnBoard
<1>7. CardsFollow'
  <2> SUFFICES ASSUME ~ idle, NEW c \in Meetings \ regraded, HasGrade(c)
               PROVE  cards[c] = IF gradeOf[c].by # "nobody" /\ slot' > Friday(gradeOf[c].at)
                                 THEN {Week(Friday(gradeOf[c].at))} ELSE {}
    BY <1>1 DEF CardsFollow, HasGrade
  <2>1. slot' > Friday(gradeOf[c].at) <=> slot > Friday(gradeOf[c].at)
    BY <1>1, PastTick
  <2>2. QED
    BY <2>1 DEF CardsFollow
<1>8. QED
  BY <1>5, <1>6, <1>7

\* Friday 17:00: the last seven days are those of the grades that wait for it.
LEMMA ScorecardsKeep == ASSUME CallsIInv, ScorecardsWeekly PROVE CallsIInv'
<1> USE DEF CallsIInv
<1>1. /\ slot < LastSlot /\ PartOfWeek(slot) = 2 /\ slot' = slot + 1
      /\ cards' = Note(cards, OnCards(slot))
      /\ gradeOf' = gradeOf /\ boards' = boards /\ regraded' = regraded /\ idle' = idle
  BY DEF ScorecardsWeekly
<1>2. /\ cards' \in [Meetings -> SUBSET (1 .. Week(LastSlot))]
      /\ \A c \in Meetings : cards'[c] =
            IF c \in OnCards(slot) THEN cards[c] \union {Week(slot)} ELSE cards[c]
  <2> DEFINE counted == OnCards(slot)
  <2>1. cards \in [Meetings -> SUBSET (1 .. Week(LastSlot))]
    BY DEF CallTypes
  <2>2. cards' = Note(cards, counted)
    BY <1>1
  <2> HIDE DEF counted
  <2>3. /\ Note(cards, counted) \in [Meetings -> SUBSET (1 .. Week(LastSlot))]
        /\ \A c \in Meetings : Note(cards, counted)[c] =
              IF c \in counted THEN cards[c] \union {Week(slot)} ELSE cards[c]
    BY <2>1, NoteTypes
  <2>4. QED
    BY <2>2, <2>3 DEF counted
<1>3. slot' \in slot .. LastSlot
  BY <1>1, GradesAssumption DEF CallTypes
<1>4. \A c \in Meetings : ~ HasGrade(c) => boards'[c] = {} /\ cards'[c] = {}
  BY <1>1, <1>2 DEF CallTypes, OnCards
<1>5. CallTypes'
  BY <1>1, <1>2, <1>3, <1>4, GradesKept DEF CallTypes
<1>6. OneBoardPerGrading'
  BY <1>1 DEF OneBoardPerGrading
<1>7. CardsFollow'
  <2> SUFFICES ASSUME ~ idle, NEW c \in Meetings \ regraded, HasGrade(c)
               PROVE  cards'[c] = IF gradeOf[c].by # "nobody" /\ slot' > Friday(gradeOf[c].at)
                                  THEN {Week(Friday(gradeOf[c].at))} ELSE {}
    BY <1>1 DEF CardsFollow, HasGrade
  <2> DEFINE a == gradeOf[c].at
             f == Friday(gradeOf[c].at)
  <2>1. a \in Nat \ {0} /\ a =< slot /\ slot \in Nat \ {0}
    BY DEF CallTypes
  <2>2. /\ f \in Nat \ {0} /\ a =< f /\ f < a + 3 /\ PartOfWeek(f) = 2 /\ f =< slot
    BY <1>1, <2>1, TickIsNext
  <2>3. c \in OnCards(slot) <=> (gradeOf[c].by # "nobody" /\ a > slot - 3)
    BY DEF OnCards
  <2>4. cards[c] = IF gradeOf[c].by # "nobody" /\ slot > f THEN {Week(f)} ELSE {}
    BY DEF CardsFollow
  <2>0. CASE gradeOf[c].by = "nobody"
    BY <1>2, <2>0, <2>3, <2>4
  <2> HIDE DEF a, f
  <2>5. slot' > f
    BY <1>1, <2>1, <2>2
  <2>6. CASE gradeOf[c].by # "nobody" /\ slot = f
    <3>1. c \in OnCards(slot)
      BY <2>1, <2>2, <2>3, <2>6
    <3>2. cards[c] = {}
      BY <2>1, <2>4, <2>6
    <3>3. cards'[c] = {Week(f)}
      BY <1>2, <2>6, <3>1, <3>2
    <3>4. QED
      BY <2>5, <2>6, <3>3 DEF f
  <2>7. CASE gradeOf[c].by # "nobody" /\ slot # f
    <3>1. slot > f
      BY <2>1, <2>2, <2>7
    <3>2. /\ Week(slot) \in Nat /\ slot = 3 * Week(slot) - 1
          /\ Week(f) \in Nat /\ f = 3 * Week(f) - 1
      BY <1>1, <2>1, <2>2, Weeks
    <3>3. slot >= f + 3
      BY <3>1, <3>2
    <3>4. c \notin OnCards(slot)
      BY <2>1, <2>2, <2>3, <3>3
    <3>5. QED
      BY <1>2, <2>4, <2>5, <2>7, <3>1, <3>4 DEF f
  <2>8. QED
    BY <2>0, <2>6, <2>7
<1>8. QED
  BY <1>5, <1>6, <1>7

\* A tick that does not run is excused; a week that ends has had its tick.
LEMMA ClockKeeps == ASSUME CallsIInv, SkipTick \/ EndWeek PROVE CallsIInv'
<1> USE DEF CallsIInv
<1>1. /\ slot < LastSlot /\ slot' = slot + 1 /\ (PartOfWeek(slot) = 3 \/ idle')
      /\ gradeOf' = gradeOf /\ boards' = boards /\ cards' = cards /\ regraded' = regraded
      /\ idle' \in BOOLEAN /\ (~ idle' => ~ idle)
  BY DEF SkipTick, EndWeek, CallTypes
<1>2. slot' \in slot .. LastSlot
  BY <1>1, GradesAssumption DEF CallTypes
<1>3. CallTypes'
  BY <1>1, <1>2, GradesKept DEF CallTypes
<1>4. OneBoardPerGrading'
  BY <1>1 DEF OneBoardPerGrading
<1>5. CardsFollow'
  <2> SUFFICES ASSUME ~ idle, PartOfWeek(slot) = 3, NEW c \in Meetings \ regraded, HasGrade(c)
               PROVE  cards[c] = IF gradeOf[c].by # "nobody" /\ slot' > Friday(gradeOf[c].at)
                                 THEN {Week(Friday(gradeOf[c].at))} ELSE {}
    BY <1>1 DEF CardsFollow, HasGrade
  <2>1. slot' > Friday(gradeOf[c].at) <=> slot > Friday(gradeOf[c].at)
    BY <1>1, PastTick
  <2>2. QED
    BY <2>1 DEF CardsFollow
<1>6. QED
  BY <1>3, <1>4, <1>5

\* Either nothing happens, or one of these.
LEMMA CallStep == CallsIInv /\ [CallNext]_callVars => CallsIInv'
<1> SUFFICES ASSUME CallsIInv, [CallNext]_callVars PROVE CallsIInv'
  OBVIOUS
<1>1. ASSUME NEW c \in Meetings, NEW t \in Transcripts, NEW r \in Replies, GradeCall(c, t, r)
      PROVE  CallsIInv'
  BY <1>1, GradeCallKeeps
<1>2. CASE LeaderboardWeekly
  BY <1>2, LeaderboardKeeps
<1>3. CASE ScorecardsWeekly
  BY <1>3, ScorecardsKeep
<1>4. CASE SkipTick \/ EndWeek
  BY <1>4, ClockKeeps
<1>5. CASE UNCHANGED callVars
  BY <1>5 DEF callVars, CallsIInv, CallTypes, OneBoardPerGrading, CardsFollow, HasGrade
<1>6. QED
  BY <1>1, <1>2, <1>3, <1>4, <1>5 DEF CallNext

\* The marks say what the labels say, and a card for each tick is one card.
LEMMA CallsIInvImplies == CallsIInv => CallsInv
<1> SUFFICES ASSUME CallsIInv PROVE CallsInv
  OBVIOUS
<1> USE DEF CallsIInv
<1>1. \A c \in Meetings : HasGrade(c) => gradeOf[c] \in Marks /\ gradeOf[c].at \in 1 .. slot
  BY GradedCall
<1>2. CallTypeOK
  BY <1>1 DEF CallTypeOK, CallTypes, Marks, IsGradable
<1>3. PercentageTellsTheLabel /\ MarksAreBounded
  BY <1>1 DEF PercentageTellsTheLabel, MarksAreBounded, Marks
<1>4. CardsMissNothing
  <2> SUFFICES ASSUME ~ idle, NEW c \in Meetings \ regraded
               PROVE  /\ Cardinality(cards[c]) =< 1
                      /\ (/\ HasGrade(c) /\ gradeOf[c].by # "nobody"
                          /\ \E s \in gradeOf[c].at .. slot - 1 : PartOfWeek(s) = 2)
                            => cards[c] # {}
                      /\ gradeOf[c].by = "nobody" => cards[c] = {}
    BY DEF CardsMissNothing
  <2>1. cards[c] = {} \/ \E w : cards[c] = {w}
    BY GradedCall DEF CardsFollow
  <2>2. Cardinality(cards[c]) =< 1
    <3>1. CASE cards[c] = {}
      BY <3>1, FS_EmptySet
    <3>2. ASSUME NEW w, cards[c] = {w} PROVE Cardinality(cards[c]) =< 1
      <4>1. Cardinality({w}) = 1
        BY FS_Singleton
      <4>2. Cardinality(cards[c]) = 1
        BY <3>2, <4>1
      <4>3. QED
        BY <4>2
    <3>3. QED
      BY <2>1, <3>1, <3>2
  <2>5. ASSUME gradeOf[c].by = "nobody" PROVE cards[c] = {}
    BY <2>5, GradedCall DEF CardsFollow
  <2>3. ASSUME HasGrade(c), gradeOf[c].by # "nobody",
               NEW s \in gradeOf[c].at .. slot - 1, PartOfWeek(s) = 2
        PROVE  cards[c] # {}
    <3>1. gradeOf[c].at \in Nat \ {0} /\ slot \in Nat
      BY <2>3 DEF CallTypes
    <3>2. s \in Nat \ {0} /\ gradeOf[c].at =< s /\ s < slot
      BY <3>1
    <3>3. Friday(gradeOf[c].at) \in Nat /\ Friday(gradeOf[c].at) =< s
      BY <2>3, <3>1, <3>2, TickIsNext
    <3>4. slot > Friday(gradeOf[c].at)
      BY <3>1, <3>2, <3>3
    <3>5. QED
      BY <2>3, <3>4 DEF CardsFollow
  <2>4. QED
    BY <2>2, <2>3, <2>5
<1>5. QED
  BY <1>2, <1>3, <1>4 DEF CallsInv

(* Grades and their reports: a rounded percentage tells the label that was *)
(* computed before rounding (compute_weighted_score), no mark leaves its   *)
(* range, a call graded once is on its own week's board or none, and while *)
(* Friday's ticks run on one week's scorecards, that of the first Friday   *)
(* 17:00 after it, if it has a rep.                                        *)
THEOREM CallsHold == CallSpec => []CallsInv
<1>1. CallInit => CallsIInv
  BY CallsInitially
<1>2. CallsIInv /\ [CallNext]_callVars => CallsIInv'
  BY CallStep
<1>3. CallsIInv => CallsInv
  BY CallsIInvImplies
<1>4. QED
  BY <1>1, <1>2, <1>3, PTL DEF CallSpec

-----------------------------------------------------------------------------
(* The sweeps over open deals *)

Deals == [stage : WatchStages, amount : Prices, close : Dates, touched : Nat, step : BOOLEAN,
          roles : Nat]
Changes == [field : {"amount", "close"}, old : Nat, new : Nat, on : Nat]

CloseMoves == {i \in DOMAIN moves : moves[i].field = "close"}
SinceMove(k) == {i \in CloseMoves : i >= k}

(* The history of the deal, and what the two sweeps of today left.         *)
WatchTypes ==
    /\ watched \in Deals /\ watched.touched =< date
    /\ moves \in Seq(Changes) /\ Len(moves) =< MaxMoves
    /\ champion \in Nat /\ champion =< date /\ mention \in Nat /\ mention =< date
    /\ date \in Nat \ {0}
    /\ sweep.on \in {0, date} /\ sweep.errors \subseteq Raising
    /\ hygiene.on \in {0, date} /\ (hygiene.reported => hygiene.on = date)

(* The history is in the order of its days.                                *)
InOrder ==
    /\ \A i \in DOMAIN moves : moves[i].on =< date
    /\ \A i, j \in DOMAIN moves : i =< j => moves[i].on =< moves[j].on

(* Where no move since one of the close date was as long as the threshold, *)
(* the date has slipped by less than the threshold for each of them.       *)
SlipsAddUp ==
    \A k \in CloseMoves :
        (\A i \in SinceMove(k) : moves[i].new - moves[i].old < PushAt) =>
            watched.close - moves[k].old < PushAt * Cardinality(SinceMove(k))

WatchIInv == /\ WatchTypes /\ InOrder /\ SlipsAddUp
             /\ OthersAreStillTold /\ CutOffOnlyHides /\ QuietDealIsReported

\* What the bounds on days and prices are.
LEMMA WatchConstants ==
  /\ WatchWindow \in Nat /\ StaleDays \in Nat /\ PushAt \in Nat \ {0} /\ BigPush \in Nat
  /\ BigPush >= PushAt /\ Prices \subseteq Nat /\ Dates \subseteq Nat /\ MaxMoves \in Nat
BY WatchAssumption

\* The fields of a move of the history.
LEMMA MoveTypes ==
  ASSUME moves \in Seq(Changes)
  PROVE  \A i \in DOMAIN moves : /\ moves[i] \in Changes /\ moves[i].old \in Nat
                                 /\ moves[i].new \in Nat /\ moves[i].on \in Nat
<1> SUFFICES ASSUME NEW i \in DOMAIN moves
             PROVE  /\ moves[i] \in Changes /\ moves[i].old \in Nat
                    /\ moves[i].new \in Nat /\ moves[i].on \in Nat
  OBVIOUS
<1>1. moves[i] \in Changes
  OBVIOUS
<1>2. QED
  BY <1>1 DEF Changes

\* The moves of the close date are finitely many places of the history.
LEMMA MovesAreFinite ==
  ASSUME moves \in Seq(Changes), NEW S, S \subseteq DOMAIN moves
  PROVE  IsFiniteSet(S) /\ Cardinality(S) \in Nat /\ S \subseteq 1 .. Len(moves)
<1>1. DOMAIN moves = 1 .. Len(moves) /\ Len(moves) \in Nat
  OBVIOUS
<1>2. IsFiniteSet(1 .. Len(moves))
  BY <1>1, FS_Interval
<1>3. QED
  BY <1>1, <1>2, FS_Subset, FS_CardinalityType

\* Of some places one is the first.
LEMMA FirstPlace ==
  ASSUME NEW S, S \subseteq Nat, S # {}
  PROVE  Min(S) \in S /\ \A y \in S : Min(S) =< y
<1>1. PICK x \in S : \A y \in S : ~ (<<y, x>> \in OpToRel(<, Nat))
  BY NatLessThanWellFounded, WFMin
<1>2. \A y \in S : x =< y
  <2> SUFFICES ASSUME NEW y \in S PROVE x =< y
    OBVIOUS
  <2>1. x \in Nat /\ y \in Nat
    OBVIOUS
  <2>2. ~ (y < x)
    BY <1>1, <2>1 DEF OpToRel
  <2>3. QED
    BY <2>1, <2>2
<1>3. QED
  BY <1>1, <1>2 DEF Min

\* A change is added at the end of the history.
LEMMA HistoryGrows ==
  ASSUME moves \in Seq(Changes), NEW m \in Changes, moves' = Append(moves, m)
  PROVE  /\ moves' \in Seq(Changes) /\ Len(moves) \in Nat /\ Len(moves') = Len(moves) + 1
         /\ DOMAIN moves = 1 .. Len(moves) /\ DOMAIN moves' = 1 .. Len(moves) + 1
         /\ \A i \in DOMAIN moves : moves'[i] = moves[i]
         /\ moves'[Len(moves) + 1] = m
OBVIOUS

\* A step that leaves the history and the close date alone.
LEMMA HistoryKept ==
  ASSUME WatchIInv, moves' = moves, watched'.close = watched.close, date' \in Nat, date =< date'
  PROVE  InOrder' /\ SlipsAddUp'
<1> USE DEF WatchIInv
<1>1. \A i \in DOMAIN moves : moves[i].on \in Nat
  BY MoveTypes DEF WatchTypes
<1>2. InOrder'
  BY <1>1 DEF InOrder, WatchTypes
<1>3. CloseMoves' = CloseMoves /\ \A k : SinceMove(k)' = SinceMove(k)
  BY DEF CloseMoves, SinceMove
<1>4. SlipsAddUp'
  BY <1>3 DEF SlipsAddUp
<1>5. QED
  BY <1>2, <1>4

\* At first there is no history.
LEMMA WatchInitially == WatchInit => WatchIInv
<1> SUFFICES ASSUME WatchInit PROVE WatchIInv
  OBVIOUS
<1> USE DEF WatchInit
<1>1. watched \in Deals /\ watched.touched =< date
  <2>1. {"Meeting"} \subseteq WatchStages /\ {Never, 1} \subseteq Nat /\ {1} \subseteq Nat
    BY DEF WatchStages, WatchedStages, Never
  <2>2. watched \in Deals
    BY <2>1, WatchConstants DEF Deals
  <2>3. watched.touched \in {Never, 1}
    OBVIOUS
  <2>4. QED
    BY <2>2, <2>3 DEF Never
<1>2. /\ sweep.on = 0 /\ sweep.errors = {} /\ hygiene.on = 0 /\ hygiene.reported = FALSE
      /\ sweep.signals = {}
  BY DEF NoSweep, NoHygiene
<1>3. moves \in Seq(Changes) /\ Len(moves) = 0 /\ DOMAIN moves = {}
  OBVIOUS
<1>4. WatchTypes
  BY <1>1, <1>2, <1>3, WatchConstants DEF WatchTypes
<1>5. InOrder /\ SlipsAddUp
  BY <1>3 DEF InOrder, SlipsAddUp, CloseMoves
<1>6. OthersAreStillTold /\ CutOffOnlyHides /\ QuietDealIsReported
  BY <1>2 DEF OthersAreStillTold, CutOffOnlyHides, QuietDealIsReported
<1>7. QED
  BY <1>4, <1>5, <1>6 DEF WatchIInv

\* A change of the amount: the moves of the close date are the same.
LEMMA RepriceKeeps == ASSUME WatchIInv, NEW p \in Prices, Reprice(p) PROVE WatchIInv'
<1> USE DEF WatchIInv
<1> DEFINE m == [field |-> "amount", old |-> watched.amount, new |-> p, on |-> date]
<1>1. /\ Len(moves) < MaxMoves /\ watched' = [watched EXCEPT !.amount = p]
      /\ moves' = Append(moves, m)
      /\ champion' = champion /\ mention' = mention /\ date' = date /\ sweep' = sweep
      /\ hygiene' = hygiene
  BY DEF Reprice, MoveField
<1>2. watched \in Deals /\ date \in Nat \ {0} /\ moves \in Seq(Changes)
  BY DEF WatchTypes
<1>3. /\ watched' \in Deals /\ watched'.touched = watched.touched /\ watched'.close = watched.close
  BY <1>1, <1>2 DEF Deals
<1>4. m \in Changes /\ m.on = date /\ m.field = "amount"
  BY <1>2, WatchConstants DEF Deals, Changes
<1> HIDE DEF m
<1>5. /\ moves' \in Seq(Changes) /\ Len(moves) \in Nat /\ Len(moves') = Len(moves) + 1
      /\ DOMAIN moves = 1 .. Len(moves) /\ DOMAIN moves' = 1 .. Len(moves) + 1
      /\ \A i \in DOMAIN moves : moves'[i] = moves[i]
      /\ moves'[Len(moves) + 1] = m
  BY <1>1, <1>2, <1>4, HistoryGrows
<1>6. WatchTypes'
  BY <1>1, <1>3, <1>5, WatchConstants DEF WatchTypes
<1>7. InOrder'
  BY <1>1, <1>2, <1>4, <1>5 DEF InOrder
<1>8. CloseMoves' = CloseMoves
  BY <1>4, <1>5 DEF CloseMoves
<1>9. SlipsAddUp'
  <2> SUFFICES ASSUME NEW k \in CloseMoves,
                      \A i \in SinceMove(k)' : moves'[i].new - moves'[i].old < PushAt
               PROVE  watched'.close - moves'[k].old < PushAt * Cardinality(SinceMove(k)')
    BY <1>8 DEF SlipsAddUp
  <2>1. SinceMove(k)' = SinceMove(k) /\ \A i \in CloseMoves : moves'[i] = moves[i]
    BY <1>5, <1>8 DEF SinceMove, CloseMoves
  <2>2. \A i \in SinceMove(k) : moves[i].new - moves[i].old < PushAt
    BY <2>1 DEF SinceMove
  <2>3. QED
    BY <1>3, <2>1, <2>2 DEF SlipsAddUp
<1>10. OthersAreStillTold' /\ CutOffOnlyHides' /\ QuietDealIsReported'
  BY <1>1, <1>3 DEF OthersAreStillTold, CutOffOnlyHides, QuietDealIsReported
<1>11. QED
  BY <1>6, <1>7, <1>9, <1>10

\* A change of the close date: one more move, and the slip with it.
LEMMA RescheduleKeeps == ASSUME WatchIInv, NEW d \in Dates, Reschedule(d) PROVE WatchIInv'
<1> USE DEF WatchIInv
<1> DEFINE m == [field |-> "close", old |-> watched.close, new |-> d, on |-> date]
           n == Len(moves) + 1
<1>1. /\ Len(moves) < MaxMoves /\ watched' = [watched EXCEPT !.close = d]
      /\ moves' = Append(moves, m)
      /\ champion' = champion /\ mention' = mention /\ date' = date /\ sweep' = sweep
      /\ hygiene' = hygiene
  BY DEF Reschedule, MoveField
<1>2. watched \in Deals /\ date \in Nat \ {0} /\ moves \in Seq(Changes)
  BY DEF WatchTypes
<1>3. watched' \in Deals /\ watched'.touched = watched.touched /\ watched'.close = d
  BY <1>1, <1>2 DEF Deals
<1>4. /\ m \in Changes /\ m.on = date /\ m.field = "close" /\ m.old = watched.close /\ m.new = d
  BY <1>2, WatchConstants DEF Deals, Changes
<1>5. d \in Nat /\ watched.close \in Nat
  BY <1>2, WatchConstants DEF Deals
<1> HIDE DEF m
<1>6. /\ moves' \in Seq(Changes) /\ Len(moves) \in Nat /\ Len(moves') = n
      /\ DOMAIN moves = 1 .. Len(moves) /\ DOMAIN moves' = 1 .. n
      /\ \A i \in DOMAIN moves : moves'[i] = moves[i]
      /\ moves'[n] = m
  BY <1>1, <1>2, <1>4, HistoryGrows
<1>7. WatchTypes'
  BY <1>1, <1>3, <1>6, WatchConstants DEF WatchTypes
<1>8. InOrder'
  BY <1>1, <1>2, <1>4, <1>6 DEF InOrder
<1>9. n \in Nat /\ n \notin DOMAIN moves /\ \A i \in DOMAIN moves : i \in Nat /\ i < n
  BY <1>6
<1> HIDE DEF n
<1>10. CloseMoves' = CloseMoves \union {n} /\ CloseMoves \subseteq DOMAIN moves
  <2>1. DOMAIN moves' = DOMAIN moves \union {n}
    BY <1>6 DEF n
  <2>2. QED
    BY <1>4, <1>6, <2>1 DEF CloseMoves
<1>11. SlipsAddUp'
  <2> SUFFICES ASSUME NEW k \in CloseMoves',
                      \A i \in SinceMove(k)' : moves'[i].new - moves'[i].old < PushAt
               PROVE  watched'.close - moves'[k].old < PushAt * Cardinality(SinceMove(k)')
    BY DEF SlipsAddUp
  <2>1. PushAt \in Nat
    BY WatchConstants
  <2>2. CASE k = n
    <3>1. SinceMove(k)' = {n}
      BY <1>9, <1>10, <2>2 DEF SinceMove
    <3>2. Cardinality(SinceMove(k)') = 1
      <4>1. Cardinality({n}) = 1
        BY FS_Singleton
      <4>2. QED
        BY <3>1, <4>1
    <3>3. moves'[n].new - moves'[n].old < PushAt
      BY <3>1
    <3>4. QED
      BY <1>3, <1>4, <1>6, <2>1, <2>2, <3>2, <3>3
  <2>3. CASE k \in CloseMoves
    <3>1. k < n /\ k \in DOMAIN moves /\ moves'[k] = moves[k]
      BY <1>6, <1>9, <1>10, <2>3
    <3>2. SinceMove(k)' = SinceMove(k) \union {n}
      BY <1>9, <1>10, <3>1 DEF SinceMove
    <3>3. SinceMove(k) \subseteq DOMAIN moves /\ n \notin SinceMove(k)
      BY <1>9, <1>10 DEF SinceMove
    <3>4. IsFiniteSet(SinceMove(k)) /\ Cardinality(SinceMove(k)) \in Nat
      BY <1>2, <3>3, MovesAreFinite
    <3>5. Cardinality(SinceMove(k)') = Cardinality(SinceMove(k)) + 1
      <4>1. Cardinality(SinceMove(k) \union {n}) = Cardinality(SinceMove(k)) + 1
        BY <3>3, <3>4, FS_AddElement
      <4>2. QED
        BY <3>2, <4>1
    <3>6. \A i \in SinceMove(k) : moves[i].new - moves[i].old < PushAt
      BY <1>6, <3>2, <3>3
    <3>7. watched.close - moves[k].old < PushAt * Cardinality(SinceMove(k))
      BY <2>3, <3>6 DEF SlipsAddUp
    <3>8. d - watched.close < PushAt
      BY <1>4, <1>6, <3>2
    <3>9. moves[k].old \in Nat
      BY <1>2, <3>1, MoveTypes
    <3> DEFINE c == Cardinality(SinceMove(k))
    <3>10. c \in Nat /\ watched.close - moves[k].old < PushAt * c
      BY <3>4, <3>7
    <3> HIDE DEF c
    <3>11. PushAt * (c + 1) = PushAt * c + PushAt /\ PushAt * c \in Nat
      BY <2>1, <3>10
    <3>12. d - moves[k].old < PushAt * (c + 1)
      BY <1>5, <2>1, <3>8, <3>9, <3>10, <3>11
    <3>13. QED
      BY <1>3, <3>1, <3>5, <3>12 DEF c
  <2>4. QED
    BY <1>10, <2>2, <2>3
<1>12. OthersAreStillTold' /\ CutOffOnlyHides' /\ QuietDealIsReported'
  BY <1>1, <1>3 DEF OthersAreStillTold, CutOffOnlyHides, QuietDealIsReported
<1>13. QED
  BY <1>7, <1>8, <1>11, <1>12

\* An edit leaves amount and close date; who is touched is touched today.
LEMMA EditKeeps ==
  ASSUME WatchIInv, NEW new \in Deals, EditDeal(new), new.touched \in {watched.touched, date}
  PROVE  WatchIInv'
<1> USE DEF WatchIInv
<1>1. /\ watched' = new /\ watched'.close = watched.close
      /\ moves' = moves /\ champion' = champion /\ mention' = mention /\ date' = date
      /\ sweep' = sweep /\ hygiene' = hygiene
  BY DEF EditDeal
<1>2. date \in Nat \ {0} /\ watched.touched =< date /\ watched.touched \in Nat
  BY DEF WatchTypes, Deals
<1>3. WatchTypes'
  BY <1>1, <1>2 DEF WatchTypes
<1>4. InOrder' /\ SlipsAddUp'
  BY <1>1, <1>2, HistoryKept
<1>5. OthersAreStillTold' /\ CutOffOnlyHides'
  BY <1>1 DEF OthersAreStillTold, CutOffOnlyHides
<1>6. QuietDealIsReported'
  <2>1. CASE new.touched = watched.touched
    BY <1>1, <2>1 DEF QuietDealIsReported
  <2>2. CASE new.touched = date /\ hygiene.reported
    <3>1. hygiene.on = date /\ StaleDays \in Nat
      BY <2>2, WatchConstants DEF WatchTypes
    <3>2. new.touched \notin 1 .. hygiene.on - StaleDays - 1
      BY <1>2, <2>2, <3>1
    <3>3. QED
      BY <1>1, <3>2 DEF QuietDealIsReported
  <2>3. CASE ~ hygiene.reported
    BY <1>1, <2>3 DEF QuietDealIsReported
  <2>4. QED
    BY <2>1, <2>2, <2>3
<1>7. QED
  BY <1>3, <1>4, <1>5, <1>6

\* Each of the edits is one.
LEMMA EditsAreEdits ==
  ASSUME WatchIInv, MoveOn \/ Rename \/ CloseDeal \/ Call \/ AddRole
  PROVE  WatchIInv'
<1>1. watched \in Deals /\ date \in Nat
  BY DEF WatchIInv, WatchTypes
<1> USE DEF Deals, WatchStages, WatchedStages, AdvancedStages
<1>2. CASE MoveOn
  <2> DEFINE new == [watched EXCEPT !.stage = "Sent", !.step = FALSE]
  <2>1. new \in Deals /\ new.touched = watched.touched
    BY <1>1
  <2>2. EditDeal(new)
    BY <1>2 DEF MoveOn
  <2> HIDE DEF new
  <2>3. QED
    BY <2>1, <2>2, EditKeeps
<1>3. CASE Rename
  <2> DEFINE new == [watched EXCEPT !.stage = "Renamed"]
  <2>1. new \in Deals /\ new.touched = watched.touched
    BY <1>1
  <2>2. EditDeal(new)
    BY <1>3 DEF Rename
  <2> HIDE DEF new
  <2>3. QED
    BY <2>1, <2>2, EditKeeps
<1>4. CASE CloseDeal
  <2> DEFINE new == [watched EXCEPT !.stage = "Closed"]
  <2>1. new \in Deals /\ new.touched = watched.touched
    BY <1>1
  <2>2. EditDeal(new)
    BY <1>4 DEF CloseDeal
  <2> HIDE DEF new
  <2>3. QED
    BY <2>1, <2>2, EditKeeps
<1>5. CASE Call
  <2> DEFINE new == [watched EXCEPT !.touched = date, !.step = TRUE]
  <2>1. new \in Deals /\ new.touched = date
    BY <1>1
  <2>2. EditDeal(new)
    BY <1>5 DEF Call
  <2> HIDE DEF new
  <2>3. QED
    BY <2>1, <2>2, EditKeeps
<1>6. CASE AddRole
  <2> DEFINE new == [watched EXCEPT !.roles = @ + 1]
  <2>1. new \in Deals /\ new.touched = watched.touched
    BY <1>1
  <2>2. EditDeal(new)
    BY <1>6 DEF AddRole
  <2> HIDE DEF new
  <2>3. QED
    BY <2>1, <2>2, EditKeeps
<1>7. QED
  BY <1>2, <1>3, <1>4, <1>5, <1>6

\* The contact leaves, a competitor is named.
LEMMA OrgKeeps == ASSUME WatchIInv, EditChampion \/ NameCompetitor PROVE WatchIInv'
<1> USE DEF WatchIInv
<1>1. /\ watched' = watched /\ moves' = moves /\ date' = date /\ sweep' = sweep
      /\ hygiene' = hygiene /\ champion' \in {champion, 0, date} /\ mention' \in {mention, date}
  BY DEF EditChampion, NameCompetitor
<1>2. WatchTypes'
  BY <1>1 DEF WatchTypes
<1>3. InOrder' /\ SlipsAddUp'
  BY <1>1, HistoryKept DEF WatchTypes
<1>4. OthersAreStillTold' /\ CutOffOnlyHides' /\ QuietDealIsReported'
  BY <1>1 DEF OthersAreStillTold, CutOffOnlyHides, QuietDealIsReported
<1>5. QED
  BY <1>2, <1>3, <1>4

\* A new day begins without sweeps.
LEMMA TomorrowKeeps == ASSUME WatchIInv, Tomorrow PROVE WatchIInv'
<1> USE DEF WatchIInv
<1>1. /\ watched' = watched /\ moves' = moves /\ date' = date + 1 /\ champion' = champion
      /\ mention' = mention /\ sweep' = NoSweep /\ hygiene' = NoHygiene
  BY DEF Tomorrow
<1>2. date \in Nat \ {0} /\ watched.touched \in Nat
  BY DEF WatchTypes, Deals
<1>3. /\ sweep'.on = 0 /\ sweep'.errors = {} /\ hygiene'.on = 0 /\ hygiene'.reported = FALSE
  BY <1>1 DEF NoSweep, NoHygiene
<1>4. WatchTypes'
  BY <1>1, <1>2, <1>3 DEF WatchTypes
<1>5. InOrder' /\ SlipsAddUp'
  BY <1>1, <1>2, HistoryKept
<1>6. OthersAreStillTold' /\ CutOffOnlyHides' /\ QuietDealIsReported'
  BY <1>3 DEF OthersAreStillTold, CutOffOnlyHides, QuietDealIsReported
<1>7. QED
  BY <1>4, <1>5, <1>6

\* A query answers with some of the rows that it asks for.
LEMMA AnswersAreDue ==
  ASSUME NEW field, NEW S \in Answered(field)
  PROVE  S \subseteq Due(field)
BY DEF Answered

\* What a detector finds in the rows it is answered, it finds in all that are
\* due, or something as grave.
LEMMA FoundAmongAll ==
  ASSUME NEW pushes \in Answered("close"), NEW drops \in Answered("amount"), NEW back \in Nat,
         NEW d \in Detectors
  PROVE  \A s \in Detected(pushes, drops, back)[d] :
             /\ s[1] = d
             /\ \E r \in Detected(Due("close"), Due("amount"), back)[d] :
                   s[2] = "high" => r[2] = "high"
<1> DEFINE allPushes == Due("close")
           allDrops == Due("amount")
<1> SUFFICES ASSUME NEW s \in Detected(pushes, drops, back)[d]
             PROVE  /\ s[1] = d
                    /\ \E r \in Detected(allPushes, allDrops, back)[d] :
                          s[2] = "high" => r[2] = "high"
  OBVIOUS
<1>0. pushes \subseteq allPushes /\ drops \subseteq allDrops
  BY AnswersAreDue
<1> HIDE DEF allPushes, allDrops
<1>1. CASE d = "pushed_close"
  <2>1. /\ s \in PushedClose(pushes)
        /\ Detected(allPushes, allDrops, back)[d] = PushedClose(allPushes)
    BY <1>1 DEF Detected, Detectors
  <2>2. /\ Moves(pushes, PushAt) => Moves(allPushes, PushAt)
        /\ Moves(pushes, BigPush) => Moves(allPushes, BigPush)
    BY <1>0 DEF Moves
  <2>3. IsOpen /\ Moves(pushes, PushAt)
        /\ s = <<"pushed_close", IF Moves(pushes, BigPush) THEN "high" ELSE "warn">>
    BY <2>1 DEF PushedClose
  <2>4. PushedClose(allPushes) =
          {<<"pushed_close", IF Moves(allPushes, BigPush) THEN "high" ELSE "warn">>}
    BY <2>2, <2>3 DEF PushedClose
  <2> DEFINE r == <<"pushed_close", IF Moves(allPushes, BigPush) THEN "high" ELSE "warn">>
  <2>5. r \in Detected(allPushes, allDrops, back)[d] /\ (s[2] = "high" => r[2] = "high")
    BY <2>1, <2>2, <2>3, <2>4
  <2>6. s[1] = d
    BY <1>1, <2>3
  <2> HIDE DEF r
  <2>7. QED
    BY <2>5, <2>6
<1>2. CASE d = "amount_drop"
  <2>1. s \in AmountDrops(drops) /\ Detected(allPushes, allDrops, back)[d] = AmountDrops(allDrops)
    BY <1>2 DEF Detected, Detectors
  <2>2. s \in AmountDrops(allDrops) /\ s[1] = "amount_drop"
    BY <1>0, <2>1 DEF AmountDrops
  <2>3. QED
    BY <1>2, <2>1, <2>2
<1>3. CASE d = "champion_gone"
  <2>1. s \in ChampionGone /\ Detected(allPushes, allDrops, back)[d] = ChampionGone
    BY <1>3 DEF Detected, Detectors
  <2>2. s[1] = "champion_gone"
    BY <2>1 DEF ChampionGone
  <2>3. QED
    BY <1>3, <2>1, <2>2
<1>4. CASE d = "competitor_mention"
  <2>1. s \in CompetitorMentions(back) /\ Detected(allPushes, allDrops, back)[d] = CompetitorMentions(back)
    BY <1>4 DEF Detected, Detectors
  <2>2. s[1] = "competitor_mention"
    BY <2>1 DEF CompetitorMentions
  <2>3. QED
    BY <1>4, <2>1, <2>2
<1>5. QED
  BY <1>1, <1>2, <1>3, <1>4 DEF Detectors

\* A risk sweep tells what its detectors find in the rows they are answered.
LEMMA RiskSweepKeeps ==
  ASSUME WatchIInv, NEW failing \in SUBSET Raising, NEW quiet \in SUBSET Swallowing,
         RiskSweep(failing, quiet)
  PROVE  WatchIInv'
<1> USE DEF WatchIInv
<1>1. PICK pushes \in Answered("close"), drops \in Answered("amount"), back \in {1, 2} :
        /\ sweep' = [on |-> date,
                     signals |-> Collect([d \in Detectors |-> IF d \in quiet THEN {}
                                              ELSE Detected(pushes, drops, back)[d]], failing),
                     errors |-> failing,
                     partial |-> quiet \union {d \in {"pushed_close"} : pushes # Due("close")}
                                       \union {d \in {"amount_drop"} : drops # Due("amount")},
                     due |-> Detected(Due("close"), Due("amount"), back)]
        /\ UNCHANGED <<watched, moves, champion, mention, date, hygiene>>
  BY DEF RiskSweep
<1> DEFINE found == Detected(pushes, drops, back)
           all == Detected(Due("close"), Due("amount"), back)
<1>2. /\ watched' = watched /\ moves' = moves /\ champion' = champion /\ mention' = mention
      /\ date' = date /\ hygiene' = hygiene
  BY <1>1
<1>3. /\ sweep'.on = date /\ sweep'.errors = failing /\ sweep'.due = all
      /\ sweep'.signals = UNION {IF d \in quiet THEN {} ELSE found[d] : d \in Detectors \ failing}
      /\ sweep'.partial = quiet \union {d \in {"pushed_close"} : pushes # Due("close")}
                               \union {d \in {"amount_drop"} : drops # Due("amount")}
  <2> DEFINE told == [d \in Detectors |-> IF d \in quiet THEN {} ELSE found[d]]
  <2>1. Collect(told, failing) = UNION {told[d] : d \in Detectors \ failing}
    BY DEF Collect
  <2>2. \A d \in Detectors \ failing : told[d] = IF d \in quiet THEN {} ELSE found[d]
    OBVIOUS
  <2> HIDE DEF told
  <2>3. UNION {told[d] : d \in Detectors \ failing}
          = UNION {IF d \in quiet THEN {} ELSE found[d] : d \in Detectors \ failing}
    BY <2>2
  <2>4. QED
    BY <1>1, <2>1, <2>3 DEF told
<1>4. pushes \subseteq Due("close") /\ drops \subseteq Due("amount")
  BY AnswersAreDue
<1>5. WatchTypes'
  BY <1>2, <1>3 DEF WatchTypes
<1>6. InOrder' /\ SlipsAddUp'
  BY <1>2, HistoryKept DEF WatchTypes
<1>7. QuietDealIsReported'
  BY <1>2 DEF QuietDealIsReported
<1>8. OthersAreStillTold'
  <2> SUFFICES ASSUME NEW d \in Detectors, d \notin failing, d \notin sweep'.partial
               PROVE  all[d] \subseteq sweep'.signals
    BY <1>3 DEF OthersAreStillTold
  <2>1. d \notin quiet /\ found[d] \subseteq sweep'.signals
    BY <1>3
  <2>2. d = "pushed_close" => pushes = Due("close")
    BY <1>3
  <2>3. d = "amount_drop" => drops = Due("amount")
    BY <1>3
  <2>4. found[d] = all[d]
    BY <2>2, <2>3 DEF Detected, Detectors
  <2>5. QED
    BY <2>1, <2>4
<1> HIDE DEF found, all
<1>9. CutOffOnlyHides'
  <2> SUFFICES ASSUME NEW s \in sweep'.signals
               PROVE  \E r \in all[s[1]] : s[2] = "high" => r[2] = "high"
    BY <1>3 DEF CutOffOnlyHides
  <2>1. PICK d \in Detectors : s \in found[d]
    BY <1>3
  <2>2. s[1] = d /\ \E r \in all[d] : s[2] = "high" => r[2] = "high"
    <3>1. s \in Detected(pushes, drops, back)[d]
      BY <2>1 DEF found
    <3>2. /\ s[1] = d
          /\ \E r \in Detected(Due("close"), Due("amount"), back)[d] : s[2] = "high" => r[2] = "high"
      <4>1. back \in Nat
        BY <1>1
      <4>2. QED
        BY <2>1, <3>1, <4>1, FoundAmongAll
    <3>3. QED
      BY <3>2 DEF all
  <2>3. QED
    BY <2>2
<1>10. QED
  BY <1>5, <1>6, <1>7, <1>8, <1>9

\* A hygiene sweep that reports reports what its queries find.
LEMMA HygieneSweepKeeps ==
  ASSUME WatchIInv, NEW fails \in BOOLEAN, NEW beyond \in SUBSET Queries,
         HygieneSweep(fails, beyond)
  PROVE  WatchIInv'
<1> USE DEF WatchIInv
<1>1. /\ watched' = watched /\ moves' = moves /\ champion' = champion /\ mention' = mention
      /\ date' = date /\ sweep' = sweep
      /\ hygiene'.on = date /\ (hygiene'.reported <=> ~ fails)
      /\ hygiene'.issues = (IF fails THEN {} ELSE Issues \ beyond)
      /\ hygiene'.beyond = beyond /\ hygiene'.stage = watched.stage
  BY DEF HygieneSweep
<1>2. WatchTypes'
  BY <1>1 DEF WatchTypes
<1>3. InOrder' /\ SlipsAddUp'
  BY <1>1, HistoryKept DEF WatchTypes
<1>4. OthersAreStillTold' /\ CutOffOnlyHides'
  BY <1>1 DEF OthersAreStillTold, CutOffOnlyHides
<1>5. QuietDealIsReported'
  <2> SUFFICES ASSUME ~ fails
               PROVE  /\ Issues \ beyond # {} => watched.stage \in WatchedStages
                      /\ (/\ watched.touched \in 1 .. date - StaleDays - 1
                          /\ watched.stage \in WatchedStages) =>
                             "stale_activity" \in (Issues \ beyond) \union beyond
    BY <1>1 DEF QuietDealIsReported
  <2>1. Issues # {} => StaleActivity \/ MissingNextStep \/ PastClose \/ SingleThreaded
    BY DEF Issues
  <2>2. Issues # {} => watched.stage \in WatchedStages
    BY <2>1 DEF StaleActivity, MissingNextStep, PastClose, SingleThreaded, WatchedStages
  <2>3. ASSUME watched.touched \in 1 .. date - StaleDays - 1, watched.stage \in WatchedStages
        PROVE  "stale_activity" \in (Issues \ beyond) \union beyond
    <3>1. watched.touched \in Nat /\ date \in Nat /\ StaleDays \in Nat
      BY WatchConstants DEF WatchTypes, Deals
    <3>2. watched.touched # Never /\ watched.touched < date - StaleDays
      BY <2>3, <3>1 DEF Never
    <3>3. IsOpen
      BY <2>3 DEF IsOpen, WatchedStages, AdvancedStages
    <3>4. StaleActivity
      BY <2>3, <3>2, <3>3 DEF StaleActivity
    <3>5. "stale_activity" \in Queries
      BY DEF Queries
    <3>6. "stale_activity" \in Issues
      BY <3>4, <3>5 DEF Issues
    <3>7. QED
      BY <3>6
  <2>4. QED
    BY <2>2, <2>3
<1>6. QED
  BY <1>2, <1>3, <1>4, <1>5

\* Every step keeps them.
LEMMA WatchStep == WatchIInv /\ [WatchNext]_watchVars => WatchIInv'
<1> SUFFICES ASSUME WatchIInv, [WatchNext]_watchVars PROVE WatchIInv'
  OBVIOUS
<1>1. ASSUME NEW p \in Prices, Reprice(p) PROVE WatchIInv'
  BY <1>1, RepriceKeeps
<1>2. ASSUME NEW d \in Dates, Reschedule(d) PROVE WatchIInv'
  BY <1>2, RescheduleKeeps
<1>3. CASE MoveOn \/ Rename \/ CloseDeal \/ Call \/ AddRole
  BY <1>3, EditsAreEdits
<1>4. CASE EditChampion \/ NameCompetitor
  BY <1>4, OrgKeeps
<1>5. CASE Tomorrow
  BY <1>5, TomorrowKeeps
<1>6. ASSUME NEW failing \in SUBSET Raising, NEW quiet \in SUBSET Swallowing,
             RiskSweep(failing, quiet)
      PROVE  WatchIInv'
  BY <1>6, RiskSweepKeeps
<1>7. ASSUME NEW fails \in BOOLEAN, NEW beyond \in SUBSET Queries, HygieneSweep(fails, beyond)
      PROVE  WatchIInv'
  BY <1>7, HygieneSweepKeeps
<1>8. CASE UNCHANGED watchVars
  <2>1. InOrder' /\ SlipsAddUp'
    BY <1>8, HistoryKept DEF watchVars, WatchIInv, WatchTypes
  <2>2. QED
    BY <1>8, <2>1 DEF watchVars, WatchIInv, WatchTypes, OthersAreStillTold, CutOffOnlyHides,
                      QuietDealIsReported
<1>9. QED
  BY <1>1, <1>2, <1>3, <1>4, <1>5, <1>6, <1>7, <1>8 DEF WatchNext, RiskNext, HygieneNext

\* A slip by the threshold for each recent move takes one of that length.
LEMMA SlipsSeen == WatchIInv => SlipsAreSeen
<1> SUFFICES ASSUME WatchIInv, IsOpen, RecentMoves # {},
                    Slipped >= PushAt * Cardinality(RecentMoves)
             PROVE  PushedClose(RecentMoves) # {}
  BY DEF SlipsAreSeen
<1> USE DEF WatchIInv
<1> DEFINE k == Min(RecentMoves)
<1>1. /\ moves \in Seq(Changes) /\ RecentMoves \subseteq DOMAIN moves
      /\ RecentMoves \subseteq CloseMoves /\ RecentMoves \subseteq Nat
  BY DEF WatchTypes, RecentMoves, CloseMoves
<1>2. k \in RecentMoves /\ \A i \in RecentMoves : k =< i
  BY <1>1, FirstPlace
<1> HIDE DEF k
<1>3. SinceMove(k) = RecentMoves
  <2>1. ASSUME NEW i \in SinceMove(k) PROVE i \in RecentMoves
    <3>1. i \in DOMAIN moves /\ k \in DOMAIN moves /\ k =< i /\ moves[i].field = "close"
      BY <1>1, <1>2, <2>1 DEF SinceMove, CloseMoves
    <3>2. moves[k].on =< moves[i].on /\ Recent(moves[k].on)
      BY <1>2, <3>1 DEF InOrder, RecentMoves
    <3>3. moves[k].on \in Nat /\ moves[i].on \in Nat /\ date \in Nat /\ WatchWindow \in Nat
      BY <1>1, <3>1, MoveTypes, WatchConstants DEF WatchTypes
    <3>4. Recent(moves[i].on)
      BY <3>2, <3>3 DEF Recent
    <3>5. QED
      BY <3>1, <3>4 DEF RecentMoves
  <2>2. ASSUME NEW i \in RecentMoves PROVE i \in SinceMove(k)
    BY <1>1, <1>2, <2>2 DEF SinceMove
  <2>3. QED
    BY <2>1, <2>2
<1>4. ASSUME ~ Moves(RecentMoves, PushAt) PROVE FALSE
  <2>1. \A i \in RecentMoves : moves[i].new \in Nat /\ moves[i].old \in Nat
    BY <1>1, MoveTypes
  <2>2. \A i \in SinceMove(k) : moves[i].new - moves[i].old < PushAt
    BY <1>3, <1>4, <2>1, WatchConstants DEF Moves
  <2>3. watched.close - moves[k].old < PushAt * Cardinality(RecentMoves)
    BY <1>1, <1>2, <1>3, <2>2 DEF SlipsAddUp
  <2>4. Slipped = watched.close - moves[k].old
    BY DEF Slipped, k
  <2>5. /\ watched.close \in Nat /\ moves[k].old \in Nat /\ PushAt \in Nat
        /\ Cardinality(RecentMoves) \in Nat
    BY <1>1, <1>2, <2>1, MovesAreFinite, WatchConstants DEF WatchTypes, Deals
  <2> DEFINE bound == PushAt * Cardinality(RecentMoves)
  <2>6. bound \in Int
    BY <2>5
  <2> HIDE DEF bound
  <2>7. watched.close - moves[k].old >= bound /\ watched.close - moves[k].old < bound
    BY <2>3, <2>4 DEF bound
  <2>8. QED
    BY <2>5, <2>6, <2>7
<1>5. QED
  BY <1>4 DEF PushedClose

\* The rest of what the sweeps keep is in the invariant.
LEMMA WatchIInvImplies == WatchIInv => WatchInv
<1> SUFFICES ASSUME WatchIInv PROVE WatchInv
  OBVIOUS
<1> USE DEF WatchIInv
<1>1. WatchTypeOK
  <2>1. watched.stage \in WatchStages /\ watched.amount \in Prices /\ watched.close \in Dates
    BY DEF WatchTypes, Deals
  <2>2. date \in Nat /\ sweep.on \in {0, date} /\ hygiene.on \in {0, date}
    BY DEF WatchTypes
  <2>3. sweep.on =< date /\ hygiene.on =< date
    BY <2>2
  <2>4. QED
    BY <2>1, <2>3 DEF WatchTypeOK, WatchTypes
<1>2. SlipsAreSeen
  BY SlipsSeen
<1>3. QED
  BY <1>1, <1>2 DEF WatchInv

(* The sweeps over open deals: a deal that slipped within the window by    *)
(* the threshold for each of its moves is found however the moves are      *)
(* spread (_detect_pushed_close), a detector that fails or is not answered *)
(* in full costs no signal of another (run_sweep), a history that is cut   *)
(* off makes up none, and the morning's report has every deal that is long *)
(* untouched and within the query's limit (_soql_stale).                   *)
THEOREM WatchHolds == WatchSpec => []WatchInv
<1>1. WatchInit => WatchIInv
  BY WatchInitially
<1>2. WatchIInv /\ [WatchNext]_watchVars => WatchIInv'
  BY WatchStep
<1>3. WatchIInv => WatchInv
  BY WatchIInvImplies
<1>4. QED
  BY <1>1, <1>2, <1>3, PTL DEF WatchSpec
=============================================================================
