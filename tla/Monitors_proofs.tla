--------------------------- MODULE Monitors_proofs ---------------------------
(***************************************************************************)
(* What the monitors keep for every number of processes, subjects and      *)
(* days: the sweeps that file tasks and alerts (SignalInv), the stall scan *)
(* (StallInv), the metadata drift poll (DriftInv) and the integration      *)
(* health pollers (HealthInv).  Each has an inductive invariant, lemmas    *)
(* for its actions, and a theorem.  The poller of wins (ClosedWonPoller),  *)
(* for every number of overlapping runs, crashes and failing calls, keeps  *)
(* its types, settles the candidates of a completed run, asks about every  *)
(* unowned record, and, when no two runs overlap, makes no second record.  *)
(***************************************************************************)
EXTENDS SignalMonitors, IntegrationHealth, StallAlerts, MetadataDrift, ClosedWonPoller, TLAPS

-----------------------------------------------------------------------------
(* The sweeps *)

Task == [day : Dates, open : BOOLEAN, level : Levels]
SweepRow == [at : 0 .. 5, subject : Subjects, level : Levels, marked : BOOLEAN,
             todo : SUBSET Subjects, seen : [Subjects -> Levels], now : Dates]

SignalTypes ==
    /\ monitor \in Monitors /\ date \in Dates
    /\ signal \in [Subjects -> Levels]
    /\ tasked \in [Subjects -> Seq(Task)] /\ \A i \in Subjects : Len(tasked[i]) =< MostTasks
    /\ scored \subseteq Subjects \X Dates \X Levels
    /\ monitor # ChurnRisk => scored = {}
    /\ sweep \in [Sweeps -> SweepRow]
    /\ said \in [Subjects \X Dates -> Nat]

(* The steps of a sweep, and the level that leads to them.                 *)
Place(at, level) ==
    /\ monitor = RenewalStall => at \in 0 .. 4 /\ (at # 0 => level = "loud")
    /\ monitor = ChurnRisk => at \in 0 .. 5 /\ (at >= 3 => level = "loud")
    /\ monitor \in {Expansion, Surface} => at \in 0 .. 2 /\ (at # 0 => level = "loud")
    /\ monitor = Board => /\ at \in 0 .. 3
                          /\ at = 2 => level # "none"
                          /\ at = 3 => level = "loud"

InsertAt == IF monitor = RenewalStall THEN 3 ELSE IF monitor = ChurnRisk THEN 5 ELSE 2
AlertAt == IF monitor = RenewalStall THEN 4 ELSE IF monitor \in {ChurnRisk, Board} THEN 3 ELSE 0

TaskOf(i, d) == \E n \in DOMAIN tasked[i] : tasked[i][n].day = d
ScoredOn(i, d) == \E l \in Levels : <<i, d, l>> \in scored

(* What a sweep that has looked may still take for granted.                *)
Fresh(i, at, now) ==
    /\ at \in 2 .. InsertAt => ~ HasTask(i, now)
    /\ at \in 2 .. AlertAt => /\ said[<<i, now>>] = 0
                              /\ monitor = Board => \A d \in Dates : said[<<i, d>>] = 0
    /\ monitor = RenewalStall /\ at = 4 => TaskOf(i, now)
    /\ monitor = Board /\ at = 3 => tasked[i] # <<>>
    /\ monitor = ChurnRisk /\ at \in 3 .. 5 => <<i, now, "loud">> \in scored
    /\ monitor = ChurnRisk /\ at \in 4 .. 5 => said[<<i, now>>] = 1

(* What was said left the mark that the next look finds.                   *)
Backed(i) ==
    /\ \A d \in Dates : said[<<i, d>>] # 0 =>
        /\ monitor = RenewalStall => TaskOf(i, d)
        /\ monitor = ChurnRisk => ScoredOn(i, d)
        /\ monitor = Board => tasked[i] # <<>>
        /\ monitor \notin {Expansion, Surface}
    /\ monitor = ChurnRisk => \A d \in Dates : TaskOf(i, d) => ScoredOn(i, d)

Once(i) ==
    /\ \A d \in Dates : said[<<i, d>>] =< 1
    /\ monitor = Board => \A d, e \in Dates : said[<<i, d>>] + said[<<i, e>>] =< 1 \/ d = e
    /\ \A m, n \in DOMAIN tasked[i] :
        m # n => \/ monitor.daily /\ tasked[i][m].day # tasked[i][n].day
                 \/ monitor.openOnly /\ ~ (tasked[i][m].open /\ tasked[i][n].open)

(* A sweep on its way from the mark to the last thing it has to say.       *)
Pending(p, i, d) ==
    /\ WorksOn(p, i) /\ sweep[p].now = d /\ sweep[p].marked
    /\ IF monitor = ChurnRisk THEN sweep[p].at \in 3 .. 5 ELSE sweep[p].at = AlertAt

NoneOwed(i) ==
    /\ \A d \in Dates : <<i, d, "loud">> \in scored =>
        \/ said[<<i, d>>] = 1 /\ TaskOf(i, d)
        \/ \E p \in Sweeps : Pending(p, i, d)
    /\ monitor \in {RenewalStall, Board} => \A n \in DOMAIN tasked[i] :
        tasked[i][n].level = "loud" =>
            \/ said[<<i, tasked[i][n].day>>] = 1
            \/ \E p \in Sweeps : Pending(p, i, tasked[i][n].day)

Alone(i) == \A p, q \in Sweeps : WorksOn(p, i) /\ WorksOn(q, i) => p = q
Kept(i) ==
    /\ Alone(i) /\ Backed(i) /\ Once(i)
    /\ \A p \in Sweeps : WorksOn(p, i) => Fresh(i, sweep[p].at, sweep[p].now)

SignalIInv ==
    /\ SignalTypes
    /\ \A p \in Sweeps : Place(sweep[p].at, sweep[p].level)
    /\ \A i \in Subjects \ overtaken : Kept(i) /\ (i \notin cutOff => NoneOwed(i))

-----------------------------------------------------------------------------

LEMMA MonitorKinds ==
  /\ Monitors = {RenewalStall, ChurnRisk, Expansion, Board, Surface}
  /\ RenewalStall \notin {ChurnRisk, Expansion, Board, Surface}
  /\ ChurnRisk \notin {Expansion, Board, Surface}
  /\ Expansion \notin {Board, Surface} /\ Board # Surface
  /\ \A m \in {RenewalStall, ChurnRisk, Expansion} : m.daily /\ ~ m.openOnly /\ ~ m.swallows
  /\ ~ Board.daily /\ ~ Board.openOnly /\ Board.swallows
  /\ ~ Surface.daily /\ Surface.openOnly /\ ~ Surface.swallows
<1>1. /\ Len(RenewalStall.steps) = 4 /\ Len(ChurnRisk.steps) = 5 /\ Len(Expansion.steps) = 2
      /\ Len(Board.steps) = 3 /\ Len(Surface.steps) = 2
  BY DEF RenewalStall, ChurnRisk, Expansion, Board, Surface
<1>2. Expansion.daily /\ ~ Surface.daily
  BY DEF Expansion, Surface
<1>3. /\ \A m \in {RenewalStall, ChurnRisk, Expansion} : m.daily /\ ~ m.openOnly /\ ~ m.swallows
      /\ ~ Board.daily /\ ~ Board.openOnly /\ Board.swallows
      /\ ~ Surface.daily /\ Surface.openOnly /\ ~ Surface.swallows
  BY DEF RenewalStall, ChurnRisk, Expansion, Board, Surface
<1>4. QED
  BY <1>1, <1>2, <1>3 DEF Monitors

LEMMA StepNames ==
  /\ Len(RenewalStall.steps) = 4
  /\ RenewalStall.steps[1] = "look" /\ RenewalStall.steps[2] = "check"
  /\ RenewalStall.steps[3] = "insert" /\ RenewalStall.steps[4] = "alert"
  /\ Len(ChurnRisk.steps) = 5
  /\ ChurnRisk.steps[1] = "look" /\ ChurnRisk.steps[2] = "row" /\ ChurnRisk.steps[3] = "alert"
  /\ ChurnRisk.steps[4] = "check" /\ ChurnRisk.steps[5] = "insert"
  /\ Len(Expansion.steps) = 2
  /\ Expansion.steps[1] = "check" /\ Expansion.steps[2] = "insert"
  /\ Len(Board.steps) = 3
  /\ Board.steps[1] = "look" /\ Board.steps[2] = "insert" /\ Board.steps[3] = "alert"
  /\ Len(Surface.steps) = 2
  /\ Surface.steps[1] = "check" /\ Surface.steps[2] = "insert"
  BY DEF RenewalStall, ChurnRisk, Expansion, Board, Surface

(* The next step is the first one that the level leads to.                 *)
LEMMA NextIs ==
  ASSUME NEW a \in Nat, NEW level, NEW n \in a .. Len(monitor.steps), Len(monitor.steps) \in Nat,
         Does(monitor.steps[n], level),
         \A m \in a .. Len(monitor.steps) : Does(monitor.steps[m], level) => n =< m
  PROVE  NextStep(a, level) = n
<1> DEFINE later == {m \in a .. Len(monitor.steps) : Does(monitor.steps[m], level)}
<1>1. n \in later /\ \A o \in later : n =< o /\ o \in Nat
  OBVIOUS
<1>2. later # {} /\ NextStep(a, level) = CHOOSE m \in later : \A o \in later : m =< o
  BY <1>1 DEF NextStep
<1> HIDE DEF later
<1>3. \A m \in later : (\A o \in later : m =< o) => m = n
  BY <1>1
<1>4. QED
  BY <1>1, <1>2, <1>3

LEMMA NextNone ==
  ASSUME NEW a, NEW level, \A m \in a .. Len(monitor.steps) : ~ Does(monitor.steps[m], level)
  PROVE  NextStep(a, level) = 0
  BY DEF NextStep

LEMMA DoesIs ==
  /\ \A level : Does("row", level) /\ (Does("look", level) <=> monitor # RenewalStall \/ level = "loud")
  /\ \A level : Does("alert", level) <=> level = "loud"
  /\ \A level : /\ Does("check", level) <=> level = "loud" \/ (monitor = Board /\ level = "quiet")
                /\ Does("insert", level) <=> level = "loud" \/ (monitor = Board /\ level = "quiet")
  BY DEF Does

LEMMA RenewalSteps ==
  ASSUME monitor = RenewalStall, NEW level \in Levels
  PROVE  /\ NextStep(1, level) \in {0, 1} /\ (NextStep(1, level) # 0 => level = "loud")
         /\ level = "loud" => /\ NextStep(2, level) = 2 /\ NextStep(3, level) = 3
                              /\ NextStep(4, level) = 4 /\ NextStep(5, level) = 0
<1>1. CASE level = "loud"
  <2>1. \A m \in 1 .. 4 : Does(monitor.steps[m], level)
    <3>1. \A m \in 1 .. 4 : m = 1 \/ m = 2 \/ m = 3 \/ m = 4
      OBVIOUS
    <3>2. QED
      BY <1>1, <3>1, StepNames, DoesIs
  <2>2. ASSUME NEW a \in 1 .. 4 PROVE NextStep(a, level) = a
    <3>1. a \in Nat /\ a \in a .. Len(monitor.steps) /\ Len(monitor.steps) \in Nat
          /\ \A m \in a .. Len(monitor.steps) : a =< m
      BY StepNames
    <3>2. QED
      BY <2>1, <3>1, NextIs
  <2>3. NextStep(5, level) = 0
    BY StepNames, NextNone
  <2>4. QED
    BY <1>1, <2>2, <2>3
<1>2. CASE level # "loud"
  <2>1. \A m \in 1 .. Len(monitor.steps) : ~ Does(monitor.steps[m], level)
    <3>1. \A m \in 1 .. 4 : m = 1 \/ m = 2 \/ m = 3 \/ m = 4
      OBVIOUS
    <3>2. QED
      BY <1>2, <3>1, StepNames, DoesIs, MonitorKinds
  <2>2. QED
    BY <1>2, <2>1, NextNone
<1>3. QED
  BY <1>1, <1>2

LEMMA ChurnSteps ==
  ASSUME monitor = ChurnRisk, NEW level \in Levels
  PROVE  /\ NextStep(1, level) = 1 /\ NextStep(2, level) = 2
         /\ level = "loud" => /\ NextStep(3, level) = 3 /\ NextStep(4, level) = 4
                              /\ NextStep(5, level) = 5 /\ NextStep(6, level) = 0
         /\ level # "loud" => NextStep(3, level) = 0
<1>1. \A m \in 1 .. 5 : m = 1 \/ m = 2 \/ m = 3 \/ m = 4 \/ m = 5
  OBVIOUS
<1>2. /\ Does(monitor.steps[1], level) /\ Does(monitor.steps[2], level)
      /\ \A m \in 3 .. 5 : Does(monitor.steps[m], level) <=> level = "loud"
  BY <1>1, StepNames, DoesIs, MonitorKinds
<1>3. ASSUME NEW a \in 1 .. 5, Does(monitor.steps[a], level) PROVE NextStep(a, level) = a
  <2>1. a \in Nat /\ a \in a .. Len(monitor.steps) /\ Len(monitor.steps) \in Nat
        /\ \A m \in a .. Len(monitor.steps) : a =< m
    BY StepNames
  <2>2. QED
    BY <1>3, <2>1, NextIs
<1>4. NextStep(6, level) = 0
  BY StepNames, NextNone
<1>5. level # "loud" => NextStep(3, level) = 0
  BY <1>2, StepNames, NextNone
<1>6. QED
  BY <1>2, <1>3, <1>4, <1>5

LEMMA SilentSteps ==
  ASSUME monitor \in {Expansion, Surface}, NEW level \in Levels
  PROVE  /\ NextStep(1, level) \in {0, 1} /\ (NextStep(1, level) # 0 => level = "loud")
         /\ level = "loud" => NextStep(2, level) = 2 /\ NextStep(3, level) = 0
<1>1. Len(monitor.steps) = 2 /\ monitor.steps[1] = "check" /\ monitor.steps[2] = "insert"
  BY StepNames
<1>2. \A m \in 1 .. 2 : Does(monitor.steps[m], level) <=> level = "loud"
  <2>1. \A m \in 1 .. 2 : m = 1 \/ m = 2
    OBVIOUS
  <2>2. QED
    BY <1>1, <2>1, DoesIs, MonitorKinds
<1>3. ASSUME NEW a \in 1 .. 2, level = "loud" PROVE NextStep(a, level) = a
  <2>1. a \in Nat /\ a \in a .. Len(monitor.steps) /\ Len(monitor.steps) \in Nat
        /\ \A m \in a .. Len(monitor.steps) : a =< m
    BY <1>1
  <2>2. QED
    BY <1>2, <1>3, <2>1, NextIs
<1>4. NextStep(3, level) = 0
  BY <1>1, NextNone
<1>5. level # "loud" => NextStep(1, level) = 0
  BY <1>1, <1>2, NextNone
<1>6. QED
  BY <1>3, <1>4, <1>5

LEMMA BoardSteps ==
  ASSUME monitor = Board, NEW level \in Levels
  PROVE  /\ NextStep(1, level) = 1
         /\ NextStep(2, level) \in {0, 2} /\ (NextStep(2, level) # 0 => level # "none")
         /\ NextStep(3, level) = IF level = "loud" THEN 3 ELSE 0
         /\ NextStep(4, level) = 0
<1>1. /\ Len(monitor.steps) = 3 /\ Len(monitor.steps) \in Nat /\ monitor.steps[1] = "look"
      /\ monitor.steps[2] = "insert" /\ monitor.steps[3] = "alert"
  BY StepNames
<1>2. /\ Does(monitor.steps[1], level)
      /\ Does(monitor.steps[2], level) <=> level # "none"
      /\ Does(monitor.steps[3], level) <=> level = "loud"
  BY <1>1, DoesIs, MonitorKinds DEF Levels
<1>3. ASSUME NEW a \in 1 .. 3, Does(monitor.steps[a], level) PROVE NextStep(a, level) = a
  <2>1. a \in Nat /\ a \in a .. Len(monitor.steps) /\ \A m \in a .. Len(monitor.steps) : a =< m
    BY <1>1
  <2>2. QED
    BY <1>1, <1>3, <2>1, NextIs
<1>4. level = "none" => NextStep(2, level) = 0
  <2>1. \A m \in 2 .. 3 : m = 2 \/ m = 3
    OBVIOUS
  <2>2. QED
    BY <1>1, <1>2, <2>1, NextNone
<1>5. level # "loud" => NextStep(3, level) = 0
  <2>1. \A m \in 3 .. 3 : m = 3
    OBVIOUS
  <2>2. QED
    BY <1>1, <1>2, <2>1, NextNone
<1>6. NextStep(4, level) = 0
  BY <1>1, NextNone
<1>7. QED
  BY <1>2, <1>3, <1>4, <1>5, <1>6

LEMMA InitSignal == MonitorInit => SignalIInv
<1> SUFFICES ASSUME MonitorInit PROVE SignalIInv
  OBVIOUS
<1>1. 0 \in Dates /\ "none" \in Levels /\ 0 \in 0 .. 5 /\ MostTasks \in Nat
  BY MonitorAssumption DEF MonitorAssumption, Dates, Levels
<1>2. PICK i \in Subjects : i = CHOOSE j \in Subjects : TRUE
  BY MonitorAssumption DEF MonitorAssumption
<1>3. OffDuty \in SweepRow /\ OffDuty.at = 0
  BY <1>1, <1>2 DEF OffDuty, SweepRow
<1>4. /\ \A p \in Sweeps : sweep[p].at = 0
      /\ \A j \in Subjects : tasked[j] = <<>>
      /\ \A j \in Subjects, d \in Dates : said[<<j, d>>] = 0
      /\ \A j \in Subjects, d \in Dates : said[<<j, d>>] \in Nat
      /\ scored = {} /\ monitor \in Monitors
  BY <1>3 DEF MonitorInit
<1>5. SignalTypes
  BY <1>1, <1>3 DEF MonitorInit, SignalTypes
<1>6. \A p \in Sweeps : Place(sweep[p].at, sweep[p].level)
  BY <1>4 DEF Place
<1>7. ASSUME NEW j \in Subjects PROVE Kept(j) /\ NoneOwed(j)
  <2>1. Alone(j) /\ \A p \in Sweeps : ~ WorksOn(p, j)
    BY <1>4 DEF Alone, WorksOn
  <2>2. Backed(j)
    BY <1>4 DEF Backed, TaskOf
  <2>3. Once(j)
    BY <1>4 DEF Once
  <2>4. NoneOwed(j)
    BY <1>4 DEF NoneOwed
  <2>5. QED
    BY <2>1, <2>2, <2>3, <2>4 DEF Kept
<1>8. QED
  BY <1>5, <1>6, <1>7 DEF SignalIInv

(* Which monitor stands where at which step.                               *)
LEMMA StepAt ==
  ASSUME SignalTypes, NEW p \in Sweeps, Place(sweep[p].at, sweep[p].level)
  PROVE  /\ At(p, "look") => sweep[p].at = 1 /\ monitor \in {RenewalStall, ChurnRisk, Board}
         /\ At(p, "check") => \/ monitor = RenewalStall /\ sweep[p].at = 2
                              \/ monitor = ChurnRisk /\ sweep[p].at = 4
                              \/ monitor \in {Expansion, Surface} /\ sweep[p].at = 1
         /\ At(p, "row") => monitor = ChurnRisk /\ sweep[p].at = 2
         /\ At(p, "insert") => sweep[p].at = InsertAt
         /\ At(p, "alert") => sweep[p].at = AlertAt /\ monitor \in {RenewalStall, ChurnRisk, Board}
<1> DEFINE at == sweep[p].at
<1>1. monitor \in {RenewalStall, ChurnRisk, Expansion, Board, Surface}
  BY MonitorKinds DEF SignalTypes
<1>2. /\ \A n \in 0 .. 2 : n = 0 \/ n = 1 \/ n = 2
      /\ \A n \in 0 .. 3 : n = 0 \/ n = 1 \/ n = 2 \/ n = 3
      /\ \A n \in 0 .. 4 : n = 0 \/ n = 1 \/ n = 2 \/ n = 3 \/ n = 4
      /\ \A n \in 0 .. 5 : n = 0 \/ n = 1 \/ n = 2 \/ n = 3 \/ n = 4 \/ n = 5
  OBVIOUS
<1>3. CASE monitor = RenewalStall
  <2>1. at \in 0 .. 4 /\ InsertAt = 3 /\ AlertAt = 4
    BY <1>3 DEF Place, InsertAt, AlertAt
  <2>2. QED
    BY <1>2, <1>3, <2>1, StepNames, MonitorKinds DEF At
<1>4. CASE monitor = ChurnRisk
  <2>1. at \in 0 .. 5 /\ InsertAt = 5 /\ AlertAt = 3
    BY <1>4, MonitorKinds DEF Place, InsertAt, AlertAt
  <2>2. QED
    BY <1>2, <1>4, <2>1, StepNames, MonitorKinds DEF At
<1>5. CASE monitor \in {Expansion, Surface}
  <2>1. at \in 0 .. 2 /\ InsertAt = 2
    BY <1>5, MonitorKinds DEF Place, InsertAt
  <2>2. QED
    BY <1>2, <1>5, <2>1, StepNames, MonitorKinds DEF At
<1>6. CASE monitor = Board
  <2>1. at \in 0 .. 3 /\ InsertAt = 2 /\ AlertAt = 3
    BY <1>6, MonitorKinds DEF Place, InsertAt, AlertAt
  <2>2. QED
    BY <1>2, <1>6, <2>1, StepNames, MonitorKinds DEF At
<1>7. QED
  BY <1>1, <1>3, <1>4, <1>5, <1>6

(* What holds of a subject that nothing is done to still holds.            *)
LEMMA SubjectRests ==
  ASSUME NEW i \in Subjects, monitor' = monitor, tasked'[i] = tasked[i],
         \A d \in Dates : said'[<<i, d>>] = said[<<i, d>>],
         \A d, l : <<i, d, l>> \in scored' <=> <<i, d, l>> \in scored
  PROVE  /\ Backed(i) => Backed(i)'
         /\ Once(i) => Once(i)'
         /\ \A at, now : now \in Dates /\ Fresh(i, at, now) => Fresh(i, at, now)'
         /\ NoneOwed(i) /\ SignalTypes /\ (\A q \in Sweeps, d \in Dates : Pending(q, i, d) => Pending(q, i, d)')
                => NoneOwed(i)'
<1>1. /\ \A d : TaskOf(i, d)' <=> TaskOf(i, d)
      /\ \A d : ScoredOn(i, d)' <=> ScoredOn(i, d)
      /\ \A d : HasTask(i, d)' <=> HasTask(i, d)
  BY DEF TaskOf, ScoredOn, HasTask
<1>2. Backed(i) => Backed(i)'
  BY <1>1 DEF Backed
<1>3. Once(i) => Once(i)'
  BY DEF Once
<1>4. \A at, now : now \in Dates /\ Fresh(i, at, now) => Fresh(i, at, now)'
  BY <1>1 DEF Fresh, InsertAt, AlertAt
<1>5. ASSUME NoneOwed(i), SignalTypes, \A q \in Sweeps, d \in Dates : Pending(q, i, d) => Pending(q, i, d)'
      PROVE  NoneOwed(i)'
  <2>1. \A n \in DOMAIN tasked[i] : tasked[i][n].day \in Dates
    <3>1. tasked[i] \in Seq(Task)
      BY <1>5 DEF SignalTypes
    <3>2. \A n \in DOMAIN tasked[i] : tasked[i][n] \in Task
      BY <3>1
    <3>3. QED
      BY <3>2 DEF Task
  <2>2. ASSUME NEW d \in Dates, <<i, d, "loud">> \in scored'
        PROVE  \/ said'[<<i, d>>] = 1 /\ TaskOf(i, d)'
               \/ \E q \in Sweeps : Pending(q, i, d)'
    BY <1>1, <1>5, <2>2 DEF NoneOwed
  <2>3. ASSUME monitor \in {RenewalStall, Board}, NEW n \in DOMAIN tasked[i], tasked[i][n].level = "loud"
        PROVE  \/ said'[<<i, tasked[i][n].day>>] = 1
               \/ \E q \in Sweeps : Pending(q, i, tasked[i][n].day)'
    <3>1. PICK d \in Dates : d = tasked[i][n].day
      BY <2>1
    <3>2. said[<<i, d>>] = 1 \/ \E q \in Sweeps : Pending(q, i, d)
      BY <1>5, <2>3, <3>1 DEF NoneOwed
    <3>3. said'[<<i, d>>] = 1 \/ \E q \in Sweeps : Pending(q, i, d)'
      BY <1>5, <3>2
    <3>4. QED
      BY <3>1, <3>3 DEF Pending, WorksOn, AlertAt
  <2>4. QED
    BY <2>2, <2>3 DEF NoneOwed, Pending, WorksOn, AlertAt, TaskOf
<1>6. QED
  BY <1>2, <1>3, <1>4, <1>5

(* A sweep's step: only its own row changes, and it keeps its subject and  *)
(* its date.                                                               *)
Moves(p, at, level) ==
    /\ sweep' \in [Sweeps -> SweepRow]
    /\ \A q \in Sweeps \ {p} : sweep'[q] = sweep[q]
    /\ sweep'[p].at = at /\ sweep'[p].level = level
    /\ at # 0 => /\ sweep'[p].subject = sweep[p].subject /\ sweep'[p].now = sweep[p].now
                 /\ sweep[p].marked => sweep'[p].marked

LEMMA GoesOn ==
  ASSUME SignalTypes, NEW p \in Sweeps, NEW level \in Levels, NEW at \in 0 .. 5,
         at = NextStep(sweep[p].at + 1, level)
  PROVE  /\ GoOn(p, level, FALSE) => Moves(p, at, level)
         /\ GoOn(p, level, TRUE) => Moves(p, at, level) /\ sweep'[p].marked
<1>1. sweep[p] \in SweepRow /\ sweep \in [Sweeps -> SweepRow]
  BY DEF SignalTypes
<1>2. ASSUME NEW marks \in BOOLEAN, GoOn(p, level, marks)
      PROVE  Moves(p, at, level) /\ (marks => sweep'[p].marked)
  <2> DEFINE job == [sweep[p] EXCEPT !.at = at, !.level = level, !.marked = sweep[p].marked \/ marks]
  <2>1. sweep' = [sweep EXCEPT ![p] = job]
    BY <1>1, <1>2 DEF GoOn
  <2>2. job \in SweepRow /\ job.at = at /\ job.level = level /\ job.subject = sweep[p].subject
        /\ job.now = sweep[p].now
    BY <1>1 DEF SweepRow
  <2>3. job.marked = (sweep[p].marked \/ marks)
    BY <1>1 DEF SweepRow
  <2> HIDE DEF job
  <2>4. QED
    BY <1>1, <2>1, <2>2, <2>3 DEF Moves
<1>3. QED
  BY <1>2 DEF GoOn

LEMMA GivesUp ==
  ASSUME SignalTypes, NEW p \in Sweeps, NEW at \in 0 .. 5, NEW level, level = sweep[p].level,
         sweep' = [sweep EXCEPT ![p].at = at]
  PROVE  Moves(p, at, level)
<1>1. sweep[p] \in SweepRow /\ sweep \in [Sweeps -> SweepRow]
  BY DEF SignalTypes
<1> DEFINE job == [sweep[p] EXCEPT !.at = at]
<1>2. sweep' = [sweep EXCEPT ![p] = job]
  OBVIOUS
<1>3. job \in SweepRow /\ job.at = at /\ job.level = sweep[p].level /\ job.subject = sweep[p].subject
      /\ job.now = sweep[p].now /\ job.marked = sweep[p].marked
  BY <1>1 DEF SweepRow
<1> HIDE DEF job
<1>4. QED
  BY <1>1, <1>2, <1>3 DEF Moves

(* A sweep that works on a subject moves: every other subject rests.       *)
LEMMA WorkerMoves ==
  ASSUME SignalIInv, NEW p \in Sweeps, sweep[p].at # 0, NEW at \in 0 .. 5, NEW level \in Levels,
         Moves(p, at, level), Place(at, level),
         monitor' = monitor, overtaken' = overtaken, cutOff \subseteq cutOff', SignalTypes',
         NEW i \in Subjects, i = sweep[p].subject,
         \A j \in Subjects \ {i} : tasked'[j] = tasked[j],
         \A j \in Subjects \ {i} : \A d \in Dates : said'[<<j, d>>] = said[<<j, d>>],
         \A j \in Subjects \ {i} : \A d, l : <<j, d, l>> \in scored' <=> <<j, d, l>> \in scored,
         i \notin overtaken =>
            /\ Backed(i)' /\ Once(i)'
            /\ at # 0 => \A now \in Dates : now = sweep[p].now => Fresh(i, at, now)'
            /\ i \notin cutOff' => NoneOwed(i)'
  PROVE  SignalIInv'
<1>1. \A q \in Sweeps : Place(sweep'[q].at, sweep'[q].level)
  BY DEF Moves, SignalIInv
<1>2. \A q \in Sweeps : Place(sweep[q].at, sweep[q].level)'
  BY <1>1 DEF Place
<1>3. ASSUME NEW q \in Sweeps, NEW j \in Subjects, WorksOn(q, j)'
      PROVE  WorksOn(q, j) /\ (q # p => sweep'[q] = sweep[q])
  BY <1>3 DEF WorksOn, Moves
<1>4. \A q \in Sweeps : sweep'[q].now \in Dates /\ sweep'[q].at \in 0 .. 5
  BY DEF SignalTypes, SweepRow
<1>5. ASSUME NEW j \in Subjects \ overtaken' PROVE Kept(j)'
  <2>1. Alone(j) /\ Backed(j) /\ Once(j)
        /\ \A q \in Sweeps : WorksOn(q, j) => Fresh(j, sweep[q].at, sweep[q].now)
    BY DEF SignalIInv, Kept
  <2>2. Alone(j)'
    BY <1>3, <2>1 DEF Alone
  <2>3. CASE j = i
    <3>1. Backed(i)' /\ Once(i)' /\ (at # 0 => \A now \in Dates : now = sweep[p].now => Fresh(i, at, now)')
      BY <2>3
    <3>2. ASSUME NEW q \in Sweeps, WorksOn(q, i)' PROVE Fresh(i, sweep[q].at, sweep[q].now)'
      <4>1. WorksOn(q, i) /\ WorksOn(p, i)
        BY <1>3, <3>2 DEF WorksOn
      <4>2. q = p
        BY <2>1, <2>3, <4>1 DEF Alone
      <4>3. at # 0 /\ sweep'[p].at = at /\ sweep'[p].now = sweep[p].now
        BY <3>2, <4>2 DEF WorksOn, Moves
      <4>4. PICK now \in Dates : now = sweep'[p].now
        BY <1>4
      <4>5. Fresh(i, at, now)'
        BY <3>1, <4>3, <4>4
      <4>6. QED
        BY <4>2, <4>3, <4>4, <4>5 DEF Fresh, HasTask, TaskOf, InsertAt, AlertAt
    <3>3. QED
      BY <2>2, <2>3, <3>1, <3>2 DEF Kept
  <2>4. CASE j # i
    <3>1. tasked'[j] = tasked[j] /\ (\A d \in Dates : said'[<<j, d>>] = said[<<j, d>>])
          /\ \A d, l : <<j, d, l>> \in scored' <=> <<j, d, l>> \in scored
      BY <2>4
    <3>2. Backed(j)' /\ Once(j)' /\ \A a, now : now \in Dates /\ Fresh(j, a, now) => Fresh(j, a, now)'
      BY <2>1, <3>1, SubjectRests
    <3>3. ASSUME NEW q \in Sweeps, WorksOn(q, j)' PROVE Fresh(j, sweep[q].at, sweep[q].now)'
      <4>1. WorksOn(q, j) /\ sweep'[q] = sweep[q]
        BY <1>3, <2>4, <3>3 DEF WorksOn, Moves
      <4>2. PICK a, now : a = sweep[q].at /\ now = sweep[q].now /\ now \in Dates
        BY <1>4, <4>1
      <4>3. Fresh(j, a, now)
        BY <2>1, <4>1, <4>2
      <4>4. Fresh(j, a, now)'
        BY <3>2, <4>2, <4>3
      <4>5. QED
        BY <4>1, <4>2, <4>4 DEF Fresh, HasTask, TaskOf, InsertAt, AlertAt
    <3>4. QED
      BY <2>2, <3>2, <3>3 DEF Kept
  <2>5. QED
    BY <2>3, <2>4
<1>6. ASSUME NEW j \in Subjects \ overtaken', j \notin cutOff' PROVE NoneOwed(j)'
  <2>1. CASE j = i
    BY <1>6, <2>1
  <2>2. CASE j # i
    <3>1. tasked'[j] = tasked[j] /\ (\A d \in Dates : said'[<<j, d>>] = said[<<j, d>>])
          /\ \A d, l : <<j, d, l>> \in scored' <=> <<j, d, l>> \in scored
      BY <2>2
    <3>2. NoneOwed(j) /\ SignalTypes
      BY <1>6 DEF SignalIInv
    <3>3. ASSUME NEW q \in Sweeps, NEW d \in Dates, Pending(q, j, d) PROVE Pending(q, j, d)'
      <4>1. q # p /\ sweep'[q] = sweep[q]
        BY <2>2, <3>3 DEF Pending, WorksOn, Moves
      <4>2. QED
        BY <3>3, <4>1 DEF Pending, WorksOn, AlertAt
    <3>4. QED
      BY <3>1, <3>2, <3>3, SubjectRests
  <2>3. QED
    BY <2>1, <2>2
<1>7. QED
  BY <1>2, <1>5, <1>6 DEF SignalIInv

(* Nothing that works is touched: the clock, the org, a list of subjects.  *)
LEMMA AllRest ==
  ASSUME SignalIInv, SignalTypes', UNCHANGED <<monitor, tasked, scored, said, overtaken, cutOff>>,
         \A q \in Sweeps : /\ sweep'[q].at = sweep[q].at
                           /\ sweep[q].at # 0 => sweep'[q] = sweep[q]
  PROVE  SignalIInv'
<1>1. \A q \in Sweeps : Place(sweep[q].at, sweep[q].level)'
  <2>1. ASSUME NEW q \in Sweeps PROVE Place(sweep'[q].at, sweep'[q].level)
    <3>1. CASE sweep[q].at = 0
      BY <3>1 DEF Place
    <3>2. CASE sweep[q].at # 0
      BY <3>2 DEF SignalIInv
    <3>3. QED
      BY <3>1, <3>2
  <2>2. QED
    BY <2>1 DEF Place
<1>2. \A q \in Sweeps, j \in Subjects : WorksOn(q, j)' <=> WorksOn(q, j)
  BY DEF WorksOn
<1>3. \A q \in Sweeps, j \in Subjects, d \in Dates : Pending(q, j, d) => Pending(q, j, d)'
  BY DEF Pending, WorksOn, AlertAt
<1>4. ASSUME NEW j \in Subjects \ overtaken' PROVE Kept(j)' /\ (j \notin cutOff' => NoneOwed(j)')
  <2>1. Alone(j) /\ Backed(j) /\ Once(j) /\ SignalTypes /\ (j \notin cutOff => NoneOwed(j))
        /\ \A q \in Sweeps : WorksOn(q, j) => Fresh(j, sweep[q].at, sweep[q].now)
    BY DEF SignalIInv, Kept
  <2>2. Backed(j)' /\ Once(j)' /\ (NoneOwed(j) => NoneOwed(j)')
        /\ \A a, now : now \in Dates /\ Fresh(j, a, now) => Fresh(j, a, now)'
    BY <1>3, <2>1, SubjectRests
  <2>3. Alone(j)'
    BY <1>2, <2>1 DEF Alone
  <2>4. ASSUME NEW q \in Sweeps, WorksOn(q, j)' PROVE Fresh(j, sweep[q].at, sweep[q].now)'
    <3>1. WorksOn(q, j) /\ sweep'[q] = sweep[q]
      BY <1>2, <2>4 DEF WorksOn
    <3>2. PICK a, now : a = sweep[q].at /\ now = sweep[q].now /\ now \in Dates
      BY DEF SignalIInv, SignalTypes, SweepRow
    <3>3. Fresh(j, a, now)'
      BY <2>1, <2>2, <3>1, <3>2
    <3>4. QED
      BY <3>1, <3>2, <3>3 DEF Fresh, HasTask, TaskOf, InsertAt, AlertAt
  <2>5. QED
    BY <2>1, <2>2, <2>3, <2>4 DEF Kept
<1>5. QED
  BY <1>1, <1>4 DEF SignalIInv

(* What a sweep may rely on while no other works on its subject.           *)
LEMMA MayRely ==
  ASSUME SignalIInv, NEW p \in Sweeps, sweep[p].at # 0, NEW i \in Subjects, i = sweep[p].subject,
         NEW now \in Dates, now = sweep[p].now, i \notin overtaken
  PROVE  /\ Backed(i) /\ Once(i) /\ Fresh(i, sweep[p].at, now) /\ (i \notin cutOff => NoneOwed(i))
         /\ \A q \in Sweeps \ {p} : ~ WorksOn(q, i)
         /\ \A q \in Sweeps, d \in Dates : Pending(q, i, d) => q = p /\ d = now
<1>1. WorksOn(p, i) /\ Kept(i) /\ (i \notin cutOff => NoneOwed(i))
  BY DEF WorksOn, SignalIInv
<1>2. \A q \in Sweeps \ {p} : ~ WorksOn(q, i)
  BY <1>1 DEF Kept, Alone
<1>3. QED
  BY <1>1, <1>2 DEF Kept, Pending

LEMMA LookFinds ==
  ASSUME SignalIInv, NEW i \in Subjects, NEW now \in Dates
  PROVE  /\ monitor \in {RenewalStall, ChurnRisk, Expansion} => (HasTask(i, now) <=> TaskOf(i, now))
         /\ monitor = Board => (HasTask(i, now) <=> tasked[i] # <<>>)
         /\ monitor = ChurnRisk => (ScoredOn(i, now) => ScoredToday(i, now))
<1>1. tasked[i] \in Seq(Task) /\ now \in now .. LastDate
  BY DEF SignalIInv, SignalTypes, Dates
<1>2. (\E n \in DOMAIN tasked[i] : TRUE) <=> tasked[i] # <<>>
  <2>1. DOMAIN tasked[i] = 1 .. Len(tasked[i]) /\ Len(tasked[i]) \in Nat
    BY <1>1
  <2>2. tasked[i] # <<>> <=> Len(tasked[i]) # 0
    BY <1>1
  <2>3. Len(tasked[i]) # 0 <=> 1 \in 1 .. Len(tasked[i])
    BY <2>1
  <2>4. QED
    BY <2>1, <2>2, <2>3
<1>3. QED
  BY <1>1, <1>2, MonitorKinds DEF HasTask, TaskOf, ScoredOn, ScoredToday

LEMMA LookLeads ==
  ASSUME SignalIInv, NEW p \in Sweeps, Look(p), NEW i \in Subjects, i = sweep[p].subject,
         NEW now \in Dates, now = sweep[p].now, NEW level \in Levels, level = sweep[p].level
  PROVE  \E at \in 0 .. 5 :
            /\ sweep[p].at # 0 /\ Moves(p, at, level) /\ Place(at, level)
            /\ i \notin overtaken =>
                /\ at # 0 => Fresh(i, at, now)
                /\ monitor = ChurnRisk /\ sweep[p].at \in 3 .. 5 => at = 5
                /\ monitor \in {RenewalStall, Board} => sweep[p].at # AlertAt
<1>1. /\ SignalTypes /\ Place(sweep[p].at, level) /\ sweep[p] \in SweepRow
      /\ sweep[p].at \in 0 .. 5 /\ sweep[p].at # 0
  BY DEF SignalIInv, SignalTypes, SweepRow, Look, At
<1>2. i \notin overtaken => Backed(i) /\ Fresh(i, sweep[p].at, now)
  BY <1>1, MayRely
<1>a. \A at \in 0 .. 5 : GiveUp(p) /\ at = 0 => Moves(p, at, level)
  BY <1>1, GivesUp DEF GiveUp
<1>b. \A at \in 0 .. 5 : GoOn(p, level, FALSE) /\ at = NextStep(sweep[p].at + 1, level) => Moves(p, at, level)
  BY <1>1, GoesOn
<1>c. 0 \in 0 .. 5 /\ 2 \in 0 .. 5 /\ 3 \in 0 .. 5 /\ 4 \in 0 .. 5 /\ 5 \in 0 .. 5
  OBVIOUS
<1>3. CASE monitor = RenewalStall /\ sweep[p].at = 1
  <2>1. /\ level = "loud" /\ NextStep(sweep[p].at + 1, level) = 2 /\ InsertAt = 3 /\ AlertAt = 4
        /\ Place(0, level) /\ Place(2, level)
    BY <1>1, <1>3, RenewalSteps, MonitorKinds DEF Place, InsertAt, AlertAt
  <2>2. (HasTask(i, now) /\ GiveUp(p)) \/ (~ HasTask(i, now) /\ GoOn(p, level, FALSE))
    BY <1>3, MonitorKinds, StepNames DEF Look, At
  <2>3. CASE HasTask(i, now) /\ GiveUp(p)
    <3>1. Moves(p, 0, level)
      BY <1>a, <1>c, <2>3
    <3>2. QED
      BY <1>1, <1>3, <2>1, <3>1, MonitorKinds
  <2>4. CASE ~ HasTask(i, now) /\ GoOn(p, level, FALSE)
    <3>1. Moves(p, 2, level)
      BY <1>b, <1>c, <2>1, <2>4
    <3>2. i \notin overtaken => Fresh(i, 2, now)
      BY <1>2, <1>3, <2>1, <2>4, LookFinds, MonitorKinds DEF Fresh, Backed
    <3>3. QED
      BY <1>1, <1>3, <2>1, <3>1, <3>2, MonitorKinds
  <2>5. QED
    BY <2>2, <2>3, <2>4
<1>4. CASE monitor = RenewalStall /\ sweep[p].at = 2
  <2>1. /\ level = "loud" /\ NextStep(sweep[p].at + 1, level) = 3 /\ InsertAt = 3 /\ AlertAt = 4
        /\ Place(3, level) /\ Place(4, level)
    BY <1>1, <1>4, RenewalSteps, MonitorKinds DEF Place, InsertAt, AlertAt
  <2>2. \E n \in 2 .. Len(monitor.steps) : monitor.steps[n] = "alert"
    BY <1>4, StepNames
  <2>3. \/ HasTask(i, now) /\ sweep' = [sweep EXCEPT ![p].at = sweep[p].at + 2]
        \/ ~ HasTask(i, now) /\ GoOn(p, level, FALSE)
    BY <1>4, <2>2, MonitorKinds, StepNames DEF Look, At
  <2>4. CASE HasTask(i, now) /\ sweep' = [sweep EXCEPT ![p].at = sweep[p].at + 2]
    <3>1. Moves(p, 4, level)
      <4>1. PICK at \in 0 .. 5 : at = 4 /\ at = sweep[p].at + 2
        BY <1>4
      <4>2. sweep' = [sweep EXCEPT ![p].at = at]
        BY <2>4, <4>1
      <4>3. QED
        BY <1>1, <4>1, <4>2, GivesUp
    <3>2. i \in overtaken
      BY <1>2, <1>4, <2>1, <2>4 DEF Fresh
    <3>3. QED
      BY <1>1, <2>1, <3>1, <3>2
  <2>5. CASE ~ HasTask(i, now) /\ GoOn(p, level, FALSE)
    <3>1. Moves(p, 3, level)
      BY <1>b, <1>c, <2>1, <2>5
    <3>2. i \notin overtaken => Fresh(i, 3, now)
      BY <1>2, <1>4, <2>1, MonitorKinds DEF Fresh
    <3>3. QED
      BY <1>1, <1>4, <2>1, <3>1, <3>2, MonitorKinds
  <2>6. QED
    BY <2>3, <2>4, <2>5
<1>5. CASE monitor = ChurnRisk /\ sweep[p].at = 1
  <2>1. /\ NextStep(sweep[p].at + 1, level) = 2 /\ InsertAt = 5 /\ AlertAt = 3
        /\ Place(0, level) /\ Place(2, level)
    BY <1>5, <1>1, ChurnSteps, MonitorKinds DEF Place, InsertAt, AlertAt
  <2>2. (ScoredToday(i, now) /\ GiveUp(p)) \/ (~ ScoredToday(i, now) /\ GoOn(p, level, FALSE))
    BY <1>5, MonitorKinds, StepNames DEF Look, At
  <2>3. CASE ScoredToday(i, now) /\ GiveUp(p)
    <3>1. Moves(p, 0, level)
      BY <1>a, <1>c, <2>3
    <3>2. QED
      BY <1>1, <1>5, <2>1, <3>1, MonitorKinds
  <2>4. CASE ~ ScoredToday(i, now) /\ GoOn(p, level, FALSE)
    <3>1. Moves(p, 2, level)
      BY <1>b, <1>c, <2>1, <2>4
    <3>2. i \notin overtaken => Fresh(i, 2, now)
      BY <1>2, <1>5, <2>1, <2>4, LookFinds, MonitorKinds DEF Fresh, Backed
    <3>3. QED
      BY <1>1, <1>5, <2>1, <3>1, <3>2, MonitorKinds
  <2>5. QED
    BY <2>2, <2>3, <2>4
<1>6. CASE monitor = ChurnRisk /\ sweep[p].at = 4
  <2>1. /\ level = "loud" /\ NextStep(sweep[p].at + 1, level) = 5 /\ InsertAt = 5 /\ AlertAt = 3
        /\ Place(0, level) /\ Place(5, level)
    BY <1>6, <1>1, ChurnSteps, MonitorKinds DEF Place, InsertAt, AlertAt
  <2>2. ~ \E n \in 4 .. Len(monitor.steps) : monitor.steps[n] = "alert"
    <3>1. \A n \in 4 .. 5 : n = 4 \/ n = 5
      OBVIOUS
    <3>2. QED
      BY <1>6, <3>1, StepNames
  <2>3. (HasTask(i, now) /\ GiveUp(p)) \/ (~ HasTask(i, now) /\ GoOn(p, level, FALSE))
    BY <1>6, <2>2, MonitorKinds, StepNames DEF Look, At
  <2>4. CASE HasTask(i, now) /\ GiveUp(p)
    <3>1. Moves(p, 0, level)
      BY <1>a, <1>c, <2>4
    <3>2. i \in overtaken
      BY <1>2, <1>6, <2>1, <2>4 DEF Fresh
    <3>3. QED
      BY <1>1, <2>1, <3>1, <3>2
  <2>5. CASE ~ HasTask(i, now) /\ GoOn(p, level, FALSE)
    <3>1. Moves(p, 5, level)
      BY <1>b, <1>c, <2>1, <2>5
    <3>2. i \notin overtaken => Fresh(i, 5, now)
      BY <1>2, <1>6, <2>1, MonitorKinds DEF Fresh
    <3>3. QED
      BY <1>1, <1>6, <2>1, <3>1, <3>2, MonitorKinds
  <2>6. QED
    BY <2>3, <2>4, <2>5
<1>7. CASE monitor \in {Expansion, Surface} /\ sweep[p].at = 1
  <2>1. /\ level = "loud" /\ NextStep(sweep[p].at + 1, level) = 2 /\ InsertAt = 2 /\ AlertAt = 0
        /\ Place(0, level) /\ Place(2, level)
    BY <1>7, <1>1, SilentSteps, MonitorKinds DEF Place, InsertAt, AlertAt
  <2>2. ~ At(p, "look") /\ ~ \E n \in 1 .. Len(monitor.steps) : monitor.steps[n] = "alert"
    <3>1. \A n \in 1 .. 2 : n = 1 \/ n = 2
      OBVIOUS
    <3>2. QED
      BY <1>7, <3>1, StepNames DEF At
  <2>3. (HasTask(i, now) /\ GiveUp(p)) \/ (~ HasTask(i, now) /\ GoOn(p, level, FALSE))
    BY <1>7, <2>2, MonitorKinds DEF Look
  <2>4. CASE HasTask(i, now) /\ GiveUp(p)
    <3>1. Moves(p, 0, level)
      BY <1>a, <1>c, <2>4
    <3>2. QED
      BY <1>1, <1>7, <2>1, <3>1, MonitorKinds
  <2>5. CASE ~ HasTask(i, now) /\ GoOn(p, level, FALSE)
    <3>1. Moves(p, 2, level)
      BY <1>b, <1>c, <2>1, <2>5
    <3>2. i \notin overtaken => Fresh(i, 2, now)
      BY <1>7, <2>1, <2>5, MonitorKinds DEF Fresh
    <3>3. QED
      BY <1>1, <1>7, <2>1, <3>1, <3>2, MonitorKinds
  <2>6. QED
    BY <2>3, <2>4, <2>5
<1>8. CASE monitor = Board /\ sweep[p].at = 1
  <2>1. /\ NextStep(sweep[p].at + 1, level) \in {0, 2} /\ InsertAt = 2 /\ AlertAt = 3
        /\ Place(0, level) /\ (NextStep(sweep[p].at + 1, level) = 2 => Place(2, level))
    BY <1>8, <1>1, BoardSteps, MonitorKinds DEF Place, InsertAt, AlertAt
  <2>2. (HasTask(i, now) /\ GiveUp(p)) \/ (~ HasTask(i, now) /\ GoOn(p, level, FALSE))
    BY <1>8, MonitorKinds, StepNames DEF Look, At
  <2>3. CASE HasTask(i, now) /\ GiveUp(p)
    <3>1. Moves(p, 0, level)
      BY <1>a, <1>c, <2>3
    <3>2. QED
      BY <1>1, <1>8, <2>1, <3>1, MonitorKinds
  <2>4. CASE ~ HasTask(i, now) /\ GoOn(p, level, FALSE)
    <3>1. PICK at \in {0, 2} : at = NextStep(sweep[p].at + 1, level)
      BY <2>1
    <3>2. Moves(p, at, level) /\ Place(at, level) /\ at \in 0 .. 5
      BY <1>1, <1>b, <1>c, <2>1, <2>4, <3>1
    <3>3. i \notin overtaken => Fresh(i, 2, now)
      BY <1>2, <1>8, <2>1, <2>4, LookFinds, MonitorKinds DEF Fresh, Backed
    <3>4. i \notin overtaken => (at # 0 => Fresh(i, at, now))
      BY <3>1, <3>3
    <3>5. QED
      BY <1>1, <1>8, <2>1, <3>2, <3>4, MonitorKinds
  <2>5. QED
    BY <2>2, <2>3, <2>4
<1>9. QED
  <2>1. \/ sweep[p].at = 1 /\ monitor \in {RenewalStall, ChurnRisk, Board}
        \/ monitor = RenewalStall /\ sweep[p].at = 2
        \/ monitor = ChurnRisk /\ sweep[p].at = 4
        \/ monitor \in {Expansion, Surface} /\ sweep[p].at = 1
    BY <1>1, StepAt DEF Look
  <2>2. QED
    BY <2>1, <1>3, <1>4, <1>5, <1>6, <1>7, <1>8

(* The look before anything is done, and the look of the task's insert.    *)
LEMMA LookKeeps == ASSUME SignalIInv, NEW p \in Sweeps, Look(p) PROVE SignalIInv'
<1>1. PICK i \in Subjects, now \in Dates, level \in Levels :
        i = sweep[p].subject /\ now = sweep[p].now /\ level = sweep[p].level
  BY DEF SignalIInv, SignalTypes, SweepRow
<1>2. PICK at \in 0 .. 5 :
        /\ sweep[p].at # 0 /\ Moves(p, at, level) /\ Place(at, level)
        /\ i \notin overtaken =>
            /\ at # 0 => Fresh(i, at, now)
            /\ monitor = ChurnRisk /\ sweep[p].at \in 3 .. 5 => at = 5
            /\ monitor \in {RenewalStall, Board} => sweep[p].at # AlertAt
  BY <1>1, LookLeads
<1>3. UNCHANGED <<monitor, signal, tasked, scored, said, overtaken, cutOff, date>>
  BY DEF Look
<1>4. SignalTypes /\ SignalTypes'
  BY <1>2, <1>3 DEF SignalIInv, SignalTypes, Moves
<1>5. ASSUME i \notin overtaken
      PROVE  /\ Backed(i)' /\ Once(i)' /\ (at # 0 => Fresh(i, at, now)')
             /\ i \notin cutOff' => NoneOwed(i)'
  <2>1. /\ Backed(i) /\ Once(i) /\ (i \notin cutOff => NoneOwed(i))
        /\ \A q \in Sweeps, d \in Dates : Pending(q, i, d) => q = p /\ d = now
    BY <1>1, <1>2, <1>5, MayRely
  <2>2. ASSUME NEW q \in Sweeps, NEW d \in Dates, Pending(q, i, d), monitor \in {RenewalStall, ChurnRisk, Board}
        PROVE  Pending(q, i, d)'
    <3>1. q = p /\ d = now
      BY <2>1, <2>2
    <3>2. monitor = ChurnRisk /\ sweep[p].at \in 3 .. 5 /\ sweep[p].marked
      BY <1>2, <1>5, <2>2, <3>1 DEF Pending
    <3>3. sweep'[p].at = 5 /\ sweep'[p].marked /\ sweep'[p].subject = i /\ sweep'[p].now = now
      BY <1>1, <1>2, <1>5, <3>2 DEF Moves
    <3>4. QED
      BY <1>3, <3>1, <3>2, <3>3 DEF Pending, WorksOn
  <2>3. Backed(i)' /\ Once(i)' /\ \A a, n : n \in Dates /\ Fresh(i, a, n) => Fresh(i, a, n)'
    BY <1>3, <2>1, SubjectRests
  <2>4. CASE monitor \in {RenewalStall, ChurnRisk, Board}
    <3>1. NoneOwed(i) => NoneOwed(i)'
      BY <1>3, <1>4, <2>2, <2>4, SubjectRests
    <3>2. QED
      BY <1>2, <1>3, <1>5, <2>1, <2>3, <3>1
  <2>5. CASE monitor \notin {RenewalStall, ChurnRisk, Board}
    <3>1. NoneOwed(i)'
      BY <1>3, <1>4, <2>5 DEF NoneOwed, SignalTypes
    <3>2. QED
      BY <1>2, <1>5, <2>3, <3>1
  <2>6. QED
    BY <2>4, <2>5
<1>6. QED
  BY <1>1, <1>2, <1>3, <1>4, <1>5, WorkerMoves

(* score_account and _persist.                                             *)
LEMMA ScoreKeeps == ASSUME SignalIInv, NEW p \in Sweeps, Score(p) PROVE SignalIInv'
<1>1. PICK i \in Subjects, now \in Dates, level \in Levels :
        i = sweep[p].subject /\ now = sweep[p].now /\ level = signal[i]
  BY DEF SignalIInv, SignalTypes, SweepRow
<1>2. SignalTypes /\ sweep[p].at # 0 /\ sweep[p].at = 2 /\ monitor = ChurnRisk
  BY StepAt DEF Score, At, SignalIInv
<1>3. PICK at \in 0 .. 5 : /\ at = NextStep(sweep[p].at + 1, level)
                           /\ (level = "loud" /\ at = 3) \/ (level # "loud" /\ at = 0)
  BY <1>2, ChurnSteps
<1>4. Moves(p, at, level) /\ sweep'[p].marked
  BY <1>1, <1>2, <1>3, GoesOn DEF Score
<1>5. UNCHANGED <<monitor, signal, tasked, said, overtaken, cutOff, date>>
      /\ scored' = scored \union {<<i, now, level>>}
  BY <1>1 DEF Score
<1>6. SignalTypes'
  BY <1>1, <1>2, <1>4, <1>5 DEF SignalTypes, Moves
<1>7. Place(at, level)
  BY <1>2, <1>3, MonitorKinds DEF Place
<1>8. \A j \in Subjects \ {i} : \A d, l : <<j, d, l>> \in scored' <=> <<j, d, l>> \in scored
  BY <1>5
<1>9. /\ \A d, l : <<i, d, l>> \in scored => <<i, d, l>> \in scored'
      /\ \A d : <<i, d, "loud">> \in scored' => <<i, d, "loud">> \in scored \/ (d = now /\ level = "loud")
      /\ level = "loud" => <<i, now, "loud">> \in scored'
  BY <1>5
<1>10. ASSUME i \notin overtaken
       PROVE  /\ Backed(i)' /\ Once(i)' /\ (at # 0 => Fresh(i, at, now)')
              /\ i \notin cutOff' => NoneOwed(i)'
  <2>1. /\ Backed(i) /\ Once(i) /\ Fresh(i, 2, now) /\ (i \notin cutOff => NoneOwed(i))
        /\ \A q \in Sweeps, d \in Dates : Pending(q, i, d) => q = p /\ d = now
    BY <1>1, <1>2, <1>10, MayRely
  <2>2. /\ \A d : TaskOf(i, d)' <=> TaskOf(i, d)
        /\ \A d : HasTask(i, d)' <=> HasTask(i, d)
        /\ \A d : ScoredOn(i, d) => ScoredOn(i, d)'
    BY <1>5, <1>9 DEF TaskOf, HasTask, ScoredOn
  <2>3. Backed(i)'
    BY <1>2, <1>5, <2>1, <2>2, MonitorKinds DEF Backed
  <2>4. Once(i)'
    BY <1>5, <2>1 DEF Once
  <2>5. at # 0 => Fresh(i, at, now)'
    <3>1. InsertAt = 5 /\ AlertAt = 3
      BY <1>2, MonitorKinds DEF InsertAt, AlertAt
    <3>2. ~ HasTask(i, now) /\ said[<<i, now>>] = 0
      BY <1>2, <2>1, <3>1, MonitorKinds DEF Fresh
    <3>3. QED
      BY <1>2, <1>3, <1>5, <1>9, <2>2, <3>1, <3>2, MonitorKinds DEF Fresh, InsertAt, AlertAt
  <2>6. ASSUME i \notin cutOff' PROVE NoneOwed(i)'
    <3>1. NoneOwed(i)
      BY <1>5, <2>1, <2>6
    <3>2. \A q \in Sweeps, d \in Dates : ~ Pending(q, i, d)
      BY <1>2, <2>1 DEF Pending
    <3>3. level = "loud" => Pending(p, i, now)'
      BY <1>1, <1>2, <1>3, <1>4, <1>5 DEF Pending, WorksOn, Moves
    <3>4. ASSUME NEW d \in Dates, <<i, d, "loud">> \in scored'
          PROVE  (said'[<<i, d>>] = 1 /\ TaskOf(i, d)') \/ \E q \in Sweeps : Pending(q, i, d)'
      <4>1. CASE <<i, d, "loud">> \in scored
        BY <1>5, <2>2, <3>1, <3>2, <4>1 DEF NoneOwed
      <4>2. CASE d = now /\ level = "loud"
        BY <3>3, <4>2
      <4>3. QED
        BY <1>9, <3>4, <4>1, <4>2
    <3>5. monitor' \notin {RenewalStall, Board}
      BY <1>2, <1>5, MonitorKinds
    <3>6. QED
      BY <3>4, <3>5 DEF NoneOwed
  <2>7. QED
    BY <2>3, <2>4, <2>5, <2>6
<1>11. QED
  BY <1>1, <1>2, <1>4, <1>5, <1>6, <1>7, <1>8, <1>10, WorkerMoves

LEMMA InsertLeads ==
  ASSUME SignalIInv, NEW p \in Sweeps, At(p, "insert"), NEW level \in Levels, level = sweep[p].level
  PROVE  /\ sweep[p].at = InsertAt /\ sweep[p].at # 0
         /\ \E at \in 0 .. 5 :
              /\ at = NextStep(sweep[p].at + 1, level) /\ Place(at, level)
              /\ at = IF monitor \in {RenewalStall, Board} /\ level = "loud" THEN AlertAt ELSE 0
<1>1. /\ SignalTypes /\ Place(sweep[p].at, level) /\ monitor \in {RenewalStall, ChurnRisk, Expansion, Board, Surface}
  BY MonitorKinds DEF SignalIInv, SignalTypes
<1>2. sweep[p].at = InsertAt /\ sweep[p].at # 0
  BY <1>1, StepAt DEF At, SignalIInv
<1>3. CASE monitor = RenewalStall
  <2>1. level = "loud" /\ sweep[p].at = 3 /\ AlertAt = 4 /\ 4 \in 0 .. 5
    BY <1>1, <1>2, <1>3 DEF Place, InsertAt, AlertAt
  <2>2. NextStep(4, level) = 4 /\ Place(4, level) /\ sweep[p].at + 1 = 4
    BY <1>3, <2>1, RenewalSteps, MonitorKinds DEF Place
  <2>3. QED
    BY <1>2, <1>3, <2>1, <2>2
<1>4. CASE monitor = ChurnRisk
  <2>1. level = "loud" /\ sweep[p].at = 5 /\ 0 \in 0 .. 5 /\ monitor \notin {RenewalStall, Board}
    BY <1>1, <1>2, <1>4, MonitorKinds DEF Place, InsertAt
  <2>2. NextStep(6, level) = 0 /\ Place(0, level) /\ sweep[p].at + 1 = 6
    BY <1>4, <2>1, ChurnSteps, MonitorKinds DEF Place
  <2>3. QED
    BY <1>2, <2>1, <2>2
<1>5. CASE monitor \in {Expansion, Surface}
  <2>1. level = "loud" /\ sweep[p].at = 2 /\ 0 \in 0 .. 5 /\ monitor \notin {RenewalStall, Board}
    BY <1>1, <1>2, <1>5, MonitorKinds DEF Place, InsertAt
  <2>2. NextStep(3, level) = 0 /\ Place(0, level) /\ sweep[p].at + 1 = 3
    BY <1>5, <2>1, SilentSteps, MonitorKinds DEF Place
  <2>3. QED
    BY <1>2, <2>1, <2>2
<1>6. CASE monitor = Board
  <2>1. sweep[p].at = 2 /\ 0 \in 0 .. 5 /\ 3 \in 0 .. 5 /\ AlertAt = 3
    BY <1>1, <1>2, <1>6, MonitorKinds DEF InsertAt, AlertAt
  <2>2. /\ NextStep(3, level) = (IF level = "loud" THEN 3 ELSE 0) /\ Place(0, level)
        /\ level = "loud" => Place(3, level)
        /\ sweep[p].at + 1 = 3
    BY <1>6, <2>1, BoardSteps, MonitorKinds DEF Place
  <2>3. CASE level = "loud"
    BY <1>2, <1>6, <2>1, <2>2, <2>3
  <2>4. CASE level # "loud"
    BY <1>2, <1>6, <2>1, <2>2, <2>4
  <2>5. QED
    BY <2>3, <2>4
<1>7. QED
  BY <1>1, <1>3, <1>4, <1>5, <1>6

(* INSERT INTO tasks.                                                      *)
LEMMA InsertKeeps == ASSUME SignalIInv, NEW p \in Sweeps, InsertTask(p) PROVE SignalIInv'
<1>1. PICK i \in Subjects, now \in Dates, level \in Levels :
        i = sweep[p].subject /\ now = sweep[p].now /\ level = sweep[p].level
  BY DEF SignalIInv, SignalTypes, SweepRow
<1>2. SignalTypes /\ sweep[p].at # 0 /\ sweep[p].at = InsertAt
  BY <1>1, InsertLeads DEF InsertTask, SignalIInv
<1>3. PICK at \in 0 .. 5 :
        /\ at = NextStep(sweep[p].at + 1, level) /\ Place(at, level)
        /\ at = IF monitor \in {RenewalStall, Board} /\ level = "loud" THEN AlertAt ELSE 0
  BY <1>1, InsertLeads DEF InsertTask
<1>4. Moves(p, at, level) /\ sweep'[p].marked
  BY <1>1, <1>2, <1>3, GoesOn DEF InsertTask
<1> DEFINE task == [day |-> now, open |-> TRUE, level |-> level]
<1>5. /\ UNCHANGED <<monitor, signal, scored, said, overtaken, cutOff, date>>
      /\ Len(tasked[i]) < MostTasks
      /\ tasked' = [tasked EXCEPT ![i] = Append(tasked[i], task)]
  BY <1>1 DEF InsertTask
<1>6. task \in Task /\ task.day = now /\ task.open /\ task.level = level
  BY DEF Task
<1> HIDE DEF task
<1>7. tasked[i] \in Seq(Task) /\ Len(tasked[i]) \in Nat /\ tasked'[i] = Append(tasked[i], task)
  BY <1>2, <1>5 DEF SignalTypes
<1>8. /\ DOMAIN tasked'[i] = 1 .. (Len(tasked[i]) + 1) /\ DOMAIN tasked[i] = 1 .. Len(tasked[i])
      /\ \A n \in DOMAIN tasked[i] : tasked'[i][n] = tasked[i][n]
      /\ tasked'[i][Len(tasked[i]) + 1] = task
      /\ tasked'[i] # <<>> /\ tasked'[i] \in Seq(Task) /\ Len(tasked'[i]) = Len(tasked[i]) + 1
  BY <1>6, <1>7
<1>9. /\ \A n \in DOMAIN tasked[i] : n \in DOMAIN tasked'[i]
      /\ Len(tasked[i]) + 1 \in DOMAIN tasked'[i]
      /\ \A n \in DOMAIN tasked'[i] : n \in DOMAIN tasked[i] \/ n = Len(tasked[i]) + 1
  BY <1>7, <1>8
<1>10. SignalTypes'
  <2>1. MostTasks \in Nat => Len(tasked'[i]) =< MostTasks
    BY <1>5, <1>7, <1>8
  <2>2. tasked' \in [Subjects -> Seq(Task)]
    BY <1>2, <1>5, <1>7, <1>8 DEF SignalTypes
  <2>3. \A j \in Subjects : Len(tasked'[j]) =< MostTasks
    BY <1>2, <1>5, <2>1, MonitorAssumption DEF SignalTypes, MonitorAssumption
  <2>4. QED
    BY <1>2, <1>4, <1>5, <2>2, <2>3 DEF SignalTypes, Moves
<1>11. ASSUME i \notin overtaken
       PROVE  /\ Backed(i)' /\ Once(i)' /\ (at # 0 => Fresh(i, at, now)')
              /\ i \notin cutOff' => NoneOwed(i)'
  <2>1. /\ Backed(i) /\ Once(i) /\ Fresh(i, InsertAt, now) /\ (i \notin cutOff => NoneOwed(i))
        /\ \A q \in Sweeps, d \in Dates : Pending(q, i, d) => q = p /\ d = now
    <3>1. PICK a : a = sweep[p].at
      OBVIOUS
    <3>2. Fresh(i, a, now)
      BY <1>1, <1>2, <1>11, <3>1, MayRely
    <3>3. QED
      BY <1>1, <1>2, <1>11, <3>1, <3>2, MayRely DEF Fresh, InsertAt
  <2>2. /\ \A d : TaskOf(i, d) => TaskOf(i, d)'
        /\ \A d : TaskOf(i, d)' => TaskOf(i, d) \/ d = now
        /\ TaskOf(i, now)'
    BY <1>6, <1>8, <1>9 DEF TaskOf
  <2>3. ~ HasTask(i, now)
    BY <2>1 DEF Fresh, InsertAt
  <2>4. \A n \in DOMAIN tasked[i] : \/ monitor.daily /\ tasked[i][n].day # now
                                    \/ monitor.openOnly /\ ~ tasked[i][n].open
    BY <2>3 DEF HasTask
  <2>5. Backed(i)'
    <3>1. \A d : ScoredOn(i, d)' <=> ScoredOn(i, d)
      BY <1>5 DEF ScoredOn
    <3>2. monitor = ChurnRisk => ScoredOn(i, now)
      <4>1. monitor = ChurnRisk => <<i, now, "loud">> \in scored
        BY <2>1, MonitorKinds DEF Fresh, InsertAt
      <4>2. QED
        BY <4>1 DEF ScoredOn, Levels
    <3>3. QED
      BY <1>5, <1>8, <2>1, <2>2, <3>1, <3>2 DEF Backed
  <2>6. Once(i)'
    <3>1. \A m, n \in DOMAIN tasked'[i] :
            m # n => \/ monitor.daily /\ tasked'[i][m].day # tasked'[i][n].day
                     \/ monitor.openOnly /\ ~ (tasked'[i][m].open /\ tasked'[i][n].open)
      BY <1>6, <1>8, <1>9, <2>1, <2>4 DEF Once
    <3>2. QED
      BY <1>5, <2>1, <3>1 DEF Once
  <2>7. at # 0 => Fresh(i, at, now)'
    <3>1. CASE monitor = RenewalStall
      <4>1. at # 0 => at = 4
        BY <1>3, <3>1 DEF AlertAt
      <4>2. said[<<i, now>>] = 0
        BY <2>1, <3>1, MonitorKinds DEF Fresh, InsertAt, AlertAt
      <4>3. QED
        BY <1>5, <2>2, <3>1, <4>1, <4>2, MonitorKinds DEF Fresh, InsertAt, AlertAt
    <3>2. CASE monitor = Board
      <4>1. at # 0 => at = 3
        BY <1>3, <3>2, MonitorKinds DEF AlertAt
      <4>2. said[<<i, now>>] = 0 /\ \A d \in Dates : said[<<i, d>>] = 0
        BY <2>1, <3>2, MonitorKinds DEF Fresh, InsertAt, AlertAt
      <4>3. QED
        BY <1>5, <1>8, <3>2, <4>1, <4>2, MonitorKinds DEF Fresh, InsertAt, AlertAt
    <3>3. QED
      BY <1>3, <3>1, <3>2
  <2>8. ASSUME i \notin cutOff' PROVE NoneOwed(i)'
    <3>1. NoneOwed(i)
      BY <1>5, <2>1, <2>8
    <3>2. ASSUME NEW d \in Dates, <<i, d, "loud">> \in scored'
          PROVE  said'[<<i, d>>] = 1 /\ TaskOf(i, d)'
      <4>1. monitor = ChurnRisk /\ <<i, d, "loud">> \in scored
        BY <1>2, <1>5, <3>2 DEF SignalTypes
      <4>2. said[<<i, now>>] = 1
        BY <2>1, <4>1, MonitorKinds DEF Fresh, InsertAt
      <4>3. (said[<<i, d>>] = 1 /\ TaskOf(i, d)) \/ d = now
        BY <2>1, <3>1, <4>1 DEF NoneOwed
      <4>4. QED
        BY <1>5, <2>2, <4>2, <4>3
    <3>3. ASSUME monitor \in {RenewalStall, Board}, NEW n \in DOMAIN tasked'[i], tasked'[i][n].level = "loud"
          PROVE  said'[<<i, tasked'[i][n].day>>] = 1 \/ \E q \in Sweeps : Pending(q, i, tasked[i][n].day)'
      <4>1. InsertAt # AlertAt
        BY <3>3, MonitorKinds DEF InsertAt, AlertAt
      <4>2. CASE n \in DOMAIN tasked[i]
        <5>1. tasked[i][n] \in Task /\ tasked'[i][n] = tasked[i][n]
          BY <1>7, <1>8, <4>2
        <5>2. PICK d \in Dates : d = tasked[i][n].day
          BY <5>1 DEF Task
        <5>3. ~ \E q \in Sweeps : Pending(q, i, d)
          BY <1>2, <2>1, <3>3, <4>1, MonitorKinds DEF Pending
        <5>4. said[<<i, d>>] = 1
          BY <3>1, <3>3, <4>2, <5>1, <5>2, <5>3 DEF NoneOwed
        <5>5. QED
          BY <1>5, <5>1, <5>2, <5>4
      <4>3. CASE n = Len(tasked[i]) + 1
        <5>1. tasked'[i][n] = task /\ level = "loud" /\ at = AlertAt /\ at # 0
          BY <1>3, <1>6, <1>8, <3>3, <4>3, MonitorKinds DEF AlertAt
        <5>2. sweep'[p].at = AlertAt /\ sweep'[p].at # 0 /\ sweep'[p].subject = i /\ sweep'[p].now = now
          BY <1>1, <1>4, <5>1 DEF Moves
        <5>3. Pending(p, i, now)'
          BY <1>4, <1>5, <3>3, <5>2, MonitorKinds DEF Pending, WorksOn, AlertAt
        <5>4. Pending(p, i, tasked[i][n].day)'
          BY <1>6, <5>1, <5>3 DEF Pending, WorksOn, AlertAt
        <5>5. QED
          BY <5>4
      <4>4. QED
        BY <1>9, <3>3, <4>2, <4>3
    <3>4. QED
      BY <1>5, <3>2, <3>3 DEF NoneOwed
  <2>9. QED
    BY <2>5, <2>6, <2>7, <2>8
<1>12. \A j \in Subjects \ {i} : tasked'[j] = tasked[j]
  BY <1>5
<1>13. QED
  BY <1>1, <1>2, <1>3, <1>4, <1>5, <1>10, <1>11, <1>12, WorkerMoves

LEMMA AlertLeads ==
  ASSUME SignalIInv, NEW p \in Sweeps, At(p, "alert"), NEW level \in Levels, level = sweep[p].level
  PROVE  /\ sweep[p].at = AlertAt /\ sweep[p].at # 0 /\ monitor \in {RenewalStall, ChurnRisk, Board}
         /\ \E at \in 0 .. 5 : /\ at = NextStep(sweep[p].at + 1, level) /\ Place(at, level)
                               /\ at = IF monitor = ChurnRisk THEN 4 ELSE 0
<1>1. /\ SignalTypes /\ Place(sweep[p].at, level)
  BY DEF SignalIInv
<1>2. sweep[p].at = AlertAt /\ sweep[p].at # 0 /\ monitor \in {RenewalStall, ChurnRisk, Board}
  BY <1>1, StepAt DEF At, SignalIInv
<1>3. CASE monitor = RenewalStall
  <2>1. level = "loud" /\ sweep[p].at = 4 /\ 0 \in 0 .. 5
    BY <1>1, <1>2, <1>3 DEF Place, AlertAt
  <2>2. NextStep(5, level) = 0 /\ Place(0, level) /\ sweep[p].at + 1 = 5
    BY <1>3, <2>1, RenewalSteps, MonitorKinds DEF Place
  <2>3. QED
    BY <1>2, <1>3, <2>1, <2>2, MonitorKinds
<1>4. CASE monitor = ChurnRisk
  <2>1. sweep[p].at = 3 /\ 4 \in 0 .. 5 /\ level = "loud"
    BY <1>1, <1>2, <1>4, MonitorKinds DEF AlertAt, Place
  <2>2. NextStep(4, level) = 4 /\ Place(4, level) /\ sweep[p].at + 1 = 4
    BY <1>4, <2>1, ChurnSteps, MonitorKinds DEF Place
  <2>3. QED
    BY <1>2, <1>4, <2>1, <2>2
<1>5. CASE monitor = Board
  <2>1. sweep[p].at = 3 /\ 0 \in 0 .. 5
    BY <1>2, <1>5, MonitorKinds DEF AlertAt
  <2>2. NextStep(4, level) = 0 /\ Place(0, level) /\ sweep[p].at + 1 = 4
    BY <1>5, <2>1, BoardSteps, MonitorKinds DEF Place
  <2>3. QED
    BY <1>2, <1>5, <2>1, <2>2, MonitorKinds
<1>6. QED
  BY <1>2, <1>3, <1>4, <1>5

(* The message to the channel.                                             *)
LEMMA AlertKeeps == ASSUME SignalIInv, NEW p \in Sweeps, SendAlert(p) PROVE SignalIInv'
<1>1. PICK i \in Subjects, now \in Dates, level \in Levels :
        i = sweep[p].subject /\ now = sweep[p].now /\ level = sweep[p].level
  BY DEF SignalIInv, SignalTypes, SweepRow
<1>2. SignalTypes /\ sweep[p].at # 0 /\ sweep[p].at = AlertAt
      /\ monitor \in {RenewalStall, ChurnRisk, Board}
  BY <1>1, AlertLeads DEF SendAlert, SignalIInv
<1>3. PICK at \in 0 .. 5 : /\ at = NextStep(sweep[p].at + 1, level) /\ Place(at, level)
                           /\ at = IF monitor = ChurnRisk THEN 4 ELSE 0
  BY <1>1, AlertLeads DEF SendAlert
<1>4. Moves(p, at, level)
  BY <1>1, <1>2, <1>3, GoesOn DEF SendAlert
<1>5. /\ UNCHANGED <<monitor, signal, tasked, scored, overtaken, cutOff, date>>
      /\ said' = [said EXCEPT ![<<i, now>>] = said[<<i, now>>] + 1]
  BY <1>1 DEF SendAlert
<1>6. /\ said'[<<i, now>>] = said[<<i, now>>] + 1 /\ said[<<i, now>>] \in Nat
      /\ \A j \in Subjects, d \in Dates : j # i \/ d # now => said'[<<j, d>>] = said[<<j, d>>]
      /\ \A j \in Subjects, d \in Dates : said[<<j, d>>] \in Nat
  BY <1>2, <1>5 DEF SignalTypes
<1>7. SignalTypes'
  <2>1. said' \in [Subjects \X Dates -> Nat]
    BY <1>2, <1>5, <1>6 DEF SignalTypes
  <2>2. QED
    BY <1>2, <1>4, <1>5, <2>1 DEF SignalTypes, Moves
<1>8. ASSUME i \notin overtaken
      PROVE  /\ Backed(i)' /\ Once(i)' /\ (at # 0 => Fresh(i, at, now)')
             /\ i \notin cutOff' => NoneOwed(i)'
  <2>1. /\ Backed(i) /\ Once(i) /\ Fresh(i, AlertAt, now) /\ (i \notin cutOff => NoneOwed(i))
        /\ \A q \in Sweeps, d \in Dates : Pending(q, i, d) => q = p /\ d = now
    <3>1. PICK a : a = sweep[p].at
      OBVIOUS
    <3>2. Fresh(i, a, now)
      BY <1>1, <1>2, <1>8, <3>1, MayRely
    <3>3. QED
      BY <1>1, <1>2, <1>8, <3>1, <3>2, MayRely DEF Fresh, AlertAt
  <2>2. /\ said[<<i, now>>] = 0 /\ (monitor = Board => \A d \in Dates : said[<<i, d>>] = 0)
        /\ monitor = RenewalStall => TaskOf(i, now)
        /\ monitor = Board => tasked[i] # <<>>
        /\ monitor = ChurnRisk => ~ HasTask(i, now) /\ <<i, now, "loud">> \in scored
    BY <1>2, <2>1, MonitorKinds DEF Fresh, AlertAt, InsertAt
  <2>3. /\ \A d : TaskOf(i, d)' <=> TaskOf(i, d)
        /\ \A d : HasTask(i, d)' <=> HasTask(i, d)
        /\ \A d : ScoredOn(i, d)' <=> ScoredOn(i, d)
    BY <1>5 DEF TaskOf, HasTask, ScoredOn
  <2>4. Backed(i)'
    <3>1. monitor = ChurnRisk => ScoredOn(i, now)
      BY <2>2 DEF ScoredOn, Levels
    <3>2. \A d \in Dates : said'[<<i, d>>] # 0 => said[<<i, d>>] # 0 \/ d = now
      BY <1>6
    <3>3. QED
      BY <1>2, <1>5, <2>1, <2>2, <2>3, <3>1, <3>2, MonitorKinds DEF Backed
  <2>5. Once(i)'
    <3>1. \A d \in Dates : said'[<<i, d>>] =< 1
      BY <1>6, <2>1, <2>2 DEF Once
    <3>2. monitor = Board => \A d, e \in Dates : said'[<<i, d>>] + said'[<<i, e>>] =< 1 \/ d = e
      BY <1>6, <2>2
    <3>3. QED
      BY <1>5, <2>1, <3>1, <3>2 DEF Once
  <2>6. at # 0 => Fresh(i, at, now)'
    <3>1. SUFFICES ASSUME at # 0 PROVE Fresh(i, at, now)'
      OBVIOUS
    <3>2. at = 4 /\ monitor = ChurnRisk
      BY <1>3, <3>1
    <3>3. said'[<<i, now>>] = 1
      BY <1>6, <2>2
    <3>4. QED
      BY <1>5, <2>2, <2>3, <3>2, <3>3, MonitorKinds DEF Fresh, InsertAt, AlertAt
  <2>7. ASSUME i \notin cutOff' PROVE NoneOwed(i)'
    <3>1. NoneOwed(i)
      BY <1>5, <2>1, <2>7
    <3>2. \A d \in Dates : said[<<i, d>>] = 1 \/ d = now => said'[<<i, d>>] = 1
      BY <1>6, <2>2
    <3>3. ASSUME NEW d \in Dates, <<i, d, "loud">> \in scored'
          PROVE  (said'[<<i, d>>] = 1 /\ TaskOf(i, d)') \/ \E q \in Sweeps : Pending(q, i, d)'
      <4>1. monitor = ChurnRisk
        BY <1>2, <1>5, <3>3 DEF SignalTypes
      <4>2. CASE said[<<i, d>>] = 1 /\ TaskOf(i, d)
        BY <2>3, <3>2, <4>2
      <4>3. CASE \E q \in Sweeps : Pending(q, i, d)
        <5>1. Pending(p, i, d) /\ d = now
          BY <2>1, <4>3
        <5>2. Pending(p, i, d)'
          BY <1>1, <1>3, <1>4, <1>5, <4>1, <5>1 DEF Pending, WorksOn, Moves
        <5>3. QED
          BY <5>2
      <4>4. QED
        BY <1>5, <3>1, <3>3, <4>2, <4>3 DEF NoneOwed
    <3>4. ASSUME monitor \in {RenewalStall, Board}, NEW n \in DOMAIN tasked[i], tasked[i][n].level = "loud"
          PROVE  said'[<<i, tasked[i][n].day>>] = 1
      <4>1. tasked[i] \in Seq(Task)
        BY <1>2 DEF SignalTypes
      <4>2. tasked[i][n] \in Task
        BY <4>1
      <4>3. PICK d \in Dates : d = tasked[i][n].day
        BY <4>2 DEF Task
      <4>4. said[<<i, d>>] = 1 \/ \E q \in Sweeps : Pending(q, i, d)
        BY <3>1, <3>4, <4>3 DEF NoneOwed
      <4>5. said'[<<i, d>>] = 1
        BY <2>1, <3>2, <4>4
      <4>6. QED
        BY <4>3, <4>5
    <3>5. QED
      BY <1>5, <3>3, <3>4 DEF NoneOwed
  <2>8. QED
    BY <2>4, <2>5, <2>6, <2>7
<1>9. \A j \in Subjects \ {i} : \A d \in Dates : said'[<<j, d>>] = said[<<j, d>>]
  BY <1>6
<1>10. QED
  BY <1>1, <1>2, <1>3, <1>4, <1>5, <1>7, <1>8, <1>9, WorkerMoves

(* A sweep's process that dies forgets what it was about.                  *)
LEMMA GoesOffDuty ==
  ASSUME SignalTypes, NEW p \in Sweeps, sweep' = [sweep EXCEPT ![p] = OffDuty]
  PROVE  \E at \in 0 .. 5, level \in Levels :
            Moves(p, at, level) /\ Place(at, level) /\ at = 0 /\ sweep'[p].at = 0
<1>1. PICK i \in Subjects : i = CHOOSE j \in Subjects : TRUE
  BY MonitorAssumption DEF MonitorAssumption
<1>2. 0 \in Dates /\ "none" \in Levels /\ 0 \in 0 .. 5
  BY MonitorAssumption DEF MonitorAssumption, Dates, Levels
<1>3. OffDuty \in SweepRow /\ OffDuty.at = 0 /\ OffDuty.level = "none"
  BY <1>1, <1>2 DEF OffDuty, SweepRow
<1>4. PICK at \in 0 .. 5, level \in Levels : at = 0 /\ level = "none"
  BY <1>2
<1>5. Moves(p, at, level) /\ sweep'[p].at = 0
  BY <1>3, <1>4 DEF Moves, SignalTypes
<1>6. Place(at, level)
  BY <1>4 DEF Place
<1>7. QED
  BY <1>4, <1>5, <1>6

LEMMA AlertFailKeeps == ASSUME SignalIInv, NEW p \in Sweeps, AlertFails(p) PROVE SignalIInv'
<1>1. PICK i \in Subjects, now \in Dates, level \in Levels :
        i = sweep[p].subject /\ now = sweep[p].now /\ level = sweep[p].level
  BY DEF SignalIInv, SignalTypes, SweepRow
<1>2. SignalTypes /\ sweep[p].at # 0 /\ monitor \in {RenewalStall, ChurnRisk, Board}
  BY <1>1, AlertLeads DEF AlertFails, SignalIInv
<1>3. PICK at \in 0 .. 5, l \in Levels : Moves(p, at, l) /\ Place(at, l) /\ at = 0
  <2>1. CASE monitor.swallows
    <3>1. monitor = Board /\ GoOn(p, level, FALSE)
      BY <1>1, <1>2, <2>1, MonitorKinds DEF AlertFails
    <3>2. PICK at \in 0 .. 5 : /\ at = NextStep(sweep[p].at + 1, level) /\ Place(at, level) /\ at = 0
      BY <1>1, <3>1, AlertLeads, MonitorKinds DEF AlertFails
    <3>3. Moves(p, at, level)
      BY <1>2, <3>1, <3>2, GoesOn
    <3>4. QED
      BY <3>2, <3>3
  <2>2. CASE ~ monitor.swallows
    BY <1>2, <2>2, GoesOffDuty DEF AlertFails
  <2>3. QED
    BY <2>1, <2>2
<1>4. /\ UNCHANGED <<monitor, signal, tasked, scored, said, overtaken, date>>
      /\ cutOff' = cutOff \union {i}
  BY <1>1 DEF AlertFails
<1>5. SignalTypes'
  BY <1>2, <1>3, <1>4 DEF SignalTypes, Moves
<1>6. i \notin overtaken => Backed(i)' /\ Once(i)'
  <2>1. i \notin overtaken => Backed(i) /\ Once(i)
    BY <1>1, <1>2, MayRely
  <2>2. QED
    BY <1>4, <2>1, SubjectRests
<1>7. i \in cutOff' /\ cutOff \subseteq cutOff'
  BY <1>4
<1>8. QED
  BY <1>1, <1>2, <1>3, <1>4, <1>5, <1>6, <1>7, WorkerMoves

LEMMA KillKeeps == ASSUME SignalIInv, NEW p \in Sweeps, KillSweep(p) PROVE SignalIInv'
<1>1. PICK i \in Subjects, now \in Dates : i = sweep[p].subject /\ now = sweep[p].now
  BY DEF SignalIInv, SignalTypes, SweepRow
<1>2. SignalTypes
  BY DEF SignalIInv
<1>3. PICK at \in 0 .. 5, level \in Levels :
        Moves(p, at, level) /\ Place(at, level) /\ at = 0 /\ sweep'[p].at = 0
  BY <1>2, GoesOffDuty DEF KillSweep
<1>4. UNCHANGED <<monitor, signal, tasked, scored, said, overtaken, date>>
  BY DEF KillSweep
<1>5. SignalTypes'
  BY <1>2, <1>3, <1>4 DEF SignalTypes, Moves
<1>6. CASE sweep[p].at = 0
  <2>1. cutOff' = cutOff
    BY <1>6 DEF KillSweep
  <2>2. \A q \in Sweeps : sweep'[q].at = sweep[q].at /\ (sweep[q].at # 0 => sweep'[q] = sweep[q])
    BY <1>3, <1>6 DEF Moves
  <2>3. QED
    BY <1>4, <1>5, <2>1, <2>2, AllRest
<1>7. CASE sweep[p].at # 0
  <2>1. cutOff \subseteq cutOff' /\ (sweep[p].marked => i \in cutOff')
    BY <1>1, <1>7 DEF KillSweep
  <2>2. ASSUME i \notin overtaken
        PROVE  Backed(i)' /\ Once(i)' /\ (i \notin cutOff' => NoneOwed(i)')
    <3>1. /\ Backed(i) /\ Once(i) /\ (i \notin cutOff => NoneOwed(i))
          /\ \A q \in Sweeps, d \in Dates : Pending(q, i, d) => q = p /\ d = now
      BY <1>1, <1>7, <2>2, MayRely
    <3>2. i \notin cutOff' => \A q \in Sweeps, d \in Dates : ~ Pending(q, i, d)
      BY <2>1, <3>1 DEF Pending
    <3>3. QED
      BY <1>2, <1>4, <2>1, <3>1, <3>2, SubjectRests
  <2>3. QED
    BY <1>1, <1>3, <1>4, <1>5, <1>7, <2>1, <2>2, WorkerMoves
<1>8. QED
  BY <1>6, <1>7

LEMMA StartKeeps == ASSUME SignalIInv, NEW p \in Sweeps, StartSweep(p) PROVE SignalIInv'
<1>1. SignalTypes /\ sweep[p].at = 0
      /\ UNCHANGED <<monitor, signal, tasked, scored, said, overtaken, cutOff, date>>
  BY DEF SignalIInv, StartSweep
<1>2. PICK i \in Subjects : i = CHOOSE j \in Subjects : TRUE
  BY MonitorAssumption DEF MonitorAssumption
<1> DEFINE job == [OffDuty EXCEPT !.todo = Subjects, !.seen = signal, !.now = date]
<1>3. job \in SweepRow /\ job.at = 0
  BY <1>1, <1>2, MonitorAssumption DEF OffDuty, SweepRow, SignalTypes, MonitorAssumption, Dates, Levels
<1>4. sweep' = [sweep EXCEPT ![p] = job]
  BY DEF StartSweep
<1> HIDE DEF job
<1>5. SignalTypes'
  BY <1>1, <1>3, <1>4 DEF SignalTypes
<1>6. \A q \in Sweeps : sweep'[q].at = sweep[q].at /\ (sweep[q].at # 0 => sweep'[q] = sweep[q])
  BY <1>1, <1>3, <1>4 DEF SignalTypes
<1>7. QED
  BY <1>1, <1>5, <1>6, AllRest

LEMMA OrgKeeps == ASSUME SignalIInv, NEW i \in Subjects, NEW level \in Levels, OrgChanges(i, level) PROVE SignalIInv'
<1>1. SignalTypes' /\ UNCHANGED <<monitor, tasked, scored, sweep, said, overtaken, cutOff>>
  BY DEF OrgChanges, SignalIInv, SignalTypes
<1>2. QED
  BY <1>1, AllRest

LEMMA MidnightKeeps == ASSUME SignalIInv, Midnight PROVE SignalIInv'
<1>1. date' \in Dates
  BY MonitorAssumption DEF Midnight, SignalIInv, SignalTypes, MonitorAssumption, Dates
<1>2. SignalTypes' /\ UNCHANGED <<monitor, tasked, scored, sweep, said, overtaken, cutOff>>
  BY <1>1 DEF Midnight, SignalIInv, SignalTypes
<1>3. QED
  BY <1>2, AllRest

LEMMA SignalStutter == SignalIInv /\ UNCHANGED monitorVars => SignalIInv'
<1> SUFFICES ASSUME SignalIInv, UNCHANGED monitorVars PROVE SignalIInv'
  OBVIOUS
<1>1. SignalTypes' /\ UNCHANGED <<monitor, tasked, scored, sweep, said, overtaken, cutOff>>
  BY DEF SignalIInv, SignalTypes, monitorVars
<1>2. QED
  BY <1>1, AllRest

(* The first step of any monitor takes nothing for granted.                *)
LEMMA FirstStep ==
  ASSUME SignalTypes, NEW level \in Levels
  PROVE  \E at \in {0, 1} : at = NextStep(1, level) /\ Place(at, level)
<1>1. monitor \in {RenewalStall, ChurnRisk, Expansion, Board, Surface}
  BY MonitorKinds DEF SignalTypes
<1>2. Place(0, level)
  BY DEF Place
<1>3. CASE monitor = RenewalStall
  BY <1>2, <1>3, RenewalSteps, MonitorKinds DEF Place
<1>4. CASE monitor = ChurnRisk
  BY <1>4, ChurnSteps, MonitorKinds DEF Place
<1>5. CASE monitor \in {Expansion, Surface}
  BY <1>2, <1>5, SilentSteps, MonitorKinds DEF Place
<1>6. CASE monitor = Board
  BY <1>6, BoardSteps, MonitorKinds DEF Place
<1>7. QED
  BY <1>1, <1>3, <1>4, <1>5, <1>6

LEMMA BeginKeeps == ASSUME SignalIInv, NEW p \in Sweeps, NEW i \in Subjects, Begin(p, i) PROVE SignalIInv'
<1>1. /\ SignalTypes /\ sweep[p].at = 0 /\ sweep[p] \in SweepRow
      /\ UNCHANGED <<monitor, signal, tasked, scored, said, cutOff, date>>
      /\ overtaken \subseteq overtaken'
      /\ (\E q \in Sweeps \ {p} : WorksOn(q, i)) => i \in overtaken'
      /\ \A j \in Subjects : j # i /\ j \in overtaken' => j \in overtaken
  BY DEF SignalIInv, SignalTypes, Begin
<1>2. PICK level \in Levels : level = sweep[p].seen[i]
  BY <1>1 DEF SweepRow
<1>3. PICK at \in {0, 1} : at = NextStep(1, level) /\ Place(at, level)
  BY <1>1, FirstStep
<1> DEFINE job == [sweep[p] EXCEPT !.todo = sweep[p].todo \ {i}, !.subject = i, !.marked = FALSE,
                                   !.level = level, !.at = at]
<1>4. job \in SweepRow /\ job.at = at /\ job.subject = i /\ job.level = level
  <2>1. sweep[p].todo \ {i} \in SUBSET Subjects /\ at \in 0 .. 5
    BY <1>1 DEF SweepRow
  <2>2. job \in SweepRow
    BY <1>1, <2>1 DEF SweepRow
  <2>3. QED
    BY <1>1, <2>2 DEF SweepRow
<1>5. sweep' = [sweep EXCEPT ![p] = job]
  BY <1>2, <1>3 DEF Begin
<1> HIDE DEF job
<1>6. /\ sweep' \in [Sweeps -> SweepRow] /\ sweep'[p].at = at /\ sweep'[p].subject = i /\ sweep'[p].level = level
      /\ \A q \in Sweeps \ {p} : sweep'[q] = sweep[q]
  BY <1>1, <1>4, <1>5 DEF SignalTypes
<1>7. SignalTypes'
  BY <1>1, <1>6 DEF SignalTypes
<1>8. \A q \in Sweeps : Place(sweep[q].at, sweep[q].level)'
  <2>1. \A q \in Sweeps : Place(sweep'[q].at, sweep'[q].level)
    BY <1>3, <1>6 DEF SignalIInv
  <2>2. QED
    BY <1>1, <2>1 DEF Place
<1>9. ASSUME NEW j \in Subjects \ overtaken' PROVE Kept(j)' /\ (j \notin cutOff' => NoneOwed(j)')
  <2>1. Alone(j) /\ Backed(j) /\ Once(j) /\ (j \notin cutOff => NoneOwed(j))
        /\ \A q \in Sweeps : WorksOn(q, j) => Fresh(j, sweep[q].at, sweep[q].now)
    BY <1>1, <1>9 DEF SignalIInv, Kept
  <2>2. \A q \in Sweeps, d \in Dates : Pending(q, j, d) => Pending(q, j, d)'
    <3>1. ASSUME NEW q \in Sweeps, NEW d \in Dates, Pending(q, j, d) PROVE Pending(q, j, d)'
      <4>1. sweep'[q] = sweep[q]
        BY <1>1, <1>6, <3>1 DEF Pending, WorksOn
      <4>2. QED
        BY <1>1, <3>1, <4>1 DEF Pending, WorksOn, AlertAt
    <3>2. QED
      BY <3>1
  <2>3. Backed(j)' /\ Once(j)' /\ (NoneOwed(j) => NoneOwed(j)')
        /\ \A a, now : now \in Dates /\ Fresh(j, a, now) => Fresh(j, a, now)'
    BY <1>1, <2>1, <2>2, SubjectRests
  <2>4. \A q \in Sweeps \ {p} : WorksOn(q, j)' <=> WorksOn(q, j)
    BY <1>6 DEF WorksOn
  <2>5. WorksOn(p, j)' => /\ j = i /\ at = 1
                          /\ \A q \in Sweeps \ {p} : ~ WorksOn(q, j)
    BY <1>1, <1>3, <1>6, <1>9 DEF WorksOn
  <2>6. Alone(j)'
    BY <2>1, <2>4, <2>5 DEF Alone
  <2>7. ASSUME NEW q \in Sweeps, WorksOn(q, j)' PROVE Fresh(j, sweep[q].at, sweep[q].now)'
    <3>1. CASE q = p
      <4>1. sweep'[q].at = 1
        BY <1>6, <2>5, <2>7, <3>1
      <4>2. QED
        BY <4>1 DEF Fresh
    <3>2. CASE q # p
      <4>1. WorksOn(q, j) /\ sweep'[q] = sweep[q]
        BY <1>6, <2>4, <2>7, <3>2
      <4>2. PICK a, now : a = sweep[q].at /\ now = sweep[q].now /\ now \in Dates
        BY <1>1 DEF SignalTypes, SweepRow
      <4>3. Fresh(j, a, now)'
        BY <2>1, <2>3, <4>1, <4>2
      <4>4. QED
        BY <4>1, <4>2, <4>3 DEF Fresh, HasTask, TaskOf, InsertAt, AlertAt
    <3>3. QED
      BY <3>1, <3>2
  <2>8. QED
    BY <1>1, <2>1, <2>3, <2>6, <2>7 DEF Kept
<1>10. QED
  BY <1>7, <1>8, <1>9 DEF SignalIInv

(* A person completes a task: it counts no longer as open.                 *)
LEMMA CompleteKeeps ==
  ASSUME SignalIInv, NEW i \in Subjects, NEW n \in DOMAIN tasked[i], CompleteTask(i, n)
  PROVE  SignalIInv'
<1>1. /\ SignalTypes /\ UNCHANGED <<monitor, signal, scored, sweep, said, overtaken, cutOff, date>>
      /\ tasked[i] \in Seq(Task)
  BY DEF SignalIInv, SignalTypes, CompleteTask
<1> DEFINE task == [tasked[i][n] EXCEPT !.open = FALSE]
           list == [tasked[i] EXCEPT ![n] = task]
<1>2. tasked' = [tasked EXCEPT ![i] = list]
  BY DEF CompleteTask
<1>3. tasked[i][n] \in Task
  BY <1>1
<1>4. task \in Task /\ task.day = tasked[i][n].day /\ task.level = tasked[i][n].level /\ ~ task.open
  BY <1>3 DEF Task
<1> HIDE DEF task
<1>5. list \in Seq(Task) /\ Len(list) = Len(tasked[i]) /\ DOMAIN list = DOMAIN tasked[i]
  BY <1>1, <1>4
<1>6. \A m \in DOMAIN tasked[i] : IF m = n THEN list[m] = task ELSE list[m] = tasked[i][m]
  BY <1>1
<1>7. /\ \A m \in DOMAIN tasked[i] : /\ list[m].day = tasked[i][m].day
                                     /\ list[m].level = tasked[i][m].level
                                     /\ list[m].open => tasked[i][m].open
  BY <1>4, <1>6
<1>8. tasked[i] # <<>> => list # <<>>
  BY <1>1, <1>5
<1> HIDE DEF list
<1>9. /\ tasked'[i] = list /\ \A j \in Subjects \ {i} : tasked'[j] = tasked[j]
      /\ tasked' \in [Subjects -> Seq(Task)]
  BY <1>1, <1>2, <1>5 DEF SignalTypes
<1>10. SignalTypes'
  <2>1. \A j \in Subjects : Len(tasked'[j]) =< MostTasks
    <3>1. ASSUME NEW j \in Subjects PROVE Len(tasked'[j]) = Len(tasked[j])
      <4>1. CASE j = i
        BY <1>5, <1>9, <4>1
      <4>2. CASE j # i
        BY <1>9, <4>2
      <4>3. QED
        BY <4>1, <4>2
    <3>2. \A j \in Subjects : Len(tasked[j]) =< MostTasks
      BY <1>1 DEF SignalTypes
    <3>3. QED
      BY <3>1, <3>2
  <2>2. QED
    BY <1>1, <1>9, <2>1 DEF SignalTypes
<1>11. \A q \in Sweeps : Place(sweep[q].at, sweep[q].level)'
  BY <1>1 DEF SignalIInv, Place
<1>12. ASSUME NEW j \in Subjects \ overtaken' PROVE Kept(j)' /\ (j \notin cutOff' => NoneOwed(j)')
  <2>1. Alone(j) /\ Backed(j) /\ Once(j) /\ (j \notin cutOff => NoneOwed(j))
        /\ \A q \in Sweeps : WorksOn(q, j) => Fresh(j, sweep[q].at, sweep[q].now)
    BY <1>1, <1>12 DEF SignalIInv, Kept
  <2>2. /\ DOMAIN tasked'[j] = DOMAIN tasked[j] /\ (tasked[j] # <<>> => tasked'[j] # <<>>)
        /\ \A m \in DOMAIN tasked[j] : /\ tasked'[j][m].day = tasked[j][m].day
                                       /\ tasked'[j][m].level = tasked[j][m].level
                                       /\ tasked'[j][m].open => tasked[j][m].open
    <3>1. CASE j = i
      BY <1>5, <1>7, <1>8, <1>9, <3>1
    <3>2. CASE j # i
      BY <1>9, <3>2
    <3>3. QED
      BY <3>1, <3>2
  <2>3. /\ \A d : TaskOf(j, d)' <=> TaskOf(j, d)
        /\ \A d : HasTask(j, d)' => HasTask(j, d)
        /\ \A d : ScoredOn(j, d)' <=> ScoredOn(j, d)
    BY <1>1, <2>2 DEF TaskOf, HasTask, ScoredOn
  <2>4. Backed(j)'
    BY <1>1, <2>1, <2>2, <2>3 DEF Backed
  <2>5. Once(j)'
    BY <1>1, <2>1, <2>2 DEF Once
  <2>6. Alone(j)'
    BY <1>1, <2>1 DEF Alone, WorksOn
  <2>7. ASSUME NEW q \in Sweeps, WorksOn(q, j)' PROVE Fresh(j, sweep[q].at, sweep[q].now)'
    <3>1. Fresh(j, sweep[q].at, sweep[q].now)
      BY <1>1, <2>1, <2>7 DEF WorksOn
    <3>2. PICK a, now : a = sweep[q].at /\ now = sweep[q].now
      OBVIOUS
    <3>3. Fresh(j, a, now)
      BY <3>1, <3>2
    <3>4. Fresh(j, a, now)'
      BY <1>1, <2>2, <2>3, <3>3 DEF Fresh, InsertAt, AlertAt
    <3>5. QED
      BY <1>1, <3>2, <3>4 DEF Fresh, HasTask, TaskOf, InsertAt, AlertAt
  <2>8. ASSUME NoneOwed(j) PROVE NoneOwed(j)'
    <3>1. \A q \in Sweeps : \A d : Pending(q, j, d)' <=> Pending(q, j, d)
      BY <1>1 DEF Pending, WorksOn, AlertAt
    <3>2. ASSUME monitor \in {RenewalStall, Board}, NEW m \in DOMAIN tasked[j], tasked'[j][m].level = "loud"
          PROVE  \/ said'[<<j, tasked'[j][m].day>>] = 1
                 \/ \E q \in Sweeps : Pending(q, j, tasked[j][m].day)'
      <4>1. PICK d : d = tasked[j][m].day /\ d = tasked'[j][m].day
        BY <2>2
      <4>2. said[<<j, d>>] = 1 \/ \E q \in Sweeps : Pending(q, j, d)
        BY <2>2, <2>8, <3>2, <4>1 DEF NoneOwed
      <4>3. said'[<<j, d>>] = 1 \/ \E q \in Sweeps : Pending(q, j, d)'
        BY <1>1, <3>1, <4>2
      <4>4. QED
        BY <4>1, <4>3 DEF Pending, WorksOn, AlertAt
    <3>3. ASSUME NEW d \in Dates, <<j, d, "loud">> \in scored'
          PROVE  (said'[<<j, d>>] = 1 /\ TaskOf(j, d)') \/ \E q \in Sweeps : Pending(q, j, d)'
      BY <1>1, <2>3, <2>8, <3>1, <3>3 DEF NoneOwed
    <3>4. QED
      BY <1>1, <2>2, <3>2, <3>3 DEF NoneOwed
  <2>9. QED
    BY <1>1, <2>1, <2>4, <2>5, <2>6, <2>7, <2>8 DEF Kept
<1>13. QED
  BY <1>10, <1>11, <1>12 DEF SignalIInv

-----------------------------------------------------------------------------

LEMMA NextSignal == SignalIInv /\ [MonitorNext]_monitorVars => SignalIInv'
<1> SUFFICES ASSUME SignalIInv, MonitorNext PROVE SignalIInv'
  BY SignalStutter
<1>1. CASE Midnight
  BY <1>1, MidnightKeeps
<1>2. CASE \E i \in Subjects : \/ \E n \in DOMAIN tasked[i] : CompleteTask(i, n)
                               \/ \E level \in Levels : OrgChanges(i, level)
  BY <1>2, CompleteKeeps, OrgKeeps
<1>3. CASE \E p \in Sweeps, i \in Subjects : Begin(p, i)
  BY <1>3, BeginKeeps
<1>4. CASE \E p \in Sweeps : \/ StartSweep(p) \/ Look(p) \/ Score(p) \/ InsertTask(p)
                             \/ SendAlert(p) \/ AlertFails(p) \/ KillSweep(p)
  BY <1>4, StartKeeps, LookKeeps, ScoreKeeps, InsertKeeps, AlertKeeps, AlertFailKeeps, KillKeeps
<1>5. QED
  BY <1>1, <1>2, <1>3, <1>4 DEF MonitorNext

(* What the inductive invariant says of the monitors' promise.             *)
LEMMA SignalImplies == SignalIInv => SignalInv
<1> SUFFICES ASSUME SignalIInv PROVE SignalInv
  OBVIOUS
<1>1. SignalTypes /\ \A p \in Sweeps : Place(sweep[p].at, sweep[p].level) /\ sweep[p] \in SweepRow
  BY DEF SignalIInv, SignalTypes
<1>2. ASSUME NEW p \in Sweeps PROVE sweep[p].at \in 0 .. Len(monitor.steps)
  <2>1. Place(sweep[p].at, sweep[p].level)
    BY <1>1
  <2>2. CASE monitor = RenewalStall
    BY <2>1, <2>2, StepNames DEF Place
  <2>3. CASE monitor = ChurnRisk
    BY <2>1, <2>3, StepNames DEF Place
  <2>4. CASE monitor \in {Expansion, Surface}
    BY <2>1, <2>4, StepNames DEF Place
  <2>5. CASE monitor = Board
    BY <2>1, <2>5, StepNames DEF Place
  <2>6. QED
    BY <1>1, <2>2, <2>3, <2>4, <2>5, MonitorKinds DEF SignalTypes
<1>3. MonitorTypeOK
  BY <1>1, <1>2 DEF MonitorTypeOK, SignalTypes, SweepRow
<1>4. EachSignalOnce
  BY DEF EachSignalOnce, SignalIInv, Kept, Once
<1>5. ASSUME NEW i \in Subjects \ (cutOff \union overtaken), \A p \in Sweeps : ~ WorksOn(p, i)
      PROVE  /\ \A d \in Dates : <<i, d, "loud">> \in scored =>
                    said[<<i, d>>] = 1 /\ \E n \in DOMAIN tasked[i] : tasked[i][n].day = d
             /\ monitor \in {RenewalStall, Board} =>
                \A n \in DOMAIN tasked[i] :
                    tasked[i][n].level = "loud" => said[<<i, tasked[i][n].day>>] = 1
  <2>1. NoneOwed(i)
    BY <1>5 DEF SignalIInv
  <2>2. \A p \in Sweeps : \A d : ~ Pending(p, i, d)
    BY <1>5 DEF Pending
  <2>3. ASSUME monitor \in {RenewalStall, Board}, NEW n \in DOMAIN tasked[i], tasked[i][n].level = "loud"
        PROVE  said[<<i, tasked[i][n].day>>] = 1
    <3>1. PICK d : d = tasked[i][n].day
      OBVIOUS
    <3>2. QED
      BY <2>1, <2>2, <2>3, <3>1 DEF NoneOwed
  <2>4. QED
    BY <2>1, <2>2, <2>3 DEF NoneOwed, TaskOf
<1>6. QED
  BY <1>3, <1>4, <1>5 DEF SignalInv, NothingMarkedUnsaid

(* For any of the five monitors, any subjects, sweeps and days: a signal   *)
(* is said once, and what is marked as said was said, unless two sweeps    *)
(* worked on the subject at once, a sweep died behind its mark or Slack    *)
(* failed (run_sweep, poll, scan_slack, surface_task).                     *)
THEOREM SignalHolds == MonitorSpec => []SignalInv
<1>1. MonitorInit => SignalIInv
  BY InitSignal
<1>2. SignalIInv /\ [MonitorNext]_monitorVars => SignalIInv'
  BY NextSignal
<1>3. SignalIInv => SignalInv
  BY SignalImplies
<1>4. QED
  BY <1>1, <1>2, <1>3, PTL DEF MonitorSpec

-----------------------------------------------------------------------------
(* The stall scan *)

StallKeys == Onboardings \X Stages
Records == [Onboardings -> [name : Stages, since : 0 .. LastDay]]
Horizon == LastDay + 2 * ExtendDays + 2

ScanRow ==
    [step : {"idle", "check", "post", "record"}, todo : SUBSET Onboardings,
     seen : Records \union {<<>>}, at : Onboardings]

StallTypes ==
    /\ stage \in Records
    /\ alerts \in [StallKeys -> {NoDay} \union 0 .. Horizon]
    /\ scanner \in [Scanners -> ScanRow]
    /\ \A p \in Scanners : scanner[p].step # "idle" => scanner[p].seen \in Records
    /\ posted \in [StallKeys -> {NoDay} \union 0 .. LastDay]
    /\ promise \in [StallKeys -> {NoDay} \union 0 .. Horizon]
    /\ day \in Days

(* A scan at work on a row of the window: it has looked and not recorded.  *)
AtWork(p, k) == scanner[p].step \in {"post", "record"} /\ Key(p) = k
Unrecorded(p, k) == scanner[p].step = "record" /\ Key(p) = k

PostedBefore == \A k \in StallKeys : posted[k] =< day

(* Where nothing went wrong, the row of the window is as late as the alert *)
(* and the promise, but for the scan that has just posted; and a scan that *)
(* passed the window is alone, and the window is still open.               *)
RowTells(k) ==
    /\ promise[k] =< alerts[k]
    /\ posted[k] =< alerts[k] \/ \E p \in Scanners : Unrecorded(p, k)
    /\ \A p \in Scanners : AtWork(p, k) =>
          /\ day - alerts[k] >= Window
          /\ \A q \in Scanners : AtWork(q, k) => q = p

WindowKept == \A k \in StallKeys : k[1] \notin repeated => RowTells(k)

StallIInv == StallTypes /\ PostedBefore /\ WindowKept /\ AlertsKeepApart

LEMMA StallNumbers ==
  /\ Threshold \in Nat /\ Window \in Nat /\ ExtendDays \in Nat /\ FirstDay \in Nat /\ LastDay \in Nat
  /\ Horizon \in Nat /\ LastDay =< Horizon
  /\ \A d \in Days : d \in Nat /\ d \in 0 .. LastDay /\ d =< LastDay
  BY StallAssumption DEF Horizon, Days

LEMMA NoScanType ==
  NoScan \in ScanRow /\ NoScan.step = "idle"
<1>1. (CHOOSE o \in Onboardings : TRUE) \in Onboardings
  BY StallAssumption
<1>2. QED
  BY <1>1 DEF NoScan, ScanRow

LEMMA InitStall == StallInit => StallIInv
<1> SUFFICES ASSUME StallInit PROVE StallIInv
  OBVIOUS
<1>1. (CHOOSE s \in Stages : TRUE) \in Stages
  BY StallAssumption
<1>2. \A p \in Scanners : scanner[p].step = "idle"
  BY NoScanType DEF StallInit
<1>3. day \in Days /\ day \in Nat /\ 0 \in 0 .. LastDay
  BY StallAssumption DEF StallInit, Days
<1>4. StallTypes
  BY <1>1, <1>2, <1>3, NoScanType DEF StallInit, StallTypes, Records, StallKeys
<1>5. \A k \in StallKeys : posted[k] = NoDay /\ alerts[k] = NoDay /\ promise[k] = NoDay
  BY DEF StallInit, StallKeys
<1>6. PostedBefore /\ WindowKept
  BY <1>2, <1>3, <1>5 DEF PostedBefore, WindowKept, RowTells, AtWork, NoDay
<1>7. QED
  BY <1>4, <1>6 DEF StallInit, StallIInv, AlertsKeepApart

(* What a scan holds is a row of the window.                               *)
LEMMA KeyType ==
  ASSUME StallTypes, NEW p \in Scanners, scanner[p].step # "idle"
  PROVE  /\ scanner[p] \in ScanRow /\ scanner[p].at \in Onboardings /\ scanner[p].seen \in Records
         /\ Key(p) \in StallKeys /\ Key(p)[1] = scanner[p].at
         /\ \A o \in Onboardings : <<o, scanner[p].seen[o].name>> \in StallKeys
  BY DEF StallTypes, ScanRow, Records, Key, StallKeys

LEMMA ScanMoves ==
  ASSUME StallTypes, NEW p \in Scanners, NEW job \in ScanRow,
         job.step # "idle" => job.seen \in Records, scanner' = [scanner EXCEPT ![p] = job]
  PROVE  /\ scanner' \in [Scanners -> ScanRow] /\ scanner'[p] = job
         /\ \A q \in Scanners \ {p} : scanner'[q] = scanner[q]
         /\ \A q \in Scanners : scanner'[q].step # "idle" => scanner'[q].seen \in Records
         /\ \A q \in Scanners \ {p} : \A k : /\ AtWork(q, k)' <=> AtWork(q, k)
                                             /\ Unrecorded(q, k)' <=> Unrecorded(q, k)
<1>1. /\ scanner' \in [Scanners -> ScanRow] /\ scanner'[p] = job
      /\ \A q \in Scanners \ {p} : scanner'[q] = scanner[q]
  BY DEF StallTypes
<1>2. QED
  BY <1>1 DEF StallTypes, AtWork, Unrecorded, Key

(* A scan that is at work on no row before or after its step.              *)
LEMMA ScanRests ==
  ASSUME StallIInv, NEW p \in Scanners, NEW job \in ScanRow,
         job.step # "idle" => job.seen \in Records, scanner' = [scanner EXCEPT ![p] = job],
         job.step \in {"idle", "check"}, repeated \subseteq repeated',
         scanner[p].step = "record" => scanner[p].at \in repeated',
         UNCHANGED <<stage, alerts, posted, promise, broken, woken, day>>
  PROVE  StallIInv'
<1>1. StallTypes
  BY DEF StallIInv
<1>2. /\ scanner' \in [Scanners -> ScanRow] /\ scanner'[p] = job
      /\ \A q \in Scanners : scanner'[q].step # "idle" => scanner'[q].seen \in Records
      /\ \A q \in Scanners \ {p} : \A k : /\ AtWork(q, k)' <=> AtWork(q, k)
                                          /\ Unrecorded(q, k)' <=> Unrecorded(q, k)
  BY <1>1, ScanMoves
<1>3. StallTypes'
  BY <1>1, <1>2 DEF StallTypes
<1>4. \A k : ~ AtWork(p, k)'
  BY <1>2 DEF AtWork
<1>5. \A k \in StallKeys : Unrecorded(p, k) => k[1] \in repeated'
  BY <1>1, KeyType DEF Unrecorded
<1>6. WindowKept'
  <2>1. SUFFICES ASSUME NEW k \in StallKeys, k[1] \notin repeated' PROVE RowTells(k)'
    BY DEF WindowKept
  <2>2. RowTells(k)
    BY <2>1 DEF StallIInv, WindowKept
  <2>3. \A q \in Scanners : /\ AtWork(q, k)' => AtWork(q, k)
                            /\ Unrecorded(q, k) => Unrecorded(q, k)'
    BY <1>2, <1>4, <1>5, <2>1
  <2>4. QED
    BY <2>2, <2>3 DEF RowTells
<1>7. PostedBefore' /\ AlertsKeepApart'
  BY DEF StallIInv, PostedBefore, AlertsKeepApart
<1>8. QED
  BY <1>3, <1>6, <1>7 DEF StallIInv

LEMMA FetchStep ==
  ASSUME StallIInv, NEW p \in Scanners, Fetch(p)
  PROVE  StallIInv'
<1>1. StallTypes /\ scanner[p].step = "idle"
  BY DEF StallIInv, Fetch
<1>2. PICK todo \in SUBSET Onboardings : todo = {o \in Onboardings : Stalled(stage[o])}
  OBVIOUS
<1> DEFINE job == [NoScan EXCEPT !.step = "check", !.seen = stage, !.todo = todo]
<1>3. scanner' = [scanner EXCEPT ![p] = job]
  BY <1>2 DEF Fetch
<1>4. job \in ScanRow /\ job.step = "check" /\ job.seen = stage
  BY <1>1, NoScanType DEF ScanRow, StallTypes
<1> HIDE DEF job
<1>5. job.step # "idle" => job.seen \in Records
  BY <1>1, <1>4 DEF StallTypes
<1>6. UNCHANGED <<stage, alerts, posted, promise, repeated, broken, woken, day>>
  BY DEF Fetch
<1>7. QED
  BY <1>1, <1>3, <1>4, <1>5, <1>6, ScanRests

LEMMA LeaveStep ==
  ASSUME StallIInv, NEW p \in Scanners, FinishScan(p) \/ KillScan(p)
  PROVE  StallIInv'
<1>1. scanner' = [scanner EXCEPT ![p] = NoScan]
  BY DEF FinishScan, KillScan
<1>2. repeated \subseteq repeated' /\ (scanner[p].step = "record" => scanner[p].at \in repeated')
  BY DEF FinishScan, KillScan
<1>3. UNCHANGED <<stage, alerts, posted, promise, broken, woken, day>>
  BY DEF FinishScan, KillScan
<1>4. QED
  BY <1>1, <1>2, <1>3, NoScanType, ScanRests

LEMMA CheckStep ==
  ASSUME StallIInv, NEW p \in Scanners, NEW o \in Onboardings, CheckWindow(p, o)
  PROVE  StallIInv'
<1>1. StallTypes /\ scanner[p] \in ScanRow /\ scanner[p].step = "check" /\ scanner[p].seen \in Records
  BY DEF StallIInv, StallTypes, CheckWindow
<1>2. PICK k \in StallKeys : k = <<o, scanner[p].seen[o].name>>
  BY <1>1, KeyType
<1>3. PICK step \in {"check", "post"} : step = IF RecentlyAlerted(k) THEN "check" ELSE "post"
  OBVIOUS
<1> DEFINE job == [scanner[p] EXCEPT !.todo = scanner[p].todo \ {o}, !.at = o, !.step = step]
<1>4. scanner' = [scanner EXCEPT ![p] = job]
  BY <1>1, <1>2, <1>3 DEF CheckWindow, StallTypes
<1>5. job \in ScanRow /\ job.step = step /\ job.at = o /\ job.seen = scanner[p].seen
  BY <1>1 DEF ScanRow
<1> HIDE DEF job
<1>6. /\ repeated' = IF ~ RecentlyAlerted(k) /\ \E q \in Scanners \ {p} :
                           scanner[q].step \in {"post", "record"} /\ Key(q) = k
                     THEN repeated \union {o} ELSE repeated
      /\ UNCHANGED <<stage, alerts, posted, promise, broken, woken, day>>
  BY <1>2 DEF CheckWindow
<1>7. CASE step = "check"
  <2>1. repeated \subseteq repeated' /\ scanner[p].step # "record"
    BY <1>1, <1>6
  <2>2. QED
    BY <1>1, <1>4, <1>5, <1>6, <1>7, <2>1, ScanRests
<1>8. CASE step = "post"
  <2>1. /\ scanner' \in [Scanners -> ScanRow] /\ scanner'[p] = job
        /\ \A q \in Scanners : scanner'[q].step # "idle" => scanner'[q].seen \in Records
        /\ \A q \in Scanners \ {p} : \A h : /\ AtWork(q, h)' <=> AtWork(q, h)
                                            /\ Unrecorded(q, h)' <=> Unrecorded(q, h)
    BY <1>1, <1>4, <1>5, ScanMoves
  <2>2. StallTypes'
    BY <1>1, <1>6, <2>1 DEF StallTypes
  <2>3. \A h : AtWork(p, h)' <=> h = k
    BY <1>2, <1>5, <1>8, <2>1 DEF AtWork, Key
  <2>4. \A h : ~ Unrecorded(p, h) /\ ~ Unrecorded(p, h)'
    BY <1>1, <1>5, <1>8, <2>1 DEF Unrecorded
  <2>5. WindowKept'
    <3>1. SUFFICES ASSUME NEW h \in StallKeys, h[1] \notin repeated' PROVE RowTells(h)'
      BY DEF WindowKept
    <3>2. RowTells(h)
      BY <1>6, <3>1 DEF StallIInv, WindowKept
    <3>3. h = k => /\ day - alerts[k] >= Window
                   /\ \A q \in Scanners \ {p} : ~ AtWork(q, k)
      <4>1. h = k => ~ RecentlyAlerted(k) /\ k[1] = o
        BY <1>2, <1>3, <1>8
      <4>2. day \in Int /\ alerts[k] \in Int /\ Window \in Int
        BY <1>1, StallNumbers DEF StallTypes, NoDay
      <4>3. ~ RecentlyAlerted(k) => day - alerts[k] >= Window
        BY <4>2 DEF RecentlyAlerted
      <4>4. QED
        BY <1>6, <3>1, <4>1, <4>3 DEF AtWork
    <3>4. QED
      BY <1>6, <2>1, <2>3, <2>4, <3>2, <3>3 DEF RowTells
  <2>6. PostedBefore' /\ AlertsKeepApart'
    BY <1>6 DEF StallIInv, PostedBefore, AlertsKeepApart
  <2>7. QED
    BY <2>2, <2>5, <2>6 DEF StallIInv
<1>9. QED
  BY <1>7, <1>8

LEMMA PostStep ==
  ASSUME StallIInv, NEW p \in Scanners, Post(p)
  PROVE  StallIInv'
<1>1. /\ StallTypes /\ scanner[p] \in ScanRow /\ scanner[p].step = "post"
      /\ scanner[p].seen \in Records
  BY DEF StallIInv, StallTypes, Post
<1>2. PICK k \in StallKeys : k = Key(p) /\ k[1] = scanner[p].at
  BY <1>1, KeyType
<1> DEFINE job == [scanner[p] EXCEPT !.step = "record"]
<1>3. scanner' = [scanner EXCEPT ![p] = job]
  BY <1>1 DEF Post, StallTypes
<1>4. job \in ScanRow /\ job.step = "record" /\ job.at = scanner[p].at /\ job.seen = scanner[p].seen
  BY <1>1 DEF ScanRow
<1> HIDE DEF job
<1>5. /\ broken' = IF day - posted[k] < Window THEN broken \union {k[1]} ELSE broken
      /\ woken' = IF day < promise[k] THEN woken \union {k[1]} ELSE woken
      /\ posted' = [posted EXCEPT ![k] = day]
      /\ UNCHANGED <<stage, alerts, promise, repeated, day>>
  BY <1>2 DEF Post
<1>6. /\ scanner' \in [Scanners -> ScanRow] /\ scanner'[p] = job
      /\ \A q \in Scanners : scanner'[q].step # "idle" => scanner'[q].seen \in Records
      /\ \A q \in Scanners \ {p} : \A h : /\ AtWork(q, h)' <=> AtWork(q, h)
                                          /\ Unrecorded(q, h)' <=> Unrecorded(q, h)
  BY <1>1, <1>3, <1>4, ScanMoves
<1>7. /\ day \in Nat /\ day \in 0 .. LastDay /\ Window \in Nat
      /\ \A h \in StallKeys : posted[h] \in Int /\ alerts[h] \in Int /\ promise[h] \in Int
  BY <1>1, StallNumbers DEF StallTypes, NoDay
<1>8. posted' \in [StallKeys -> {NoDay} \union 0 .. LastDay]
  BY <1>1, <1>5, <1>7 DEF StallTypes
<1>9. StallTypes'
  BY <1>1, <1>5, <1>6, <1>8 DEF StallTypes
<1>10. AtWork(p, k) /\ AtWork(p, k)' /\ Unrecorded(p, k)'
  BY <1>1, <1>2, <1>4, <1>6 DEF AtWork, Unrecorded, Key
<1>11. \A h : AtWork(p, h)' <=> AtWork(p, h)
  BY <1>1, <1>4, <1>6 DEF AtWork, Key
<1>12. \A h : ~ Unrecorded(p, h)
  BY <1>1 DEF Unrecorded
<1>13. \A h \in StallKeys : posted'[h] = IF h = k THEN day ELSE posted[h]
  BY <1>1, <1>5 DEF StallTypes
<1>14. PostedBefore'
  BY <1>5, <1>7, <1>13 DEF StallIInv, PostedBefore
<1>15. WindowKept'
  <2>1. SUFFICES ASSUME NEW h \in StallKeys, h[1] \notin repeated PROVE RowTells(h)'
    BY <1>5 DEF WindowKept
  <2>2. RowTells(h)
    BY <2>1 DEF StallIInv, WindowKept
  <2>3. \A q \in Scanners : (AtWork(q, h)' <=> AtWork(q, h)) /\ (Unrecorded(q, h) => Unrecorded(q, h)')
    BY <1>6, <1>11, <1>12
  <2>4. QED
    BY <1>5, <1>10, <1>13, <2>2, <2>3 DEF RowTells
<1>16. AlertsKeepApart'
  <2>1. CASE k[1] \in repeated
    BY <1>5, <2>1 DEF StallIInv, AlertsKeepApart
  <2>2. CASE k[1] \notin repeated
    <3>1. RowTells(k)
      BY <2>2 DEF StallIInv, WindowKept
    <3>2. day - alerts[k] >= Window /\ \A q \in Scanners : AtWork(q, k) => q = p
      BY <1>10, <3>1 DEF RowTells
    <3>3. \A q \in Scanners : ~ Unrecorded(q, k)
      BY <1>12, <3>2 DEF AtWork, Unrecorded
    <3>4. posted[k] =< alerts[k] /\ promise[k] =< alerts[k]
      BY <3>1, <3>3 DEF RowTells
    <3>5. ~ (day - posted[k] < Window) /\ ~ (day < promise[k])
      BY <1>7, <3>2, <3>4
    <3>6. QED
      BY <1>5, <3>5 DEF StallIInv, AlertsKeepApart
  <2>3. QED
    BY <2>1, <2>2
<1>17. QED
  BY <1>9, <1>14, <1>15, <1>16 DEF StallIInv

LEMMA RecordStep ==
  ASSUME StallIInv, NEW p \in Scanners, Record(p)
  PROVE  StallIInv'
<1>1. /\ StallTypes /\ scanner[p] \in ScanRow /\ scanner[p].step = "record"
      /\ scanner[p].seen \in Records
  BY DEF StallIInv, StallTypes, Record
<1>2. PICK k \in StallKeys : k = Key(p) /\ k[1] = scanner[p].at
  BY <1>1, KeyType
<1> DEFINE job == [scanner[p] EXCEPT !.step = "check"]
<1>3. scanner' = [scanner EXCEPT ![p] = job]
  BY <1>1 DEF Record, StallTypes
<1>4. job \in ScanRow /\ job.step = "check" /\ job.seen = scanner[p].seen
  BY <1>1 DEF ScanRow
<1> HIDE DEF job
<1>5. /\ alerts' = [alerts EXCEPT ![k] = day]
      /\ UNCHANGED <<stage, posted, promise, repeated, broken, woken, day>>
  BY <1>2 DEF Record
<1>6. /\ scanner' \in [Scanners -> ScanRow] /\ scanner'[p] = job
      /\ \A q \in Scanners : scanner'[q].step # "idle" => scanner'[q].seen \in Records
      /\ \A q \in Scanners \ {p} : \A h : /\ AtWork(q, h)' <=> AtWork(q, h)
                                          /\ Unrecorded(q, h)' <=> Unrecorded(q, h)
  BY <1>1, <1>3, <1>4, ScanMoves
<1>7. /\ day \in Nat /\ day \in 0 .. Horizon /\ Window \in Nat
      /\ \A h \in StallKeys : posted[h] \in Int /\ alerts[h] \in Int /\ promise[h] \in Int
  BY <1>1, StallNumbers DEF StallTypes, NoDay
<1>8. /\ alerts' \in [StallKeys -> {NoDay} \union 0 .. Horizon]
      /\ \A h \in StallKeys : alerts'[h] = IF h = k THEN day ELSE alerts[h]
  BY <1>1, <1>5, <1>7 DEF StallTypes
<1>9. StallTypes'
  BY <1>1, <1>5, <1>6, <1>8 DEF StallTypes
<1>10. \A h : /\ ~ AtWork(p, h)' /\ ~ Unrecorded(p, h)'
              /\ AtWork(p, h) => h = k
              /\ Unrecorded(p, h) => h = k
  BY <1>2, <1>4, <1>6 DEF AtWork, Unrecorded
<1>11. AtWork(p, k)
  BY <1>1, <1>2 DEF AtWork
<1>12. PostedBefore' /\ AlertsKeepApart'
  BY <1>5 DEF StallIInv, PostedBefore, AlertsKeepApart
<1>13. WindowKept'
  <2>1. SUFFICES ASSUME NEW h \in StallKeys, h[1] \notin repeated PROVE RowTells(h)'
    BY <1>5 DEF WindowKept
  <2>2. RowTells(h)
    BY <2>1 DEF StallIInv, WindowKept
  <2>3. CASE h = k
    <3>1. day - alerts[k] >= Window /\ \A q \in Scanners : AtWork(q, k) => q = p
      BY <1>11, <2>2, <2>3 DEF RowTells
    <3>2. promise[k] =< alerts[k] /\ posted[k] =< day
      BY <2>2, <2>3 DEF RowTells, StallIInv, PostedBefore
    <3>3. promise[k] =< day
      BY <1>7, <3>1, <3>2
    <3>4. \A q \in Scanners : ~ AtWork(q, k)'
      BY <1>6, <1>10, <3>1
    <3>5. QED
      BY <1>5, <1>8, <2>3, <3>2, <3>3, <3>4 DEF RowTells
  <2>4. CASE h # k
    <3>1. \A q \in Scanners : /\ AtWork(q, h)' <=> AtWork(q, h)
                              /\ Unrecorded(q, h)' <=> Unrecorded(q, h)
      BY <1>6, <1>10, <2>4
    <3>2. QED
      BY <1>5, <1>8, <2>2, <2>4, <3>1 DEF RowTells
  <2>5. QED
    BY <2>3, <2>4
<1>14. QED
  BY <1>9, <1>12, <1>13 DEF StallIInv

(* The snooze button moves the row and the promise together.               *)
LEMMA ExtendStep ==
  ASSUME StallIInv, NEW o \in Onboardings, Extend(o)
  PROVE  StallIInv'
<1>1. StallTypes
  BY DEF StallIInv
<1>2. PICK until \in AdvanceBusinessDays(day, ExtendDays), rows \in SUBSET StallKeys :
        /\ \A k \in rows : k[1] = o
        /\ alerts' = [k \in StallKeys |-> IF k \in rows THEN until ELSE alerts[k]]
        /\ promise' = [k \in StallKeys |-> IF k \in rows THEN until ELSE promise[k]]
        /\ repeated' = IF \E p \in Scanners : scanner[p].step \in {"post", "record"}
                                              /\ scanner[p].at = o
                       THEN repeated \union {o} ELSE repeated
        /\ UNCHANGED <<stage, scanner, posted, broken, woken, day>>
  <2>1. DOMAIN alerts = StallKeys
    BY <1>1 DEF StallTypes
  <2>2. PICK rows : rows = {k \in DOMAIN alerts : k[1] = o /\ alerts[k] # NoDay}
    OBVIOUS
  <2>3. rows \in SUBSET StallKeys /\ \A k \in rows : k[1] = o
    BY <2>1, <2>2
  <2>4. QED
    BY <2>1, <2>2, <2>3 DEF Extend
<1>3. /\ day \in Nat /\ day =< LastDay /\ ExtendDays \in Nat /\ LastDay \in Nat
      /\ \A h \in StallKeys : posted[h] \in Int /\ alerts[h] \in Int /\ promise[h] \in Int
  BY <1>1, StallNumbers DEF StallTypes, NoDay
<1>4. until \in day .. day + 2 * ExtendDays + 2
  BY DEF AdvanceBusinessDays
<1>5. until \in 0 .. Horizon /\ day =< until
  BY <1>3, <1>4 DEF Horizon
<1>6. StallTypes'
  BY <1>1, <1>2, <1>5 DEF StallTypes
<1>7. PostedBefore' /\ AlertsKeepApart'
  BY <1>2 DEF StallIInv, PostedBefore, AlertsKeepApart
<1>8. \A p \in Scanners : \A k : /\ AtWork(p, k)' <=> AtWork(p, k)
                                 /\ Unrecorded(p, k)' <=> Unrecorded(p, k)
  BY <1>2 DEF AtWork, Unrecorded, Key
<1>9. WindowKept'
  <2>1. SUFFICES ASSUME NEW h \in StallKeys, h[1] \notin repeated' PROVE RowTells(h)'
    BY DEF WindowKept
  <2>2. h[1] \notin repeated
    BY <1>2, <2>1
  <2>3. RowTells(h)
    BY <2>2 DEF StallIInv, WindowKept
  <2>4. CASE h \in rows
    <3>1. h[1] = o /\ alerts'[h] = until /\ promise'[h] = until
      BY <1>2, <2>4
    <3>2. \A p \in Scanners : ~ AtWork(p, h)
      <4>1. \A p \in Scanners : ~ (scanner[p].step \in {"post", "record"} /\ scanner[p].at = o)
        BY <1>2, <2>1, <3>1
      <4>2. \A p \in Scanners : AtWork(p, h) => scanner[p].at = o
        BY <3>1 DEF AtWork, Key
      <4>3. QED
        BY <4>1, <4>2 DEF AtWork
    <3>3. posted[h] =< until
      BY <1>3, <1>5 DEF StallIInv, PostedBefore
    <3>4. until =< until
      BY <1>5
    <3>5. QED
      BY <1>2, <1>8, <3>1, <3>2, <3>3, <3>4 DEF RowTells
  <2>5. CASE h \notin rows
    <3>1. alerts'[h] = alerts[h] /\ promise'[h] = promise[h]
      BY <1>2, <2>5
    <3>2. QED
      BY <1>2, <1>8, <2>3, <3>1 DEF RowTells
  <2>6. QED
    BY <2>4, <2>5
<1>10. QED
  BY <1>6, <1>7, <1>9 DEF StallIInv

LEMMA AdvanceStep ==
  ASSUME StallIInv, NEW o \in Onboardings, NEW s \in Stages, Advance(o, s)
  PROVE  StallIInv'
<1>1. /\ stage' = [stage EXCEPT ![o] = [name |-> s, since |-> day]]
      /\ UNCHANGED <<alerts, scanner, posted, promise, repeated, broken, woken, day>>
  BY DEF Advance
<1>2. StallTypes /\ day \in 0 .. LastDay
  BY StallNumbers DEF StallIInv, StallTypes
<1>3. stage' \in Records
  BY <1>1, <1>2 DEF StallTypes, Records
<1>4. StallTypes'
  BY <1>1, <1>2, <1>3 DEF StallTypes
<1>5. QED
  BY <1>1, <1>4 DEF StallIInv, PostedBefore, WindowKept, RowTells, AtWork, Unrecorded, Key,
                    AlertsKeepApart

(* The day ends when no scan is at work.                                   *)
LEMMA NextDayStep ==
  ASSUME StallIInv, NextDay
  PROVE  StallIInv'
<1>1. /\ StallTypes /\ day < LastDay /\ day' = day + 1 /\ \A p \in Scanners : scanner[p].step = "idle"
      /\ UNCHANGED <<stage, alerts, scanner, posted, promise, repeated, broken, woken>>
  BY DEF StallIInv, NextDay
<1>2. /\ day \in Nat /\ day \in Days /\ LastDay \in Nat /\ FirstDay \in Nat
      /\ \A h \in StallKeys : posted[h] \in Int
  BY <1>1, StallNumbers DEF StallTypes, NoDay
<1>3. day' \in Days
  BY <1>1, <1>2 DEF Days
<1>4. StallTypes'
  BY <1>1, <1>3 DEF StallTypes
<1>5. PostedBefore'
  BY <1>1, <1>2 DEF StallIInv, PostedBefore
<1>6. WindowKept'
  <2>1. \A p \in Scanners : \A k : ~ AtWork(p, k)' /\ ~ Unrecorded(p, k)
    BY <1>1 DEF AtWork, Unrecorded
  <2>2. QED
    BY <1>1, <2>1 DEF StallIInv, WindowKept, RowTells
<1>7. QED
  BY <1>1, <1>4, <1>5, <1>6 DEF StallIInv, AlertsKeepApart

LEMMA NextStall == StallIInv /\ [StallNext]_stallVars => StallIInv'
<1> SUFFICES ASSUME StallIInv, [StallNext]_stallVars PROVE StallIInv'
  OBVIOUS
<1>1. CASE UNCHANGED stallVars
  BY <1>1 DEF stallVars, StallIInv, StallTypes, PostedBefore, WindowKept, RowTells, AtWork,
              Unrecorded, Key, AlertsKeepApart
<1>2. QED
  BY <1>1, FetchStep, LeaveStep, CheckStep, PostStep, RecordStep, ExtendStep, AdvanceStep,
     NextDayStep DEF StallNext

(* For any onboardings, stages, scans, window and calendar: an onboarding  *)
(* that stands still is alerted once in the window, and a snoozed one not  *)
(* before the promised day, unless a scan died or was overtaken between    *)
(* its look and its record (scan, _record_alert, handle_extend_3d).        *)
THEOREM StallHolds == StallSpec => []StallInv
<1>1. StallIInv => StallInv
  BY DEF StallIInv, StallTypes, StallInv, StallTypeOK, StallKeys, Records, ScanRow, Horizon
<1>2. QED
  BY <1>1, InitStall, NextStall, PTL DEF StallSpec

-----------------------------------------------------------------------------
(* The drift poll *)

Snapshots == [Watched -> Signatures \union {Unseen}]
DriftRow == [step : {"idle", "describe", "surface"}, prior : Snapshots, current : Snapshots,
             todo : SUBSET Watched]

DriftTypes ==
    /\ signature \in [Watched -> Signatures] /\ file \in Snapshots
    /\ drift \in [Drifters -> DriftRow]
    /\ drifted \subseteq Watched
    /\ shown \subseteq Watched \X Signatures /\ hidden \subseteq Watched \X Signatures
    /\ missed \subseteq Watched \X Signatures

(* Nothing holds a signature the org has not had yet, and a describe finds *)
(* no older one than the poll began with.                                  *)
NotAhead ==
    \A o \in Watched : /\ file[o] =< signature[o]
                       /\ \A p \in Drifters :
                            /\ drift[p].prior[o] =< signature[o]
                            /\ drift[p].current[o] =< signature[o]
                            /\ drift[p].current[o] # Unseen
                                 => drift[p].prior[o] =< drift[p].current[o]

(* A poll has yet to file a task about the change of o to s.               *)
Owed(p, o, s) ==
    /\ drift[p].step = "surface" /\ o \in drift[p].todo
    /\ drift[p].prior[o] < s /\ s =< drift[p].current[o]
Accounted(o, s) ==
    \/ <<o, s>> \in shown \union hidden \union missed
    \/ \E p \in Drifters : Owed(p, o, s)

(* What the file has taken in is accounted for, and so is what a poll that *)
(* is about to compare has for known.                                      *)
TakenIn ==
    \A o \in Watched, s \in Signatures :
        (s =< file[o] \/ \E p \in Drifters : drift[p].step = "describe" /\ s =< drift[p].prior[o])
            => Accounted(o, s)

(* A row says something, and an open task was filed for something.         *)
RowsTell ==
    \A p \in Drifters : drift[p].step = "surface" =>
        \A o \in drift[p].todo : drift[p].prior[o] < drift[p].current[o]
TasksTell == \A o \in drifted : \E c \in shown : c[1] = o

DriftIInv ==
    DriftTypes /\ NotAhead /\ TakenIn /\ RowsTell /\ TasksTell /\ HiddenBehindAnother

LEMMA SnapshotTypes ==
  /\ NoFile \in Snapshots /\ NoDrift \in DriftRow /\ NoDrift.step = "idle"
  /\ NoDrift.current = NoFile /\ NoDrift.prior = NoFile
  /\ \A o \in Watched : NoFile[o] = Unseen
  /\ Signatures \subseteq Nat \ {0} /\ Unseen = 0
<1>1. NoFile \in Snapshots /\ \A o \in Watched : NoFile[o] = Unseen
  BY DEF NoFile, Snapshots
<1>2. QED
  BY <1>1 DEF NoDrift, DriftRow, Signatures, Unseen

\* Which changes lie between two signatures.
LEMMA ChangesAre ==
  ASSUME NEW o \in Watched, NEW a, NEW b
  PROVE  /\ Changes(o, a, b) \subseteq Watched \X Signatures
         /\ \A c \in Changes(o, a, b) : c[1] = o
         /\ \A s \in Signatures : <<o, s>> \in Changes(o, a, b) <=> a < s /\ s =< b
  BY DEF Changes

LEMMA RowsAre ==
  ASSUME DriftTypes, NEW p \in Drifters, NEW o \in Watched
  PROVE  /\ Row(p, o) \subseteq Watched \X Signatures
         /\ \A c \in Row(p, o) : c[1] = o
         /\ \A s \in Signatures :
              <<o, s>> \in Row(p, o) <=> drift[p].prior[o] < s /\ s =< drift[p].current[o]
  BY ChangesAre DEF Row

LEMMA InitDrift == DriftInit => DriftIInv
<1> SUFFICES ASSUME DriftInit PROVE DriftIInv
  OBVIOUS
<1>1. /\ \A p \in Drifters : drift[p] = NoDrift
      /\ \A o \in Watched : signature[o] = 1 /\ file[o] = Unseen
      /\ drifted = {} /\ hidden = {}
  BY SnapshotTypes DEF DriftInit
<1>2. DriftTypes
  BY SnapshotTypes, SignatureAssumption DEF DriftInit, DriftTypes, Signatures
<1>3. NotAhead
  BY <1>1, SnapshotTypes DEF NotAhead
<1>4. TakenIn
  BY <1>1, SnapshotTypes DEF TakenIn
<1>5. RowsTell /\ TasksTell /\ HiddenBehindAnother
  BY <1>1, SnapshotTypes DEF RowsTell, TasksTell, HiddenBehindAnother
<1>6. QED
  BY <1>2, <1>3, <1>4, <1>5 DEF DriftIInv

LEMMA DriftMoves ==
  ASSUME DriftTypes, NEW p \in Drifters, NEW job \in DriftRow, drift' = [drift EXCEPT ![p] = job]
  PROVE  /\ drift' \in [Drifters -> DriftRow] /\ drift'[p] = job
         /\ \A q \in Drifters \ {p} : drift'[q] = drift[q]
  BY DEF DriftTypes

LEMMA DriftNumbers ==
  ASSUME DriftTypes
  PROVE  /\ \A o \in Watched : signature[o] \in Signatures /\ signature[o] \in Nat
                               /\ signature[o] > 0 /\ file[o] \in Nat
         /\ \A p \in Drifters : \A o \in Watched :
               drift[p].prior[o] \in Nat /\ drift[p].current[o] \in Nat
<1>1. \A o \in Watched : signature[o] \in Signatures /\ file[o] \in Signatures \union {Unseen}
  BY DEF DriftTypes, Snapshots
<1>2. \A p \in Drifters : \A o \in Watched : /\ drift[p].prior[o] \in Signatures \union {Unseen}
                                             /\ drift[p].current[o] \in Signatures \union {Unseen}
  BY DEF DriftTypes, DriftRow, Snapshots
<1>3. \A n : n \in Signatures \union {Unseen} => n \in Nat
  BY SnapshotTypes
<1>4. \A n \in Signatures : n \in Nat /\ n > 0
  BY SignatureAssumption DEF SignatureAssumption, Signatures
<1>5. QED
  BY <1>1, <1>2, <1>3, <1>4

(* What was accounted for stays so, as long as the poll that moves leaves  *)
(* nothing that it owed behind.                                            *)
LEMMA AccountsKept ==
  ASSUME DriftTypes, NEW p \in Drifters, NEW job \in DriftRow, drift' = [drift EXCEPT ![p] = job],
         NEW o \in Watched, NEW s \in Signatures, Accounted(o, s),
         shown \subseteq shown', hidden \subseteq hidden', missed \subseteq missed',
         Owed(p, o, s) => Owed(p, o, s)' \/ <<o, s>> \in shown' \union hidden' \union missed'
  PROVE  Accounted(o, s)'
<1>1. drift'[p] = job /\ \A q \in Drifters \ {p} : drift'[q] = drift[q]
  BY DriftMoves
<1>2. CASE <<o, s>> \in shown \union hidden \union missed
  BY <1>2 DEF Accounted
<1>3. CASE Owed(p, o, s)
  BY <1>3 DEF Accounted
<1>4. ASSUME NEW q \in Drifters \ {p}, Owed(q, o, s) PROVE Accounted(o, s)'
  <2>1. Owed(q, o, s)'
    BY <1>1, <1>4 DEF Owed
  <2>2. QED
    BY <2>1 DEF Accounted
<1>5. QED
  BY <1>2, <1>3, <1>4 DEF Accounted

(* A step that neither files nor closes a task.                            *)
LEMMA TasksRest ==
  ASSUME DriftIInv, UNCHANGED <<drifted, shown, hidden>>
  PROVE  TasksTell' /\ HiddenBehindAnother'
  BY DEF DriftIInv, TasksTell, HiddenBehindAnother

LEMMA LoadPriorStep ==
  ASSUME DriftIInv, NEW p \in Drifters, LoadPrior(p)
  PROVE  DriftIInv'
<1>1. /\ DriftTypes /\ drift[p].step = "idle"
      /\ UNCHANGED <<signature, file, drifted, shown, hidden, missed>>
  BY DEF DriftIInv, LoadPrior
<1>2. PICK prior \in {file, NoFile} :
        drift' = [drift EXCEPT ![p] =
                    [step |-> "describe", prior |-> prior, current |-> NoFile, todo |-> Watched]]
  BY DEF LoadPrior
<1> DEFINE job == [step |-> "describe", prior |-> prior, current |-> NoFile, todo |-> Watched]
<1>3. /\ job \in DriftRow /\ job.step = "describe" /\ job.prior = prior
      /\ job.current = NoFile
  BY <1>1, SnapshotTypes DEF DriftRow, DriftTypes
<1> HIDE DEF job
<1>4. /\ drift' \in [Drifters -> DriftRow] /\ drift'[p] = job
      /\ \A q \in Drifters \ {p} : drift'[q] = drift[q]
  BY <1>1, <1>2, <1>3, DriftMoves DEF job
<1>5. DriftTypes'
  BY <1>1, <1>4 DEF DriftTypes
<1>6. \A o \in Watched : /\ prior[o] \in Nat /\ prior[o] =< file[o] /\ file[o] \in Nat
                         /\ file[o] =< signature[o] /\ signature[o] \in Nat
  BY <1>1, SnapshotTypes, DriftNumbers DEF DriftIInv, NotAhead
<1>7. NotAhead'
  <2>1. \A o \in Watched : job.current[o] = Unseen /\ Unseen =< signature[o]
                           /\ job.prior[o] =< signature[o]
    BY <1>1, <1>3, <1>6, SnapshotTypes
  <2>2. QED
    BY <1>1, <1>4, <2>1 DEF DriftIInv, NotAhead
<1>8. TakenIn'
  <2>1. SUFFICES ASSUME NEW o \in Watched, NEW s \in Signatures,
                        \/ s =< file'[o]
                        \/ \E q \in Drifters : drift'[q].step = "describe" /\ s =< drift'[q].prior[o]
                 PROVE  Accounted(o, s)'
    BY DEF TakenIn
  <2>2. s \in Nat
    BY SnapshotTypes
  <2>3. \/ s =< file[o]
        \/ \E q \in Drifters : drift[q].step = "describe" /\ s =< drift[q].prior[o]
    BY <1>1, <1>3, <1>4, <1>6, <2>1, <2>2
  <2>4. Accounted(o, s) /\ ~ Owed(p, o, s)
    BY <1>1, <2>3 DEF DriftIInv, TakenIn, Owed
  <2>5. QED
    BY <1>1, <1>2, <1>3, <2>4, AccountsKept DEF job
<1>9. RowsTell'
  BY <1>3, <1>4 DEF DriftIInv, RowsTell
<1>10. QED
  BY <1>1, <1>5, <1>7, <1>8, <1>9, TasksRest DEF DriftIInv

LEMMA DescribeStep ==
  ASSUME DriftIInv, NEW p \in Drifters, NEW o \in Watched, Describe(p, o)
  PROVE  DriftIInv'
<1>1. /\ DriftTypes /\ drift[p].step = "describe" /\ drift[p] \in DriftRow
      /\ signature[o] \in Signatures
      /\ UNCHANGED <<signature, file, drifted, shown, hidden, missed>>
  BY DEF DriftIInv, DriftTypes, Describe
<1>2. PICK current \in {[drift[p].current EXCEPT ![o] = signature[o]], drift[p].current} :
        drift' = [drift EXCEPT ![p] = [drift[p] EXCEPT !.todo = drift[p].todo \ {o},
                                                       !.current = current]]
  <2>1. drift \in [Drifters -> DriftRow]
    BY <1>1 DEF DriftTypes
  <2>2. CASE drift' = [drift EXCEPT ![p].todo = @ \ {o}, ![p].current[o] = signature[o]]
    BY <1>1, <2>1, <2>2 DEF DriftRow
  <2>3. CASE drift' = [drift EXCEPT ![p].todo = @ \ {o}]
    <3>1. [drift[p] EXCEPT !.todo = drift[p].todo \ {o}, !.current = drift[p].current]
            = [drift[p] EXCEPT !.todo = drift[p].todo \ {o}]
      BY <1>1 DEF DriftRow
    <3>2. QED
      BY <2>1, <2>3, <3>1
  <2>4. QED
    BY <2>2, <2>3 DEF Describe
<1>3. drift[p].current \in Snapshots
  BY <1>1 DEF DriftRow
<1>4. /\ current \in Snapshots
      /\ \A x \in Watched : current[x] = drift[p].current[x] \/ current[x] = signature[x]
  BY <1>1, <1>2, <1>3 DEF Snapshots
<1> DEFINE job == [drift[p] EXCEPT !.todo = drift[p].todo \ {o}, !.current = current]
<1>5. drift' = [drift EXCEPT ![p] = job]
  BY <1>2
<1>6. /\ job \in DriftRow /\ job.step = "describe" /\ job.prior = drift[p].prior
      /\ job.current = current
  BY <1>1, <1>4 DEF DriftRow
<1> HIDE DEF job
<1>7. /\ drift' \in [Drifters -> DriftRow] /\ drift'[p] = job
      /\ \A q \in Drifters \ {p} : drift'[q] = drift[q]
  BY <1>1, <1>5, <1>6, DriftMoves
<1>8. DriftTypes'
  BY <1>1, <1>7 DEF DriftTypes
<1>9. NotAhead'
  <2>1. \A x \in Watched : signature[x] \in Nat
    BY <1>1, DriftNumbers
  <2>2. \A x \in Watched : /\ current[x] =< signature[x]
                           /\ drift[p].prior[x] =< signature[x]
                           /\ current[x] # Unseen => drift[p].prior[x] =< current[x]
    BY <1>4, <2>1 DEF DriftIInv, NotAhead
  <2>3. QED
    BY <1>1, <1>6, <1>7, <2>2 DEF DriftIInv, NotAhead
<1>10. TakenIn'
  <2>1. SUFFICES ASSUME NEW x \in Watched, NEW s \in Signatures,
                        \/ s =< file'[x]
                        \/ \E q \in Drifters : drift'[q].step = "describe" /\ s =< drift'[q].prior[x]
                 PROVE  Accounted(x, s)'
    BY DEF TakenIn
  <2>2. \/ s =< file[x]
        \/ \E q \in Drifters : drift[q].step = "describe" /\ s =< drift[q].prior[x]
    BY <1>1, <1>6, <1>7, <2>1
  <2>3. Accounted(x, s) /\ ~ Owed(p, x, s)
    BY <1>1, <2>2 DEF DriftIInv, TakenIn, Owed
  <2>4. QED
    BY <1>1, <1>5, <1>6, <2>3, AccountsKept
<1>11. RowsTell'
  BY <1>6, <1>7 DEF DriftIInv, RowsTell
<1>12. QED
  BY <1>1, <1>8, <1>9, <1>10, <1>11, TasksRest DEF DriftIInv

(* The save takes in what the describes have found: it is owed a task, or  *)
(* missed with a first look.                                               *)
LEMMA SaveCurrentStep ==
  ASSUME DriftIInv, NEW p \in Drifters, SaveCurrent(p)
  PROVE  DriftIInv'
<1>1. /\ DriftTypes /\ drift[p].step = "describe" /\ drift[p] \in DriftRow
      /\ drift[p].current \in Snapshots /\ drift[p].prior \in Snapshots
      /\ file' = drift[p].current
      /\ UNCHANGED <<signature, drifted, shown, hidden>>
  BY DEF DriftIInv, DriftTypes, DriftRow, SaveCurrent, Saving
<1>2. PICK prior, current : prior = drift[p].prior /\ current = drift[p].current
  OBVIOUS
<1>3. \A x \in Watched : /\ prior[x] \in Nat /\ current[x] \in Nat
                         /\ current[x] # Unseen => prior[x] =< current[x]
  BY <1>1, <1>2, DriftNumbers DEF DriftIInv, NotAhead
<1>4. PICK rows \in SUBSET Watched :
        /\ rows = DriftRows(p)
        /\ \A x \in Watched : x \in rows <=>
              prior[x] # Unseen /\ current[x] # Unseen /\ prior[x] # current[x]
  <2>1. \A x \in Watched : x \in DriftRows(p) <=>
           /\ drift[p].prior[x] # Unseen /\ drift[p].current[x] # Unseen
           /\ drift[p].prior[x] # drift[p].current[x]
    BY DEF DriftRows
  <2>2. DriftRows(p) \in SUBSET Watched
    BY DEF DriftRows
  <2>3. QED
    BY <1>2, <2>1, <2>2
<1> DEFINE job == [drift[p] EXCEPT !.step = "surface", !.todo = rows]
<1>5. drift' = [drift EXCEPT ![p] = job]
  BY <1>1, <1>4 DEF SaveCurrent, DriftTypes
<1>6. /\ job \in DriftRow /\ job.step = "surface" /\ job.todo = rows
      /\ job.current = current /\ job.prior = prior
  BY <1>1, <1>2 DEF DriftRow
<1> HIDE DEF job
<1>7. /\ drift' \in [Drifters -> DriftRow] /\ drift'[p] = job
      /\ \A q \in Drifters \ {p} : drift'[q] = drift[q]
  BY <1>1, <1>5, <1>6, DriftMoves
<1>8. /\ missed \subseteq missed' /\ missed' \subseteq Watched \X Signatures
      /\ \A x \in Watched, s \in Signatures :
            prior[x] = Unseen /\ s =< current[x] => <<x, s>> \in missed'
  <2>1. missed' = missed \union UNION {Row(p, x) : x \in {w \in Watched : prior[w] = Unseen}}
    BY <1>2 DEF SaveCurrent
  <2>2. \A x \in Watched : Row(p, x) \subseteq Watched \X Signatures
    BY <1>1, RowsAre
  <2>3. ASSUME NEW x \in Watched, NEW s \in Signatures, prior[x] = Unseen, s =< current[x]
        PROVE  <<x, s>> \in missed'
    <3>1. Unseen < s
      BY SnapshotTypes
    <3>2. <<x, s>> \in Row(p, x)
      BY <1>1, <1>2, <2>3, <3>1, RowsAre
    <3>3. QED
      BY <2>1, <2>3, <3>2
  <2>4. QED
    BY <1>1, <2>1, <2>2, <2>3 DEF DriftTypes
<1>9. DriftTypes'
  BY <1>1, <1>7, <1>8 DEF DriftTypes
<1>10. NotAhead'
  BY <1>1, <1>2, <1>6, <1>7 DEF DriftIInv, NotAhead
<1>11. TakenIn'
  <2>1. SUFFICES ASSUME NEW x \in Watched, NEW s \in Signatures,
                        \/ s =< file'[x]
                        \/ \E q \in Drifters : drift'[q].step = "describe" /\ s =< drift'[q].prior[x]
                 PROVE  Accounted(x, s)'
    BY DEF TakenIn
  <2>2. s \in Nat /\ s # Unseen
    BY SnapshotTypes
  <2>3. ASSUME \E q \in Drifters : drift[q].step = "describe" /\ s =< drift[q].prior[x]
        PROVE  Accounted(x, s)'
    <3>1. Accounted(x, s) /\ ~ Owed(p, x, s)
      BY <1>1, <2>3 DEF DriftIInv, TakenIn, Owed
    <3>2. QED
      BY <1>1, <1>5, <1>6, <1>8, <3>1, AccountsKept
  <2>4. CASE s =< current[x] /\ prior[x] = Unseen
    BY <1>8, <2>4 DEF Accounted
  <2>5. CASE s =< current[x] /\ prior[x] # Unseen /\ ~ (s =< prior[x])
    <3>1. current[x] # Unseen /\ prior[x] # current[x] /\ prior[x] < s
      BY <1>3, <2>2, <2>5, SnapshotTypes
    <3>2. Owed(p, x, s)'
      BY <1>4, <1>6, <1>7, <2>5, <3>1 DEF Owed
    <3>3. QED
      BY <3>2 DEF Accounted
  <2>6. CASE s =< current[x] /\ s =< prior[x]
    BY <1>1, <1>2, <2>3, <2>6
  <2>7. CASE \E q \in Drifters : drift'[q].step = "describe" /\ s =< drift'[q].prior[x]
    BY <1>6, <1>7, <2>3, <2>7
  <2>8. QED
    BY <1>1, <1>2, <2>1, <2>4, <2>5, <2>6, <2>7
<1>12. RowsTell'
  <2>1. \A x \in rows : prior[x] < current[x]
    BY <1>3, <1>4
  <2>2. QED
    BY <1>6, <1>7, <2>1 DEF DriftIInv, RowsTell
<1>13. QED
  BY <1>1, <1>9, <1>10, <1>11, <1>12, TasksRest DEF DriftIInv

LEMMA SurfaceTaskStep ==
  ASSUME DriftIInv, NEW p \in Drifters, NEW o \in Watched, SurfaceTask(p, o)
  PROVE  DriftIInv'
<1>1. /\ DriftTypes /\ drift[p].step = "surface" /\ drift[p] \in DriftRow
      /\ o \in drift[p].todo
      /\ drifted' = drifted \union {o}
      /\ UNCHANGED <<signature, file, missed>>
  BY DEF DriftIInv, DriftTypes, SurfaceTask
<1>2. /\ shown' = IF o \in drifted THEN shown ELSE shown \union Row(p, o)
      /\ hidden' = IF o \in drifted THEN hidden \union Row(p, o) ELSE hidden
  BY DEF SurfaceTask
<1>3. PICK row : row = Row(p, o) /\ row \subseteq Watched \X Signatures
  BY <1>1, RowsAre
<1> DEFINE job == [drift[p] EXCEPT !.todo = drift[p].todo \ {o}]
<1>4. drift' = [drift EXCEPT ![p] = job]
  BY <1>1 DEF SurfaceTask, DriftTypes
<1>5. /\ job \in DriftRow /\ job.step = "surface" /\ job.todo = drift[p].todo \ {o}
      /\ job.current = drift[p].current /\ job.prior = drift[p].prior
  BY <1>1 DEF DriftRow
<1> HIDE DEF job
<1>6. /\ drift' \in [Drifters -> DriftRow] /\ drift'[p] = job
      /\ \A q \in Drifters \ {p} : drift'[q] = drift[q]
  BY <1>1, <1>4, <1>5, DriftMoves
<1>7. /\ shown \subseteq shown' /\ hidden \subseteq hidden'
      /\ row \subseteq shown' \union hidden'
      /\ shown' \subseteq Watched \X Signatures /\ hidden' \subseteq Watched \X Signatures
  BY <1>1, <1>2, <1>3 DEF DriftTypes
<1>8. DriftTypes'
  BY <1>1, <1>6, <1>7 DEF DriftTypes
<1>9. NotAhead'
  BY <1>1, <1>5, <1>6 DEF DriftIInv, NotAhead
<1>10. TakenIn'
  <2>1. SUFFICES ASSUME NEW x \in Watched, NEW s \in Signatures,
                        \/ s =< file'[x]
                        \/ \E q \in Drifters : drift'[q].step = "describe" /\ s =< drift'[q].prior[x]
                 PROVE  Accounted(x, s)'
    BY DEF TakenIn
  <2>2. \/ s =< file[x]
        \/ \E q \in Drifters : drift[q].step = "describe" /\ s =< drift[q].prior[x]
    BY <1>1, <1>5, <1>6, <2>1
  <2>3. Accounted(x, s)
    BY <2>2 DEF DriftIInv, TakenIn
  <2>4. Owed(p, x, s) => Owed(p, x, s)' \/ <<x, s>> \in shown' \union hidden' \union missed'
    <3>1. CASE x = o /\ Owed(p, x, s)
      <4>1. <<x, s>> \in row
        BY <1>1, <1>3, <3>1, RowsAre DEF Owed
      <4>2. QED
        BY <1>7, <4>1
    <3>2. CASE x # o
      BY <1>5, <1>6, <3>2 DEF Owed
    <3>3. QED
      BY <3>1, <3>2
  <2>5. QED
    BY <1>1, <1>4, <1>5, <1>7, <2>3, <2>4, AccountsKept
<1>11. RowsTell'
  BY <1>1, <1>5, <1>6 DEF DriftIInv, RowsTell
<1>12. ASSUME o \notin drifted PROVE \E c \in shown' : c[1] = o
  <2>1. /\ drift[p].prior[o] < drift[p].current[o] /\ drift[p].current[o] =< drift[p].current[o]
        /\ drift[p].current[o] \in Signatures
    <3>1. drift[p].prior[o] < drift[p].current[o]
      BY <1>1 DEF DriftIInv, RowsTell
    <3>2. drift[p].prior[o] \in Nat /\ drift[p].current[o] \in Nat
      BY <1>1, DriftNumbers
    <3>3. drift[p].current[o] \in Signatures \union {Unseen}
      BY <1>1 DEF DriftRow, Snapshots
    <3>4. QED
      BY <3>1, <3>2, <3>3 DEF Unseen
  <2>2. <<o, drift[p].current[o]>> \in row
    BY <1>1, <1>3, <2>1, RowsAre
  <2>3. <<o, drift[p].current[o]>> \in shown'
    BY <1>2, <1>3, <1>12, <2>2
  <2>4. QED
    BY <2>3
<1>13. TasksTell'
  BY <1>1, <1>7, <1>12 DEF DriftIInv, TasksTell
<1>14. HiddenBehindAnother'
  <2>1. \A c \in row : c[1] = o
    BY <1>1, <1>3, RowsAre
  <2>2. \A c \in hidden : \E earlier \in shown' : earlier[1] = c[1]
    BY <1>7 DEF DriftIInv, HiddenBehindAnother
  <2>3. CASE o \in drifted
    <3>1. \E earlier \in shown' : earlier[1] = o
      BY <1>7, <2>3 DEF DriftIInv, TasksTell
    <3>2. QED
      BY <1>2, <1>3, <2>1, <2>2, <2>3, <3>1 DEF HiddenBehindAnother
  <2>4. CASE o \notin drifted
    BY <1>2, <2>2, <2>4 DEF HiddenBehindAnother
  <2>5. QED
    BY <2>3, <2>4
<1>15. QED
  BY <1>8, <1>9, <1>10, <1>11, <1>13, <1>14 DEF DriftIInv

(* A poll that ends owes nothing; what a killed one owes is missed.        *)
LEMMA LeaveDriftStep ==
  ASSUME DriftIInv, NEW p \in Drifters, EndDriftPoll(p) \/ KillDriftPoll(p)
  PROVE  DriftIInv'
<1>1. /\ DriftTypes /\ drift' = [drift EXCEPT ![p] = NoDrift] /\ drift[p] \in DriftRow
      /\ drift[p].step # "idle"
      /\ UNCHANGED <<signature, drifted, shown, hidden>>
  BY DEF DriftIInv, DriftTypes, EndDriftPoll, KillDriftPoll
<1>2. /\ drift' \in [Drifters -> DriftRow] /\ drift'[p] = NoDrift
      /\ \A q \in Drifters \ {p} : drift'[q] = drift[q]
  BY <1>1, SnapshotTypes, DriftMoves
<1>3. file' \in {file, NoFile}
  BY DEF EndDriftPoll, KillDriftPoll
<1>4. /\ missed \subseteq missed' /\ missed' \subseteq Watched \X Signatures
      /\ \A x \in Watched, s \in Signatures : Owed(p, x, s) => <<x, s>> \in missed'
  <2>1. CASE drift[p].step = "surface" /\ drift[p].todo = {} /\ UNCHANGED missed
    BY <1>1, <2>1 DEF DriftTypes, Owed
  <2>2. CASE drift[p].step # "surface" /\ UNCHANGED missed
    BY <1>1, <2>2 DEF DriftTypes, Owed
  <2>3. CASE missed' = missed \union UNION {Row(p, x) : x \in drift[p].todo}
    <3>1. drift[p].todo \subseteq Watched
      BY <1>1 DEF DriftRow
    <3>2. \A x \in drift[p].todo : Row(p, x) \subseteq Watched \X Signatures
      BY <1>1, <3>1, RowsAre
    <3>3. ASSUME NEW x \in Watched, NEW s \in Signatures, Owed(p, x, s)
          PROVE  <<x, s>> \in missed'
      <4>1. x \in drift[p].todo /\ <<x, s>> \in Row(p, x)
        BY <1>1, <3>3, RowsAre DEF Owed
      <4>2. QED
        BY <2>3, <4>1
    <3>4. QED
      BY <1>1, <2>3, <3>2, <3>3 DEF DriftTypes
  <2>4. QED
    BY <2>1, <2>2, <2>3 DEF EndDriftPoll, KillDriftPoll, Saving
<1>5. DriftTypes'
  BY <1>1, <1>2, <1>3, <1>4, SnapshotTypes DEF DriftTypes
<1>6. \A x \in Watched : /\ NoFile[x] = 0 /\ signature[x] \in Nat /\ file[x] \in Nat
                         /\ file[x] =< signature[x]
  BY <1>1, SnapshotTypes, DriftNumbers DEF DriftIInv, NotAhead
<1>7. NotAhead'
  <2>1. \A x \in Watched : file'[x] =< signature[x] /\ NoFile[x] =< signature[x]
    BY <1>3, <1>6
  <2>2. QED
    BY <1>1, <1>2, <2>1, <1>6, SnapshotTypes DEF DriftIInv, NotAhead
<1>8. TakenIn'
  <2>1. SUFFICES ASSUME NEW x \in Watched, NEW s \in Signatures,
                        \/ s =< file'[x]
                        \/ \E q \in Drifters : drift'[q].step = "describe" /\ s =< drift'[q].prior[x]
                 PROVE  Accounted(x, s)'
    BY DEF TakenIn
  <2>2. s \in Nat /\ s > 0
    BY SnapshotTypes
  <2>3. \/ s =< file[x]
        \/ \E q \in Drifters : drift[q].step = "describe" /\ s =< drift[q].prior[x]
    BY <1>2, <1>3, <1>6, <2>1, <2>2, SnapshotTypes
  <2>4. Accounted(x, s)
    BY <2>3 DEF DriftIInv, TakenIn
  <2>5. QED
    BY <1>1, <1>4, <2>4, SnapshotTypes, AccountsKept
<1>9. RowsTell'
  BY <1>2, SnapshotTypes DEF DriftIInv, RowsTell
<1>10. QED
  BY <1>1, <1>5, <1>7, <1>8, <1>9, TasksRest DEF DriftIInv

(* People complete a task, or the org changes an object.                   *)
LEMMA ObjectStep ==
  ASSUME DriftIInv, NEW o \in Watched, CloseDriftTask(o) \/ Migrate(o)
  PROVE  DriftIInv'
<1>1. /\ DriftTypes /\ UNCHANGED <<file, drift, shown, hidden, missed>>
      /\ drifted' \subseteq drifted
  BY DEF DriftIInv, CloseDriftTask, Migrate
<1>2. \A x \in Watched : signature[x] \in Nat /\ signature[x] > 0 /\ file[x] \in Nat
  BY <1>1, DriftNumbers
<1>3. /\ signature' \in [Watched -> Signatures]
      /\ \A x \in Watched : signature[x] =< signature'[x] /\ signature'[x] \in Nat
  <2>1. CASE UNCHANGED signature
    BY <1>1, <1>2, <2>1 DEF DriftTypes
  <2>2. CASE signature[o] < MaxSignature /\ signature' = [signature EXCEPT ![o] = @ + 1]
    <3>1. signature[o] + 1 \in Signatures /\ signature[o] =< signature[o] + 1
      BY <1>2, <2>2, SignatureAssumption DEF Signatures
    <3>2. QED
      BY <1>1, <1>2, <2>2, <3>1 DEF DriftTypes
  <2>3. QED
    BY <2>1, <2>2 DEF CloseDriftTask, Migrate
<1>4. DriftTypes'
  BY <1>1, <1>3 DEF DriftTypes
<1>5. NotAhead'
  <2>1. \A x \in Watched : \A p \in Drifters : drift[p].current[x] \in Nat /\ drift[p].prior[x] \in Nat
    BY <1>1, DriftNumbers
  <2>2. QED
    BY <1>1, <1>2, <1>3, <2>1 DEF DriftIInv, NotAhead
<1>6. TakenIn' /\ RowsTell'
  BY <1>1 DEF DriftIInv, TakenIn, Accounted, Owed, RowsTell
<1>7. TasksTell' /\ HiddenBehindAnother'
  BY <1>1 DEF DriftIInv, TasksTell, HiddenBehindAnother
<1>8. QED
  BY <1>4, <1>5, <1>6, <1>7 DEF DriftIInv

LEMMA NextDrift == DriftIInv /\ [DriftNext]_driftVars => DriftIInv'
<1> SUFFICES ASSUME DriftIInv, [DriftNext]_driftVars PROVE DriftIInv'
  OBVIOUS
<1>1. CASE UNCHANGED driftVars
  BY <1>1 DEF driftVars, DriftIInv, DriftTypes, NotAhead, TakenIn, Accounted, Owed, RowsTell,
     TasksTell, HiddenBehindAnother
<1>2. QED
  BY <1>1, LoadPriorStep, DescribeStep, SaveCurrentStep, SurfaceTaskStep, LeaveDriftStep,
     ObjectStep DEF DriftNext

(* For any objects, migrations and polls, however they overlap: a change   *)
(* that the file has taken in was told in a task, was found behind an open *)
(* task on an object that people were told of, or was missed by a first    *)
(* look or with a killed poll (poll, _save_current, surface_task).         *)
THEOREM DriftHolds == DriftSpec => []DriftInv
<1>1. DriftIInv => DriftInv
  <2> SUFFICES ASSUME DriftIInv PROVE DriftTypeOK /\ DriftIsTold /\ HiddenBehindAnother
    BY DEF DriftInv
  <2>1. DriftTypeOK
    BY DEF DriftIInv, DriftTypes, DriftTypeOK, DriftRow, Snapshots
  <2>2. DriftIsTold
    <3>1. SUFFICES ASSUME Polling = {}, NEW o \in Watched, NEW c \in Changes(o, Unseen, file[o])
                   PROVE  c \in shown \union hidden \union missed
      BY DEF DriftIsTold
    <3>2. \A p \in Drifters : \A s : ~ Owed(p, o, s)
      BY <3>1 DEF Polling, Owed
    <3>3. PICK s \in Signatures : c = <<o, s>> /\ s =< file[o]
      BY DEF Changes
    <3>4. QED
      BY <3>2, <3>3 DEF DriftIInv, TakenIn, Accounted
  <2>3. QED
    BY <2>1, <2>2 DEF DriftIInv
<1>2. QED
  BY <1>1, InitDrift, NextDrift, PTL DEF DriftSpec

-----------------------------------------------------------------------------
(* The integration health pollers *)

PollerRow == [step : {"idle", "read", "write", "tell"},
              met : (UNION {Answers(n) : n \in Integrations}) \union {"none"},
              status : Statuses, prior : Statuses \union {"none"}]

HealthTypes ==
    /\ integration \in Integrations /\ answer \in Answers(integration)
    /\ health \in Statuses \union {"none"} /\ told \in Statuses \union {"none"}
    /\ poller \in [Pollers -> PollerRow]
    /\ bornBad \in BOOLEAN /\ unheard \in BOOLEAN

SpokenOf ==
    \/ health \in {"none", "healthy"} \/ bornBad
    \/ /\ told # "none"
       /\ integration \in OOIntegrations => told = health

(* Where nothing went wrong there is one poll at a time; it knows the row  *)
(* it replaces, and a row that nobody spoke of yet is its own.             *)
OnePoll ==
    /\ \A p, q \in Busy : p = q
    /\ \A p \in Pollers :
        /\ poller[p].step = "write" => poller[p].prior = health
        /\ poller[p].step = "tell" => poller[p].status = health
    /\ SpokenOf \/ \E p \in Pollers : poller[p].step = "tell"

HealthIInv == HealthTypes /\ (unheard \/ OnePoll)

LEMMA StatusType ==
  ASSUME NEW n \in Integrations, NEW a \in Answers(n)
  PROVE  StatusOf(n, a) \in Statuses
<1>1. CASE n = "salesforce"
  BY <1>1 DEF Answers, StatusOf, CheckSalesforce, Statuses
<1>2. CASE n = "momentum"
  BY <1>2 DEF Answers, StatusOf, CheckMomentum, Statuses
<1>3. CASE n = "cs_momentum_sync"
  BY <1>3 DEF Answers, StatusOf, CheckMomentumSync, Statuses
<1>4. CASE n = "cs_nps_freshness"
  BY <1>4 DEF Answers, StatusOf, CheckNpsFreshness, Statuses
<1>5. CASE n \in {"fireflies", "slack", "cs_vitally"}
  <2>1. StatusOf(n, a) = CheckKeyed(a)
    BY <1>5 DEF StatusOf
  <2>2. QED
    BY <2>1 DEF CheckKeyed, Statuses
<1>6. CASE n = "clay"
  BY <1>6 DEF Answers, StatusOf, CheckClay, ClassifyResponse, Statuses
<1>7. CASE n = "vitally"
  BY <1>7 DEF Answers, StatusOf, CheckVitally, CheckClay, ClassifyResponse, Statuses
<1>8. QED
  BY <1>1, <1>2, <1>3, <1>4, <1>5, <1>6, <1>7 DEF Integrations, OOIntegrations, CSIntegrations

LEMMA NoPollType == NoPoll \in PollerRow /\ NoPoll.step = "idle"
  BY DEF NoPoll, PollerRow, Statuses

LEMMA InitHealth == HealthInit => HealthIInv
<1> SUFFICES ASSUME HealthInit PROVE HealthIInv
  OBVIOUS
<1>1. HealthTypes
  BY NoPollType DEF HealthInit, HealthTypes, Statuses
<1>2. \A p \in Pollers : poller[p].step = "idle"
  BY NoPollType DEF HealthInit
<1>3. OnePoll
  BY <1>2 DEF HealthInit, OnePoll, SpokenOf, Busy
<1>4. QED
  BY <1>1, <1>3 DEF HealthIInv

LEMMA PollerMoves ==
  ASSUME HealthTypes, NEW p \in Pollers, NEW job \in PollerRow, poller' = [poller EXCEPT ![p] = job]
  PROVE  /\ poller' \in [Pollers -> PollerRow] /\ poller'[p] = job
         /\ \A q \in Pollers \ {p} : poller'[q] = poller[q]
         /\ poller[p].step # "idle" \/ job.step = "idle" => Busy' \subseteq Busy
  BY DEF HealthTypes, Busy

LEMMA ProbeStep ==
  ASSUME HealthIInv, NEW p \in Pollers, Probe(p)
  PROVE  HealthIInv'
<1>1. /\ HealthTypes /\ poller[p].step = "idle"
      /\ unheard' = (unheard \/ Busy # {})
      /\ UNCHANGED <<integration, shape, answer, health, openTask, told, bornBad>>
  BY DEF HealthIInv, Probe
<1>2. PICK status \in Statuses : status = StatusOf(integration, answer)
  BY <1>1, StatusType DEF HealthTypes
<1> DEFINE job == [NoPoll EXCEPT !.step = "read", !.met = answer, !.status = status]
<1>3. poller' = [poller EXCEPT ![p] = job]
  BY <1>2 DEF Probe
<1>4. answer \in UNION {Answers(n) : n \in Integrations}
  BY <1>1 DEF HealthTypes
<1>5. job \in PollerRow /\ job.step = "read"
  BY <1>4, NoPollType DEF PollerRow
<1> HIDE DEF job
<1>6. /\ poller' \in [Pollers -> PollerRow] /\ poller'[p] = job
      /\ \A q \in Pollers \ {p} : poller'[q] = poller[q]
  BY <1>1, <1>3, <1>5, PollerMoves
<1>7. unheard' \in BOOLEAN
  BY <1>1
<1>8. HealthTypes'
  BY <1>1, <1>6, <1>7 DEF HealthTypes
<1>9. CASE Busy = {} /\ ~ unheard
  <2>1. OnePoll
    BY <1>9 DEF HealthIInv
  <2>2. \A q \in Pollers : poller[q].step = "idle"
    BY <1>9 DEF Busy
  <2>3. \A q \in Busy' : q = p
    BY <1>6, <2>2 DEF Busy
  <2>4. SpokenOf'
    BY <1>1, <2>1, <2>2 DEF OnePoll, SpokenOf
  <2>5. \A q \in Pollers : poller'[q].step \notin {"write", "tell"}
    BY <1>5, <1>6, <2>2
  <2>6. OnePoll'
    BY <2>3, <2>4, <2>5 DEF OnePoll
  <2>7. QED
    BY <1>8, <2>6 DEF HealthIInv
<1>10. CASE ~ (Busy = {} /\ ~ unheard)
  BY <1>1, <1>8, <1>10 DEF HealthIInv
<1>11. QED
  BY <1>9, <1>10

LEMMA ReadPriorStep ==
  ASSUME HealthIInv, NEW p \in Pollers, ReadPrior(p)
  PROVE  HealthIInv'
<1>1. /\ HealthTypes /\ poller[p] \in PollerRow /\ poller[p].step = "read"
      /\ health \in Statuses \union {"none"}
      /\ UNCHANGED <<integration, shape, answer, health, openTask, told, bornBad, unheard>>
  BY DEF HealthIInv, HealthTypes, ReadPrior
<1> DEFINE job == [poller[p] EXCEPT !.step = "write", !.prior = health]
<1>2. poller' = [poller EXCEPT ![p] = job]
  BY <1>1 DEF HealthTypes, ReadPrior
<1>3. job \in PollerRow /\ job.step = "write" /\ job.prior = health
  BY <1>1 DEF PollerRow
<1> HIDE DEF job
<1>4. /\ poller' \in [Pollers -> PollerRow] /\ poller'[p] = job
      /\ \A q \in Pollers \ {p} : poller'[q] = poller[q]
      /\ Busy' \subseteq Busy
  BY <1>1, <1>2, <1>3, PollerMoves
<1>5. HealthTypes'
  BY <1>1, <1>4 DEF HealthTypes
<1>6. ASSUME OnePoll PROVE OnePoll'
  <2>1. \A q \in Pollers : /\ poller'[q].step = "write" => poller'[q].prior = health
                           /\ poller'[q].step = "tell" => poller'[q].status = health
    BY <1>3, <1>4, <1>6 DEF OnePoll
  <2>2. SpokenOf \/ \E q \in Pollers : poller'[q].step = "tell"
    BY <1>1, <1>4, <1>6 DEF OnePoll
  <2>3. SpokenOf' <=> SpokenOf
    BY <1>1 DEF SpokenOf
  <2>4. QED
    BY <1>1, <1>4, <1>6, <2>1, <2>2, <2>3 DEF OnePoll
<1>7. QED
  BY <1>1, <1>5, <1>6 DEF HealthIInv

(* A new row: what it says was said before, or this poll says it now.      *)
LEMMA RecordHealthStep ==
  ASSUME HealthIInv, NEW p \in Pollers, RecordHealth(p)
  PROVE  HealthIInv'
<1>1. /\ HealthTypes /\ poller[p] \in PollerRow /\ poller[p].step = "write"
      /\ poller[p].status \in Statuses
      /\ health' = poller[p].status
      /\ UNCHANGED <<integration, shape, answer, openTask, unheard>>
  BY DEF HealthIInv, HealthTypes, RecordHealth, PollerRow
<1>2. PICK tells \in BOOLEAN : tells <=> Changed(p) /\ poller[p].status # "healthy"
  OBVIOUS
<1>3. PICK job \in PollerRow :
        /\ poller' = [poller EXCEPT ![p] = job]
        /\ tells => job.step = "tell" /\ job.status = poller[p].status
        /\ ~ tells => job.step = "idle"
  <2>1. CASE tells
    <3>1. [poller[p] EXCEPT !.step = "tell"] \in PollerRow
      BY <1>1 DEF PollerRow
    <3>2. QED
      BY <1>1, <1>2, <2>1, <3>1 DEF RecordHealth, PollerRow
  <2>2. CASE ~ tells
    BY <1>2, <2>2, NoPollType DEF RecordHealth
  <2>3. QED
    BY <2>1, <2>2
<1>4. PICK born \in BOOLEAN :
        /\ bornBad' = born
        /\ poller[p].prior = "none" => (born <=> poller[p].status # "healthy")
        /\ poller[p].prior # "none" => (born <=> bornBad /\ health = poller[p].status)
  BY DEF RecordHealth
<1>5. told' = IF poller[p].status = "healthy" THEN "none" ELSE told
  BY DEF RecordHealth
<1>6. /\ poller' \in [Pollers -> PollerRow] /\ poller'[p] = job
      /\ \A q \in Pollers \ {p} : poller'[q] = poller[q]
      /\ Busy' \subseteq Busy
  BY <1>1, <1>3, PollerMoves
<1>7. HealthTypes'
  BY <1>1, <1>4, <1>5, <1>6 DEF HealthTypes
<1>8. ASSUME OnePoll, ~ unheard PROVE OnePoll'
  <2>1. \A q \in Pollers \ {p} : poller[q].step = "idle"
    BY <1>1, <1>8 DEF OnePoll, Busy
  <2>2. poller[p].prior = health
    BY <1>1, <1>8 DEF OnePoll
  <2>3. \A q \in Pollers : /\ poller'[q].step = "write" => poller'[q].prior = health'
                           /\ poller'[q].step = "tell" => poller'[q].status = health'
    BY <1>1, <1>3, <1>6, <2>1
  <2>4. SpokenOf
    BY <1>1, <1>8, <2>1 DEF OnePoll
  <2>5. SpokenOf' \/ \E q \in Pollers : poller'[q].step = "tell"
    <3>1. CASE tells
      BY <1>3, <1>6, <3>1
    <3>2. CASE poller[p].status = "healthy"
      BY <1>1, <3>2 DEF SpokenOf
    <3>3. CASE ~ tells /\ poller[p].status # "healthy" /\ health = "none"
      BY <1>4, <2>2, <3>3 DEF SpokenOf
    <3>4. CASE ~ tells /\ poller[p].status # "healthy" /\ health # "none"
      <4>1. health = poller[p].status
        BY <1>2, <2>2, <3>4 DEF Changed
      <4>2. health' = health /\ told' = told /\ integration' = integration /\ (bornBad => bornBad')
        BY <1>1, <1>4, <1>5, <2>2, <3>4, <4>1
      <4>3. QED
        BY <2>4, <4>2 DEF SpokenOf
    <3>5. QED
      BY <3>1, <3>2, <3>3, <3>4
  <2>6. QED
    BY <1>6, <1>8, <2>3, <2>5 DEF OnePoll
<1>9. QED
  BY <1>1, <1>7, <1>8 DEF HealthIInv

(* A poll ends: it has spoken, or it had nothing to say, or it is not      *)
(* heard.                                                                  *)
LEMMA PollEnds ==
  ASSUME HealthIInv, NEW p \in Pollers, poller[p].step # "idle",
         poller' = [poller EXCEPT ![p] = NoPoll],
         UNCHANGED <<integration, answer, health, bornBad>>,
         told' \in Statuses \union {"none"}, unheard' \in BOOLEAN, unheard => unheard',
         \/ unheard'
         \/ poller[p].step # "tell" /\ told' = told
         \/ poller[p].step = "tell" /\ told' = poller[p].status
  PROVE  HealthIInv'
<1>1. HealthTypes
  BY DEF HealthIInv
<1>2. /\ poller' \in [Pollers -> PollerRow] /\ poller'[p] = NoPoll
      /\ \A q \in Pollers \ {p} : poller'[q] = poller[q]
      /\ Busy' \subseteq Busy
  BY <1>1, NoPollType, PollerMoves
<1>3. HealthTypes'
  BY <1>1, <1>2 DEF HealthTypes
<1>4. ASSUME OnePoll, ~ unheard' PROVE OnePoll'
  <2>1. \A q \in Pollers \ {p} : poller[q].step = "idle"
    BY <1>4 DEF OnePoll, Busy
  <2>2. \A q \in Pollers : poller'[q].step = "idle"
    BY <1>2, <2>1, NoPollType
  <2>3. CASE poller[p].step # "tell" /\ told' = told
    <3>1. SpokenOf
      BY <1>4, <2>1, <2>3 DEF OnePoll
    <3>2. SpokenOf'
      BY <2>3, <3>1 DEF SpokenOf
    <3>3. QED
      BY <1>2, <1>4, <2>2, <3>2 DEF OnePoll
  <2>4. CASE poller[p].step = "tell" /\ told' = poller[p].status
    <3>1. told' = health /\ poller[p].status # "none"
      BY <1>1, <1>4, <2>4 DEF OnePoll, HealthTypes, PollerRow, Statuses
    <3>2. SpokenOf'
      BY <2>4, <3>1 DEF SpokenOf
    <3>3. QED
      BY <1>2, <1>4, <2>2, <3>2 DEF OnePoll
  <2>5. QED
    BY <1>4, <2>3, <2>4
<1>5. QED
  BY <1>3, <1>4 DEF HealthIInv

LEMMA TellStep ==
  ASSUME HealthIInv, NEW p \in Pollers, OpenTask(p) \/ \E sent \in BOOLEAN : TellO(p, sent)
  PROVE  HealthIInv'
<1>1. /\ poller[p].step = "tell" /\ poller' = [poller EXCEPT ![p] = NoPoll]
      /\ UNCHANGED <<integration, answer, health, bornBad>>
  BY DEF OpenTask, TellO
<1>2. /\ poller[p].status \in Statuses /\ told \in Statuses \union {"none"}
      /\ unheard \in BOOLEAN
  BY DEF HealthIInv, HealthTypes, PollerRow
<1>3. CASE OpenTask(p)
  <2>1. told' = poller[p].status /\ unheard' = unheard
    BY <1>3 DEF OpenTask
  <2>2. QED
    BY <1>1, <1>2, <2>1, PollEnds
<1>4. ASSUME NEW sent \in BOOLEAN, TellO(p, sent) PROVE HealthIInv'
  <2>1. told' = (IF sent THEN poller[p].status ELSE told) /\ unheard' = (unheard \/ ~ sent)
    BY <1>4 DEF TellO
  <2>2. unheard' \in BOOLEAN /\ (unheard => unheard') /\ (unheard' \/ sent)
    BY <2>1
  <2>3. told' \in Statuses \union {"none"} /\ (unheard' \/ told' = poller[p].status)
    BY <1>2, <2>1, <2>2
  <2>4. QED
    BY <1>1, <2>2, <2>3, PollEnds
<1>5. QED
  BY <1>3, <1>4

LEMMA KillPollStep ==
  ASSUME HealthIInv, NEW p \in Pollers, KillPoll(p)
  PROVE  HealthIInv'
<1>1. /\ poller[p].step # "idle" /\ poller' = [poller EXCEPT ![p] = NoPoll]
      /\ UNCHANGED <<integration, answer, health, bornBad, told>>
      /\ unheard' = (unheard \/ poller[p].step = "tell")
  BY DEF KillPoll
<1>2. told \in Statuses \union {"none"} /\ unheard \in BOOLEAN
  BY DEF HealthIInv, HealthTypes
<1>3. /\ unheard' \in BOOLEAN /\ (unheard => unheard')
      /\ unheard' \/ poller[p].step # "tell"
  BY <1>1
<1>4. QED
  BY <1>1, <1>2, <1>3, PollEnds

LEMMA WorldStep ==
  ASSUME HealthIInv, CompleteHealthTask \/ \E a \in Answers(integration) : WorldChanges(a)
  PROVE  HealthIInv'
<1>1. /\ UNCHANGED <<integration, health, poller, told, bornBad, unheard>>
      /\ answer' \in Answers(integration)
  BY DEF HealthIInv, HealthTypes, CompleteHealthTask, WorldChanges
<1>2. HealthTypes'
  BY <1>1 DEF HealthIInv, HealthTypes
<1>3. OnePoll' <=> OnePoll
  BY <1>1 DEF OnePoll, SpokenOf, Busy
<1>4. QED
  BY <1>1, <1>2, <1>3 DEF HealthIInv

LEMMA NextHealth == HealthIInv /\ [HealthNext]_healthVars => HealthIInv'
<1> SUFFICES ASSUME HealthIInv, [HealthNext]_healthVars PROVE HealthIInv'
  OBVIOUS
<1>1. CASE UNCHANGED healthVars
  BY <1>1 DEF healthVars, HealthIInv, HealthTypes, OnePoll, SpokenOf, Busy
<1>2. QED
  BY <1>1, ProbeStep, ReadPriorStep, RecordHealthStep, TellStep, KillPollStep, WorldStep
     DEF HealthNext

(* For any number of polls: an integration that is not healthy was spoken  *)
(* of, by a DM of O with its status or by a task of CS, unless it was born *)
(* so, or a poll died, overlapped another or could not send (_record,      *)
(* _alert_o_dm, _open_task).                                               *)
THEOREM HealthHolds == HealthSpec => []HealthInv
<1>1. HealthIInv => HealthInv
  <2> SUFFICES ASSUME HealthIInv PROVE HealthTypeOK /\ UnhealthyIsTold
    BY DEF HealthInv
  <2>1. HealthTypeOK
    BY DEF HealthIInv, HealthTypes, HealthTypeOK, PollerRow
  <2>2. Busy = {} => \A p \in Pollers : poller[p].step # "tell"
    BY DEF Busy
  <2>3. UnhealthyIsTold
    BY <2>2 DEF HealthIInv, OnePoll, SpokenOf, UnhealthyIsTold
  <2>4. QED
    BY <2>1, <2>3
<1>2. QED
  BY <1>1, InitHealth, NextHealth, PTL DEF HealthSpec

-----------------------------------------------------------------------------
(* The poller of wins: its types *)

\* The initial state is well typed.
LEMMA PollerInit == Init => TypeOK
  BY OppsAssumption DEF Init, TypeOK, Idle, Run_, Run, AuditRow

\* A run that goes on keeps the shape of Run.
LEMMA GotoType ==
  ASSUME TypeOK, NEW p \in Polls, NEW pc, NEW o \in Opps, Goto(p, pc, o),
         pc \in {"loop", "create", "created", "failed", "notify"}
  PROVE  /\ poll' \in [Polls -> Run]
         /\ \A q \in Polls :
              poll'[q].pc \in {"create", "created", "failed", "notify"} => poll'[q].opp # None
  BY OppsAssumption DEF TypeOK, Goto, Run_, Run

\* Every step keeps the types.
LEMMA PollerNextType == TypeOK /\ [Next]_vars => TypeOK'
<1> SUFFICES ASSUME TypeOK, [Next]_vars PROVE TypeOK'
  OBVIOUS
<1>1. ASSUME NEW o \in Opps, Touch(o) PROVE TypeOK'
  BY <1>1 DEF TypeOK, Touch
<1>2. CASE Tick
  BY <1>2 DEF TypeOK, Tick
<1>3. ASSUME NEW p \in Polls, Start(p) PROVE TypeOK'
  <2>1. Since \in Nat
    BY BatchAssumption DEF Since, TypeOK
  <2>2. QED
    BY <1>3, <2>1 DEF TypeOK, Start, Run_, Run
<1>4. ASSUME NEW p \in Polls, Select(p) PROVE TypeOK'
  <2>1. PICK batch \in SUBSET Opps : \E out \in SUBSET Opps :
          poll' = [poll EXCEPT ![p] =
                     Run_("loop", poll[p].since, batch \ out, batch \ out, None)]
    BY <1>4 DEF Select
  <2>2. poll[p].since \in Nat
    BY DEF TypeOK, Run
  <2>3. QED
    BY <1>4, <2>1, <2>2 DEF TypeOK, Select, Run_, Run
<1>5. ASSUME NEW p \in Polls, SelectFails(p) PROVE TypeOK'
  BY <1>5 DEF TypeOK, SelectFails, Fail, Idle, Run_, Run
<1>6. ASSUME NEW p \in Polls, Check(p) PROVE TypeOK'
  <2>1. PICK o \in Opps : \E pc \in {"loop", "create", "failed"} : Goto(p, pc, o)
    BY <1>6 DEF Check, TypeOK, Run
  <2>2. failures' \in Nat
    BY <1>6 DEF Check, Fail, TypeOK
  <2>3. QED
    BY <1>6, <2>1, <2>2, GotoType DEF TypeOK, Check
<1>7. ASSUME NEW p \in Polls, CreateRecord(p) PROVE TypeOK'
  <2>1. poll[p].opp \in Opps
    BY <1>7 DEF CreateRecord, TypeOK, Run
  <2>2. \E pc \in {"created", "failed"} : Goto(p, pc, poll[p].opp)
    BY <1>7 DEF CreateRecord
  <2>3. failures' \in Nat
    BY <1>7 DEF CreateRecord, Fail, TypeOK
  <2>4. records' \in [Opps -> Nat]
    BY <1>7 DEF CreateRecord, TypeOK
  <2>5. QED
    BY <1>7, <2>1, <2>2, <2>3, <2>4, GotoType DEF TypeOK, CreateRecord
<1>8. ASSUME NEW p \in Polls, AuditCreate(p) PROVE TypeOK'
  <2>1. poll[p].opp \in Opps
    BY <1>8 DEF AuditCreate, TypeOK, Run
  <2>2. QED
    BY <1>8, <2>1, GotoType DEF TypeOK, AuditCreate, AuditRow
<1>9. ASSUME NEW p \in Polls, Notify(p) PROVE TypeOK'
  <2>1. poll[p].opp \in Opps
    BY <1>9 DEF Notify, TypeOK, Run
  <2>2. QED
    BY <1>9, <2>1, GotoType DEF TypeOK, Notify, Fail
<1>10. ASSUME NEW p \in Polls, AuditFailure(p) PROVE TypeOK'
  <2>1. poll[p].opp \in Opps
    BY <1>10 DEF AuditFailure, TypeOK, Run
  <2>2. QED
    BY <1>10, <2>1, GotoType DEF TypeOK, AuditFailure, AuditRow
<1>11. ASSUME NEW p \in Polls, Finish(p) PROVE TypeOK'
  BY <1>11 DEF TypeOK, Finish, Idle, Run_, Run
<1>12. ASSUME NEW p \in Polls, Crash(p) PROVE TypeOK'
  BY <1>12 DEF TypeOK, Crash, Idle, Run_, Run
<1>13. CASE UNCHANGED vars
  BY <1>13 DEF TypeOK, vars
<1>14. QED
  BY <1>1, <1>2, <1>3, <1>4, <1>5, <1>6, <1>7, <1>8, <1>9, <1>10, <1>11, <1>12,
     <1>13 DEF Next, Step

\* The state keeps its types: poll() never works on an opportunity that is not
\* there, whatever it read and whoever killed it.
THEOREM PollerTypes == Spec => []TypeOK
  BY PollerInit, PollerNextType, PTL DEF Spec

-----------------------------------------------------------------------------
(* The poller of wins: a completed run settles its candidates *)

Settled(o) == records[o] # 0 \/ FailureAudited(o)

\* Each candidate of a run is still to be looked at, in hand, or settled; the one
\* in hand is no longer to be looked at.
TakenInv ==
  \A p \in Polls :
    /\ poll[p].pc \in {"create", "created", "failed", "notify"} =>
         poll[p].opp \notin poll[p].todo
    /\ \A o \in poll[p].taken :
         \/ o \in poll[p].todo
         \/ poll[p].opp = o /\ poll[p].pc \in {"create", "failed"}
         \/ Settled(o)

\* A record or a failure row, once there, stays.
LEMMA SettledStays ==
  ASSUME TypeOK, [Next]_vars, NEW o \in Opps, Settled(o) PROVE Settled(o)'
<1>1. audit \subseteq audit'
  BY DEF Next, Step, vars, Touch, Tick, Start, Select, SelectFails, Check,
         CreateRecord, AuditCreate, Notify, AuditFailure, Finish, Crash
<1>2. records[o] # 0 => records'[o] # 0
  <2>1. CASE \E p \in Polls : CreateRecord(p)
    BY <2>1 DEF TypeOK, CreateRecord
  <2>2. CASE records' = records
    BY <2>2
  <2>3. QED
    BY <2>1, <2>2 DEF Next, Step, vars, Touch, Tick, Start, Select, SelectFails,
       Check, AuditCreate, Notify, AuditFailure, Finish, Crash
<1>3. QED
  BY <1>1, <1>2 DEF Settled, FailureAudited

\* The ways the state of one process can change.
LEMMA PollSteps ==
  ASSUME TypeOK, [Next]_vars, NEW q \in Polls
  PROVE  \/ poll'[q] = poll[q]
         \/ /\ poll'[q].pc \in {"idle", "select"}
            /\ poll'[q].taken = {} /\ poll'[q].todo = {}
         \/ Select(q) \/ Check(q) \/ CreateRecord(q)
         \/ AuditCreate(q) \/ Notify(q) \/ AuditFailure(q)
<1>1. CASE (\E o \in Opps : Touch(o)) \/ Tick \/ UNCHANGED vars
  BY <1>1 DEF Touch, Tick, vars
<1>2. ASSUME NEW p \in Polls, Step(p) \/ Crash(p), p # q PROVE poll'[q] = poll[q]
  BY <1>2 DEF TypeOK, Step, Start, Select, SelectFails, Check, CreateRecord,
              AuditCreate, Notify, AuditFailure, Finish, Crash, Goto
<1>3. CASE Start(q) \/ SelectFails(q) \/ Finish(q) \/ Crash(q)
  BY <1>3 DEF TypeOK, Start, SelectFails, Finish, Crash, Idle, Run_
<1>4. QED
  BY <1>1, <1>2, <1>3 DEF Next, Step

\* What Goto does to the process that goes on.
LEMMA GotoFields ==
  ASSUME TypeOK, NEW q \in Polls, NEW pc, NEW o, Goto(q, pc, o)
  PROVE  /\ poll'[q].pc = pc /\ poll'[q].opp = o
         /\ poll'[q].taken = poll[q].taken /\ poll'[q].todo = poll[q].todo \ {o}
  BY DEF TypeOK, Goto, Run_

\* Whatever a run does next, its candidates stay accounted for.
LEMMA NextTaken ==
  ASSUME TypeOK, TypeOK', TakenInv, [Next]_vars PROVE TakenInv'
<1>1. SUFFICES ASSUME NEW q \in Polls
               PROVE  /\ poll'[q].pc \in {"create", "created", "failed", "notify"} =>
                           poll'[q].opp \notin poll'[q].todo
                      /\ \A c \in poll'[q].taken :
                           \/ c \in poll'[q].todo
                           \/ poll'[q].opp = c /\ poll'[q].pc \in {"create", "failed"}
                           \/ Settled(c)'
  BY DEF TakenInv
<1>2. /\ poll[q].taken \subseteq Opps /\ poll[q].todo \subseteq Opps
      /\ poll[q].opp \in Opps \cup {None}
  BY DEF TypeOK, Run
<1>3. \A c \in Opps : Settled(c) => Settled(c)'
  BY SettledStays
<1>4. CASE poll'[q] = poll[q]
  BY <1>2, <1>3, <1>4 DEF TakenInv
<1>5. CASE /\ poll'[q].pc \in {"idle", "select"}
           /\ poll'[q].taken = {} /\ poll'[q].todo = {}
  BY <1>5
<1>6. CASE Select(q)
  <2>1. PICK batch, out : poll'[q] = Run_("loop", poll[q].since, batch \ out, batch \ out, None)
    BY <1>6 DEF Select, TypeOK
  <2>2. QED
    BY <2>1 DEF Run_
<1>7. CASE Check(q)
  <2>1. PICK o \in poll[q].todo : \E pc \in {"loop", "create", "failed"} :
          Goto(q, pc, o) /\ (pc = "loop" => records[o] # 0)
    BY <1>7 DEF Check
  <2>2. poll[q].pc = "loop"
    BY <1>7 DEF Check
  <2>3. records[o] # 0 => Settled(o)'
    BY <1>2, <1>3 DEF Settled
  <2>4. /\ poll'[q].opp = o /\ poll'[q].todo = poll[q].todo \ {o}
        /\ poll'[q].taken = poll[q].taken
        /\ poll'[q].pc \in {"create", "failed"} \/ records[o] # 0
    BY <2>1, GotoFields
  <2>5. \A c \in poll[q].taken : c \in poll[q].todo \/ Settled(c)
    BY <2>2 DEF TakenInv
  <2>6. QED
    BY <1>2, <1>3, <2>3, <2>4, <2>5
<1>8. CASE CreateRecord(q) \/ AuditFailure(q)
  <2>1. PICK o \in Opps : o = poll[q].opp
    BY <1>8, <1>2 DEF CreateRecord, AuditFailure, TypeOK
  <2>2. \E pc \in {"created", "failed", "loop"} :
          Goto(q, pc, o) /\ (pc # "failed" => Settled(o)')
    <3>1. CASE AuditFailure(q)
      <4>1. Goto(q, "loop", o) /\ FailureAudited(o)'
        BY <2>1, <3>1 DEF AuditFailure, FailureAudited
      <4>2. QED
        BY <4>1 DEF Settled
    <3>2. CASE CreateRecord(q)
      <4>1. \/ Goto(q, "failed", o)
            \/ Goto(q, "created", o) /\ records'[o] # 0
        BY <3>2, <2>1 DEF CreateRecord, TypeOK
      <4>2. records'[o] # 0 => Settled(o)'
        BY DEF Settled
      <4>3. QED
        BY <4>1, <4>2
    <3>3. QED
      BY <1>8, <3>1, <3>2
  <2>3. /\ poll'[q].opp = o /\ poll'[q].todo = poll[q].todo \ {o}
        /\ poll'[q].taken = poll[q].taken
        /\ poll'[q].pc = "failed" \/ Settled(o)'
    BY <2>2, GotoFields
  <2>4. \A c \in poll[q].taken : c = o \/ c \in poll[q].todo \/ Settled(c)
    BY <2>1 DEF TakenInv
  <2>5. QED
    BY <1>2, <1>3, <2>3, <2>4
<1>9. CASE AuditCreate(q) \/ Notify(q)
  <2> DEFINE o == poll[q].opp
  <2>1. poll[q].pc \in {"created", "notify"}
    BY <1>9 DEF AuditCreate, Notify
  <2>2. \E pc \in {"notify", "loop"} : Goto(q, pc, o)
    BY <1>9 DEF AuditCreate, Notify
  <2>3. poll'[q].opp = o /\ poll'[q].todo = poll[q].todo \ {o}
        /\ poll'[q].taken = poll[q].taken
    BY <2>2, GotoFields
  <2>4. /\ o \notin poll[q].todo
        /\ \A c \in poll[q].taken : c \in poll[q].todo \/ Settled(c)
    BY <2>1 DEF TakenInv
  <2>5. QED
    BY <1>2, <1>3, <2>3, <2>4
<1>10. QED
  BY <1>4, <1>5, <1>6, <1>7, <1>8, <1>9, PollSteps

\* A run completes only when nothing is left to look at or in hand.
LEMMA NextHandled ==
  ASSUME TypeOK, TakenInv, HandledIsSettled, [Next]_vars PROVE HandledIsSettled'
<1>1. handled \subseteq Opps
  BY DEF TypeOK
<1>2. \A o \in handled : Settled(o)'
  BY <1>1, SettledStays DEF HandledIsSettled, Settled
<1>3. ASSUME NEW p \in Polls, Finish(p) PROVE \A o \in poll[p].taken : Settled(o)'
  <2>1. poll[p].pc = "loop" /\ poll[p].todo = {} /\ poll[p].taken \subseteq Opps
    BY <1>3 DEF Finish, TypeOK, Run
  <2>2. QED
    BY <2>1, SettledStays DEF TakenInv
<1>4. handled' = handled \/ \E p \in Polls : Finish(p) /\ handled' = handled \cup poll[p].taken
  BY DEF Next, Step, vars, Touch, Tick, Start, Select, SelectFails, Check,
         CreateRecord, AuditCreate, Notify, AuditFailure, Finish, Crash
<1>5. QED
  BY <1>2, <1>3, <1>4 DEF HandledIsSettled, Settled

\* A completed run leaves each of its candidates with a record or a failure row,
\* whatever ran beside it and whatever died before it: the watermark never hides
\* a candidate without a trace.
THEOREM CandidatesSettled == Spec => []HandledIsSettled
<1>1. Init => TakenInv /\ HandledIsSettled
  BY DEF Init, TakenInv, HandledIsSettled, Idle, Run_
<1>2. TypeOK /\ TypeOK' /\ TakenInv /\ HandledIsSettled /\ [Next]_vars
        => TakenInv' /\ HandledIsSettled'
  BY NextTaken, NextHandled
<1>3. QED
  BY PollerTypes, <1>1, <1>2, PTL DEF Spec

-----------------------------------------------------------------------------
(* The poller of wins: a record without an owner is asked about *)

\* UnownedIsAsked is inductive: a record is made by a run that then has it in
\* hand until it has asked or written the failure row.
LEMMA NextUnowned ==
  ASSUME TypeOK, TypeOK', UnownedIsAsked, [Next]_vars PROVE UnownedIsAsked'
<1> DEFINE InHand(q, o) == poll[q].opp = o /\ poll[q].pc \in {"created", "failed", "notify"}
<1>1. SUFFICES ASSUME NEW o \in Opps \ Owned, records'[o] # 0
               PROVE  \/ o \in asked' \/ FailureAudited(o)' \/ o \in unasked'
                      \/ \E p \in Polls : InHand(p, o)'
  BY DEF UnownedIsAsked
<1>3. asked \subseteq asked' /\ audit \subseteq audit' /\ unasked \subseteq unasked'
  BY DEF Next, Step, vars, Touch, Tick, Start, Select, SelectFails, Check,
         CreateRecord, AuditCreate, Notify, AuditFailure, Finish, Crash
<1>4. ASSUME NEW p \in Polls, InHand(p, o)
      PROVE  o \in asked' \/ FailureAudited(o)' \/ o \in unasked' \/ InHand(p, o)'
  <2>1. CASE poll'[p] = poll[p]
    BY <1>4, <2>1
  <2>2. CASE AuditCreate(p)
    BY <1>4, <2>2, GotoFields DEF AuditCreate
  <2>3. CASE Notify(p)
    BY <1>4, <2>3 DEF Notify
  <2>4. CASE AuditFailure(p)
    BY <1>4, <2>4 DEF AuditFailure, FailureAudited
  <2>5. poll[p].pc \in {"created", "failed", "notify"}
    BY <1>4
  <2>8. CASE Crash(p)
    BY <1>4, <2>8 DEF Crash
  <2>6. \/ poll'[p] = poll[p] \/ AuditCreate(p) \/ Notify(p) \/ AuditFailure(p) \/ Crash(p)
    <3>1. CASE (\E c \in Opps : Touch(c)) \/ Tick \/ UNCHANGED vars
      BY <3>1 DEF Touch, Tick, vars
    <3>2. ASSUME NEW q \in Polls, Step(q) \/ Crash(q), q # p PROVE poll'[p] = poll[p]
      BY <3>2 DEF TypeOK, Step, Start, Select, SelectFails, Check, CreateRecord,
                  AuditCreate, Notify, AuditFailure, Finish, Crash, Goto
    <3>3. CASE Step(p)
      BY <3>3, <2>5 DEF Step, Start, Select, SelectFails, Check, CreateRecord, Finish
    <3>4. QED
      BY <3>1, <3>2, <3>3 DEF Next
  <2>7. QED
    BY <2>1, <2>2, <2>3, <2>4, <2>6, <2>8
<1>5. CASE records[o] # 0
  BY <1>3, <1>4, <1>5 DEF UnownedIsAsked, FailureAudited
<1>6. CASE records[o] = 0
  <2>1. PICK p \in Polls : CreateRecord(p)
    BY <1>1, <1>6 DEF Next, Step, vars, Touch, Tick, Start, Select, SelectFails,
       Check, AuditCreate, Notify, AuditFailure, Finish, Crash
  <2>2. o = poll[p].opp
    BY <1>1, <1>6, <2>1 DEF CreateRecord, TypeOK
  <2>3. \E pc \in {"created", "failed"} : Goto(p, pc, o)
    BY <2>1, <2>2 DEF CreateRecord
  <2>4. InHand(p, o)'
    BY <2>3, GotoFields
  <2>5. QED
    BY <2>4
<1>7. QED
  BY <1>5, <1>6

\* Nobody's record goes unnoticed unless its create was taken for a failure, which
\* has its row, or the very call or run that should have asked was lost.
THEOREM UnownedAsked == Spec => []UnownedIsAsked
<1>1. Init => UnownedIsAsked
  BY DEF Init, UnownedIsAsked
<1>2. QED
  BY PollerTypes, <1>1, NextUnowned, PTL DEF Spec

-----------------------------------------------------------------------------
(* The poller of wins: runs that follow one another make one record *)

\* A run about to create has seen no record, and nobody else makes one.
AloneInv ==
  /\ OneOnboardingPerWin
  /\ \A p \in Polls : poll[p].pc = "create" => records[poll[p].opp] = 0

\* With at most one run at a time, a record is made only where there is none.
LEMMA NextAlone ==
  ASSUME \A p, q \in Polls : p = q, TypeOK, TypeOK', AloneInv, [Next]_vars
  PROVE  AloneInv'
<1>1. CASE \E p \in Polls : CreateRecord(p)
  <2>1. PICK p \in Polls : CreateRecord(p)
    BY <1>1
  <2>2. poll[p].pc = "create" /\ poll[p].opp \in Opps /\ records[poll[p].opp] = 0
    BY <2>1 DEF CreateRecord, AloneInv, TypeOK, Run
  <2>3. records' \in {records, [records EXCEPT ![poll[p].opp] = @ + 1]}
    BY <2>1 DEF CreateRecord
  <2>4. OneOnboardingPerWin'
    BY <2>2, <2>3 DEF TypeOK, AloneInv, OneOnboardingPerWin
  <2>5. \E pc \in {"created", "failed"} : Goto(p, pc, poll[p].opp)
    BY <2>1 DEF CreateRecord
  <2>6. poll'[p].pc # "create"
    BY <2>5, GotoFields
  <2>7. QED
    BY <2>4, <2>6 DEF AloneInv
<1>2. CASE records' = records
  <2>1. ASSUME NEW p \in Polls, poll'[p].pc = "create" PROVE records[poll'[p].opp] = 0
    <3>1. CASE poll'[p] = poll[p]
      BY <2>1, <3>1 DEF AloneInv
    <3>2. CASE Check(p)
      <4>1. PICK o \in poll[p].todo :
              \/ Goto(p, IF records[o] # 0 THEN "loop" ELSE "create", o)
              \/ Goto(p, "failed", o)
        BY <3>2 DEF Check
      <4>2. QED
        BY <2>1, <4>1, GotoFields
    <3>3. CASE Select(p)
      BY <2>1, <3>3 DEF Select, TypeOK, Run_
    <3>4. CASE CreateRecord(p) \/ AuditCreate(p) \/ Notify(p) \/ AuditFailure(p)
      <4>1. \E pc \in {"created", "failed", "notify", "loop"} : Goto(p, pc, poll[p].opp)
        BY <3>4 DEF CreateRecord, AuditCreate, Notify, AuditFailure
      <4>2. QED
        BY <2>1, <4>1, GotoFields
    <3>5. QED
      BY <2>1, <3>1, <3>2, <3>3, <3>4, PollSteps
  <2>2. QED
    BY <1>2, <2>1 DEF AloneInv, OneOnboardingPerWin
<1>3. QED
  BY <1>1, <1>2 DEF Next, Step, vars, Touch, Tick, Start, Select, SelectFails,
     Check, AuditCreate, Notify, AuditFailure, Finish, Crash

\* Idempotency of the scheduled poller alone: as long as no second run can
\* overlap it, no opportunity ever gets two records, for any number of timed-out
\* creates, killed runs and edited opportunities.
THEOREM OneRecordAlone ==
  ASSUME \A p, q \in Polls : p = q PROVE Spec => []OneOnboardingPerWin
<1>1. Init => AloneInv
  BY DEF Init, AloneInv, OneOnboardingPerWin, Idle, Run_
<1>2. TypeOK /\ TypeOK' /\ AloneInv /\ [Next]_vars => AloneInv'
  BY NextAlone
<1>3. AloneInv => OneOnboardingPerWin
  BY DEF AloneInv
<1>4. QED
  BY PollerTypes, <1>1, <1>2, <1>3, PTL DEF Spec
==============================================================================
