--------------------------- MODULE Reviews_proofs ---------------------------
(***************************************************************************)
(* What the reviews of pipeline, forecast and accounts guarantee for every *)
(* value of their constants.                                               *)
(* PipelineMovers: who reads every briefing was shown the last move of     *)
(* each deal, or it was cut off behind larger ones.                        *)
(* ForecastReplay: a replay of a past day finds the deal of that day, and  *)
(* the weights in force are those last saved.                              *)
(* ProspectScores: what is unknown never helps a prospect, and an alert on *)
(* a customer rests on three factors.                                      *)
(* DealForecast: silence never helps a deal but where a bad call is        *)
(* forgotten, a strong commit has a signal, and the totals of a report are *)
(* those of its owners.                                                    *)
(***************************************************************************)
EXTENDS PipelineMovers, DealForecast, ForecastReplay, ProspectScores,
        FiniteSetsExt, FiniteSetTheorems, WellFoundedInduction, TLAPS

-----------------------------------------------------------------------------
(* Numbers *)

\* Some numbers have a least one.
LEMMA LeastOfSome ==
  ASSUME NEW S, S \subseteq Nat, S # {}
  PROVE  \E x \in S : \A y \in S : x =< y
<1>1. PICK x \in S : \A y \in S : ~ (<<y, x>> \in OpToRel(<, Nat))
  BY NatLessThanWellFounded, WFMin
<1>2. ASSUME NEW y \in S PROVE x =< y
  <2>1. x \in Nat /\ y \in Nat
    OBVIOUS
  <2>2. ~ (y < x)
    BY <1>1, <2>1 DEF OpToRel
  <2>3. QED
    BY <2>1, <2>2
<1>3. QED
  BY <1>1, <1>2

\* Min is the least one.
LEMMA MinIsLeast ==
  ASSUME NEW S, S \subseteq Nat, S # {}
  PROVE  Min(S) \in S /\ \A y \in S : Min(S) =< y
<1>1. PICK x \in S : \A y \in S : x =< y
  BY LeastOfSome
<1>2. QED
  BY <1>1 DEF Min

-----------------------------------------------------------------------------
(* Snapshots of the pipeline and their briefings *)

Rows == UNION {[S -> Deals] : S \in SUBSET Opps}

(* A snapshot has rows of deals, a process that fetched is of a day that   *)
(* has come, and a briefing without a date is the first.                   *)
MoversTypes ==
    /\ deals \in [Opps -> Deals] /\ today \in 1 .. LastMorning
    /\ snapshots \in [1 .. LastMorning -> Rows] /\ \A d \in SnapshotDates : d =< today
    /\ \A p \in Snappers : \/ snapper[p] = AtHome
                           \/ /\ snapper[p].on \in 1 .. today
                              /\ snapper[p].rows \in Rows
    /\ DOMAIN snapper = Snappers
    /\ report.date \in 0 .. today /\ report.prev \in 0 .. today
    /\ report.date = 0 => report = NoBriefing
    /\ heard \in [Opps -> Ranks \union {0}] /\ cut \subseteq Opps

MoversIInv == MoversTypes /\ NoMoveIsLost /\ ReportSpeaksOfBoth

\* What the bounds are.
LEMMA MoversConstants ==
  /\ Edited \subseteq Opps /\ OpenRanks \subseteq 1 .. 5 /\ OpenRanks # {}
  /\ Values \subseteq Int /\ Values # {} /\ CloseDates \subseteq Nat /\ CloseDates # {}
  /\ AcvDelta \in Int /\ PushBy \in Int /\ LastMorning \in Nat \ {0} /\ Windows \subseteq Nat
  /\ TopMovers \in Nat
BY MoversAssumption

\* Some dates have a last one.
LEMMA LatestIsLast ==
  ASSUME NEW S, S \subseteq 1 .. LastMorning, S # {}
  PROVE  Latest(S) \in S /\ \A e \in S : e =< Latest(S)
<1> DEFINE R == {LastMorning - e : e \in S}
<1>1. LastMorning \in Nat
  BY MoversConstants
<1>2. R \subseteq Nat /\ R # {}
  <2>1. \A e \in S : e \in Int /\ e =< LastMorning
    BY <1>1
  <2>2. \A e \in S : LastMorning - e \in Nat
    BY <1>1, <2>1
  <2>3. QED
    BY <2>2
<1>3. PICK r \in R : \A y \in R : r =< y
  BY <1>2, LeastOfSome
<1>4. PICK d \in S : r = LastMorning - d
  BY <1>3
<1>5. \A e \in S : e =< d
  <2> TAKE e \in S
  <2>1. r =< LastMorning - e
    BY <1>3
  <2>2. e \in Int /\ d \in Int
    OBVIOUS
  <2>3. QED
    BY <1>1, <1>4, <2>1, <2>2
<1>6. QED
  BY <1>4, <1>5 DEF Latest

\* A row of a snapshot is a deal.
LEMMA RowOf ==
  ASSUME NEW rows \in Rows
  PROVE  /\ DOMAIN rows \subseteq Opps /\ rows \in [DOMAIN rows -> Deals]
         /\ \A o \in DOMAIN rows : rows[o] \in Deals /\ rows[o].stage \in Ranks
<1>1. PICK S \in SUBSET Opps : rows \in [S -> Deals]
  BY DEF Rows
<1>2. \A d \in Deals : d.stage \in Ranks
  BY DEF Deals
<1>3. QED
  BY <1>1, <1>2

LEMMA NoRowsAreRows == NoRows \in Rows /\ DOMAIN NoRows = {}
<1>1. NoRows \in [{} -> Deals] /\ {} \in SUBSET Opps /\ DOMAIN NoRows = {}
  BY DEF NoRows
<1>2. QED
  BY <1>1 DEF Rows

\* Each deal of the first day is open.
LEMMA OpenedIsDeal == ASSUME NEW o PROVE Opened(o) \in Deals
<1>1. OpenRanks \subseteq Nat /\ OpenRanks # {}
  BY MoversConstants
<1>2. PICK r \in OpenRanks : \A q \in OpenRanks : r =< q
  BY <1>1, LeastOfSome
<1>3. (CHOOSE k \in OpenRanks : \A q \in OpenRanks : k =< q) \in OpenRanks
  BY <1>2
<1>4. PICK c \in CloseDates : \A d \in CloseDates : c =< d
  BY MoversConstants, LeastOfSome
<1>5. (CHOOSE k \in CloseDates : \A d \in CloseDates : k =< d) \in CloseDates
  BY <1>4
<1>6. (CHOOSE a \in Values : TRUE) \in Values
  BY MoversConstants
<1>7. QED
  BY <1>3, <1>5, <1>6 DEF Opened, Deals, Ranks

\* Each mover is of a deal of the two snapshots, and a deal that is new or has
\* another stage has one that says so.
LEMMA DiffTells ==
  ASSUME NEW before \in Rows, NEW after \in Rows
  PROVE  /\ \A m \in Diff(before, after) :
              m.kind \in {"advanced", "slipped", "pushed", "amount_up", "amount_down"}
                => m.opp \in DOMAIN before \intersect DOMAIN after
         /\ \A o \in DOMAIN after :
              (o \in DOMAIN before => before[o].stage # after[o].stage)
                => \E m \in Diff(before, after) : m.opp = o /\ m.kind \in StageKinds
<1> DEFINE A == DOMAIN after
           B == DOMAIN before
           New == {Mover(o, "new", after[o].acv) : o \in A \ B}
           Both == UNION {Compare(o, before[o], after[o]) : o \in A \intersect B}
           Gone == UNION {Dropped(o, before[o]) : o \in B \ A}
<1>1. Diff(before, after) = New \union Both \union Gone
  BY DEF Diff
<1>3. ASSUME NEW m \in New PROVE m.opp \in A \ B /\ m.kind = "new"
  BY DEF Mover
<1>4. ASSUME NEW m \in Both PROVE m.opp \in A \intersect B
  <2>1. PICK o \in A \intersect B : m \in Compare(o, before[o], after[o])
    OBVIOUS
  <2>2. m.opp = o
    BY <2>1 DEF Compare, Mover
  <2>3. QED
    BY <2>1, <2>2
<1>5. ASSUME NEW m \in Gone PROVE m.opp \in B \ A /\ m.kind \in {"won", "lost"}
  <2>1. PICK o \in B \ A : m \in Dropped(o, before[o])
    OBVIOUS
  <2>2. m.opp = o /\ m.kind \in {"won", "lost"}
    BY <2>1 DEF Dropped, Mover
  <2>3. QED
    BY <2>1, <2>2
<1>6. ASSUME NEW m \in Diff(before, after),
             m.kind \in {"advanced", "slipped", "pushed", "amount_up", "amount_down"}
      PROVE  m.opp \in B \intersect A
  BY <1>1, <1>3, <1>4, <1>5, <1>6
<1>7. ASSUME NEW o \in A, o \in B => before[o].stage # after[o].stage
      PROVE  \E m \in Diff(before, after) : m.opp = o /\ m.kind \in StageKinds
  <2>1. CASE o \notin B
    <3> DEFINE m == Mover(o, "new", after[o].acv)
    <3>1. m \in New /\ m.opp = o /\ m.kind \in StageKinds
      BY <2>1 DEF Mover, StageKinds
    <3> HIDE DEF m
    <3>2. QED
      BY <1>1, <3>1
  <2>2. CASE o \in B
    <3> DEFINE k == StageKind(before[o].stage, after[o].stage)
               m == Mover(o, k, after[o].acv)
    <3>1. m \in Compare(o, before[o], after[o])
      BY <1>7, <2>2 DEF Compare
    <3>2. k \in StageKinds
      BY DEF StageKind, StageKinds
    <3>3. m \in Both /\ m.opp = o /\ m.kind = k
      BY <2>2, <3>1 DEF Mover
    <3> HIDE DEF m, k
    <3>4. QED
      BY <1>1, <3>2, <3>3
  <2>3. QED
    BY <2>1, <2>2
<1>8. QED
  BY <1>6, <1>7

\* A move that Top leaves out has as many movers before it as are printed.
LEMMA LeftOutIsCrowded ==
  ASSUME NEW movers, NEW shown \in SUBSET movers, Top(shown, movers),
         NEW o \in Moved(movers) \ Moved(shown)
  PROVE  Crowded(o, movers)
<1>1. PICK m \in movers : m.opp = o /\ m.kind \in StageKinds
  BY DEF Moved
<1>2. o \in Opps /\ m \notin shown
  BY <1>1 DEF Moved
<1>3. shown # movers /\ Cardinality(shown) = TopMovers
  BY <1>2 DEF Top
<1>4. \A x \in shown : x \in movers \ {m} /\ x.size >= m.size
  BY <1>2 DEF Top
<1>5. shown \in SUBSET {x \in movers \ {m} : x.size >= m.size}
  BY <1>4
<1>6. QED
  BY <1>1, <1>3, <1>5 DEF Crowded

\* Rows of an earlier run of the day stay.
LEMMA MergedRows ==
  ASSUME NEW old \in Rows, NEW new \in Rows
  PROVE  /\ Merged(old, new) \in Rows /\ DOMAIN old \subseteq DOMAIN Merged(old, new)
         /\ \A o \in DOMAIN old : Merged(old, new)[o] = old[o]
         /\ DOMAIN Merged(old, new) = DOMAIN old => Merged(old, new) = old
<1> DEFINE D == DOMAIN old \union DOMAIN new
<1>1. DOMAIN old \subseteq Opps /\ DOMAIN new \subseteq Opps
  BY RowOf
<1>2. \A o \in D : (IF o \in DOMAIN old THEN old[o] ELSE new[o]) \in Deals
  BY RowOf
<1>3. Merged(old, new) \in [D -> Deals] /\ D \in SUBSET Opps
  BY <1>1, <1>2 DEF Merged
<1>4. Merged(old, new) \in Rows
  BY <1>3 DEF Rows
<1>5. \A o \in DOMAIN old : Merged(old, new)[o] = old[o]
  BY DEF Merged
<1>6. ASSUME DOMAIN Merged(old, new) = DOMAIN old PROVE Merged(old, new) = old
  <2>1. D = DOMAIN old /\ old \in [D -> Deals]
    BY <1>3, <1>6, RowOf
  <2>2. \A o \in D : Merged(old, new)[o] = old[o]
    BY <1>5, <2>1
  <2>3. QED
    BY <1>3, <2>1, <2>2
<1>7. QED
  BY <1>3, <1>4, <1>5, <1>6

\* At first no snapshot was taken and no briefing sent.
LEMMA MoversInitially == MoversInit => MoversIInv
<1> SUFFICES ASSUME MoversInit PROVE MoversIInv
  OBVIOUS
<1> USE DEF MoversInit
<1>1. deals \in [Opps -> Deals]
  BY OpenedIsDeal
<1>2. today \in 1 .. LastMorning
  BY MoversConstants
<1>3. snapshots \in [1 .. LastMorning -> Rows] /\ SnapshotDates = {}
  BY NoRowsAreRows DEF SnapshotDates
<1>4. heard \in [Opps -> Ranks \union {0}] /\ cut \subseteq Opps /\ DOMAIN snapper = Snappers
      /\ \A p \in Snappers : snapper[p] = AtHome
  OBVIOUS
<1>5. report = NoBriefing /\ report.date = 0 /\ report.prev = 0
  BY DEF NoBriefing
<1>6. MoversTypes
  BY <1>1, <1>2, <1>3, <1>4, <1>5 DEF MoversTypes
<1>7. QED
  BY <1>5, <1>6 DEF MoversIInv, NoMoveIsLost, ReportSpeaksOfBoth

\* Steps that change neither snapshots nor briefings.
LEMMA RestKept ==
  ASSUME MoversIInv, deals' \in [Opps -> Deals], today' \in 1 .. LastMorning, today =< today',
         UNCHANGED <<snapshots, snapper, report, heard, cut, late, missed>>
  PROVE  MoversIInv'
<1> USE DEF MoversIInv, MoversTypes
<1>1. today \in Nat /\ today' \in Nat
  BY MoversConstants
<1>2. SnapshotDates' = SnapshotDates
  BY DEF SnapshotDates
<1>3. \A d \in SnapshotDates : d =< today'
  BY <1>1, <1>2 DEF SnapshotDates
<1>4. \A p \in Snappers : snapper'[p] = AtHome
                         \/ (snapper'[p].on \in 1 .. today' /\ snapper'[p].rows \in Rows)
  BY <1>1
<1>5. report'.date \in 0 .. today' /\ report'.prev \in 0 .. today'
  BY <1>1
<1>6. Rows' = Rows
  OBVIOUS
<1>7. MoversTypes'
  BY <1>2, <1>3, <1>4, <1>5, <1>6
<1>8. NoMoveIsLost' /\ ReportSpeaksOfBoth'
  BY DEF NoMoveIsLost, ReportSpeaksOfBoth
<1>9. QED
  BY <1>7, <1>8

\* A deal is changed, or the night passes.
LEMMA OrgMoves ==
  ASSUME MoversIInv,
         NextDay \/ \E o \in Edited, new \in Deals : ChangeDeal(o, new)
  PROVE  MoversIInv'
<1> USE DEF MoversIInv, MoversTypes
<1>1. CASE NextDay
  <2>1. today' \in 1 .. LastMorning /\ today =< today'
    BY <1>1, MoversConstants DEF NextDay
  <2>2. QED
    BY <1>1, <2>1, RestKept DEF NextDay
<1>2. ASSUME NEW o \in Edited, NEW new \in Deals, ChangeDeal(o, new) PROVE MoversIInv'
  <2>1. deals' \in [Opps -> Deals]
    BY <1>2 DEF ChangeDeal
  <2>2. today' = today /\ today =< today
    BY <1>2, MoversConstants DEF ChangeDeal
  <2>3. QED
    BY <1>2, <2>1, <2>2, RestKept DEF ChangeDeal
<1>3. QED
  BY <1>1, <1>2

\* A process fetches, or is killed.
LEMMA SnapperMoves ==
  ASSUME MoversIInv, NEW p \in Snappers, FetchOpps(p) \/ KillSnapshot(p)
  PROVE  MoversIInv'
<1> USE DEF MoversIInv, MoversTypes
<1>1. UNCHANGED <<deals, today, snapshots, report, heard, cut, late, missed>>
  BY DEF FetchOpps, KillSnapshot
<1>2. DOMAIN snapper' = Snappers /\ \A q \in Snappers \ {p} : snapper'[q] = snapper[q]
  BY DEF FetchOpps, KillSnapshot
<1>3. snapper'[p] = AtHome \/ (snapper'[p].on \in 1 .. today /\ snapper'[p].rows \in Rows)
  <2>1. CASE FetchOpps(p)
    <3> DEFINE rows == [o \in OpenOpps |-> deals[o]]
    <3>1. OpenOpps \in SUBSET Opps /\ rows \in [OpenOpps -> Deals]
      BY DEF OpenOpps
    <3>2. rows \in Rows
      BY <3>1 DEF Rows
    <3>3. snapper'[p] = [on |-> today, rows |-> rows]
      BY <2>1 DEF FetchOpps
    <3>4. today \in 1 .. today
      BY MoversConstants
    <3>5. QED
      BY <3>2, <3>3, <3>4
  <2>2. CASE KillSnapshot(p)
    BY <2>2 DEF KillSnapshot
  <2>3. QED
    BY <2>1, <2>2
<1>4. \A q \in Snappers : snapper'[q] = AtHome
                         \/ (snapper'[q].on \in 1 .. today /\ snapper'[q].rows \in Rows)
  BY <1>2, <1>3
<1>5. SnapshotDates' = SnapshotDates /\ Rows' = Rows
  BY <1>1 DEF SnapshotDates
<1>6. MoversTypes'
  BY <1>1, <1>2, <1>4, <1>5
<1>7. NoMoveIsLost' /\ ReportSpeaksOfBoth'
  BY <1>1 DEF NoMoveIsLost, ReportSpeaksOfBoth
<1>8. QED
  BY <1>6, <1>7

\* A write adds rows to its day, and says so when that day was briefed.
LEMMA WriteKeeps ==
  ASSUME MoversIInv, NEW p \in Snappers, WriteSnapshot(p)
  PROVE  MoversIInv'
<1> USE DEF MoversIInv
<1> DEFINE d == snapper[p].on
           all == Merged(snapshots[d], snapper[p].rows)
<1>1. /\ snapper[p] # AtHome
      /\ snapshots' = [snapshots EXCEPT ![d] = all]
      /\ late' <=> (late \/ (d =< report.date /\ DOMAIN all # DOMAIN snapshots[d]))
      /\ snapper' = [snapper EXCEPT ![p] = AtHome]
      /\ UNCHANGED <<deals, today, report, heard, cut, missed>>
  BY DEF WriteSnapshot
<1>2. /\ d \in 1 .. today /\ snapper[p].rows \in Rows /\ today \in 1 .. LastMorning
      /\ d \in 1 .. LastMorning /\ snapshots[d] \in Rows
  <2>1. d \in 1 .. today /\ snapper[p].rows \in Rows /\ today \in 1 .. LastMorning
    BY <1>1 DEF MoversTypes
  <2>2. d \in 1 .. LastMorning
    BY <2>1, MoversConstants
  <2>3. QED
    BY <2>1, <2>2 DEF MoversTypes
<1>3. /\ all \in Rows /\ DOMAIN snapshots[d] \subseteq DOMAIN all
      /\ DOMAIN all = DOMAIN snapshots[d] => all = snapshots[d]
  BY <1>2, MergedRows
<1> HIDE DEF d, all
<1>4. /\ DOMAIN snapshots = 1 .. LastMorning /\ DOMAIN snapshots' = 1 .. LastMorning
      /\ snapshots'[d] = all
      /\ \A e \in 1 .. LastMorning : e # d => snapshots'[e] = snapshots[e]
  BY <1>1, <1>2 DEF MoversTypes
<1>5. snapshots' \in [1 .. LastMorning -> Rows]
  BY <1>1, <1>2, <1>3 DEF MoversTypes
<1>6. \A e \in SnapshotDates' : e =< today
  <2> SUFFICES ASSUME NEW e \in SnapshotDates' PROVE e =< today
    OBVIOUS
  <2>1. CASE e = d
    BY <1>2, <2>1
  <2>2. CASE e # d
    BY <1>4, <2>2 DEF SnapshotDates, MoversTypes
  <2>3. QED
    BY <2>1, <2>2
<1>7. /\ DOMAIN snapper' = Snappers /\ snapper'[p] = AtHome
      /\ \A q \in Snappers \ {p} : snapper'[q] = snapper[q]
  BY <1>1 DEF MoversTypes
<1>8. MoversTypes'
  <2>1. \A q \in Snappers : snapper'[q] = AtHome
                           \/ (snapper'[q].on \in 1 .. today' /\ snapper'[q].rows \in Rows)
    BY <1>1, <1>7 DEF MoversTypes
  <2>2. Rows' = Rows
    OBVIOUS
  <2>3. QED
    BY <1>1, <1>5, <1>6, <1>7, <2>1, <2>2 DEF MoversTypes
<1>9. ASSUME report # NoBriefing
      PROVE  report.date \in 1 .. LastMorning
  BY <1>9, MoversConstants DEF MoversTypes
<1>10. NoMoveIsLost'
  <2> SUFFICES ASSUME ~ missed, ~ late', report # NoBriefing,
                      NEW o \in DOMAIN snapshots'[report.date] \ cut
               PROVE  heard[o] = snapshots'[report.date][o].stage
    BY <1>1 DEF NoMoveIsLost
  <2>1. snapshots'[report.date] = snapshots[report.date]
    <3>1. CASE report.date = d
      <4>1. DOMAIN all = DOMAIN snapshots[d]
        BY <1>1, <1>2, <3>1
      <4>2. QED
        BY <1>3, <1>4, <3>1, <4>1
    <3>2. CASE report.date # d
      BY <1>4, <1>9, <3>2
    <3>3. QED
      BY <3>1, <3>2
  <2>2. QED
    BY <1>1, <2>1 DEF NoMoveIsLost
<1>11. ReportSpeaksOfBoth'
  <2> SUFFICES ASSUME report.prev # 0
               PROVE  /\ report.prev < report.date
                      /\ \A m \in report.movers :
                            m.kind \in {"advanced", "slipped", "pushed", "amount_up", "amount_down"}
                              => m.opp \in DOMAIN snapshots'[report.prev]
                                             \intersect DOMAIN snapshots'[report.date]
    BY <1>1 DEF ReportSpeaksOfBoth
  <2>1. \A e \in 1 .. LastMorning : DOMAIN snapshots[e] \subseteq DOMAIN snapshots'[e]
    BY <1>3, <1>4
  <2>2. report.prev < report.date
    BY DEF ReportSpeaksOfBoth
  <2>3. report.prev \in 1 .. LastMorning /\ report.date \in 1 .. LastMorning
    BY <1>2, <2>2, MoversConstants DEF MoversTypes
  <2>4. QED
    BY <2>1, <2>2, <2>3 DEF ReportSpeaksOfBoth
<1>12. QED
  BY <1>8, <1>10, <1>11

\* A briefing shows or cuts off each move, and the reader has heard of the rest.
LEMMA BriefKeeps ==
  ASSUME MoversIInv, NEW w \in Windows, Brief(w)
  PROVE  MoversIInv'
<1> USE DEF MoversIInv
<1> DEFINE date == Current
           prev == Previous(date, w)
           before == IF prev = 0 THEN NoRows ELSE snapshots[prev]
           after == snapshots[date]
           movers == Diff(before, after)
<1>1. /\ SnapshotDates # {}
      /\ report' = [date |-> date, prev |-> prev, movers |-> movers]
      /\ missed' <=> (prev # 0 /\ (missed \/ report.date \notin {prev, date}))
      /\ late' <=> (late /\ prev # 0)
      /\ UNCHANGED <<deals, today, snapshots, snapper>>
  BY DEF Brief
<1>2. /\ date \in SnapshotDates /\ date \in 1 .. LastMorning /\ date =< today
      /\ today \in 1 .. LastMorning
  <2>1. {d \in SnapshotDates : d =< today} = SnapshotDates
    BY DEF MoversTypes
  <2>2. SnapshotDates \subseteq 1 .. LastMorning
    BY DEF SnapshotDates
  <2>3. Current \in SnapshotDates
    BY <1>1, <2>1, <2>2, LatestIsLast DEF Current
  <2>4. QED
    BY <2>2, <2>3 DEF MoversTypes
<1>3. prev = 0 \/ (prev \in 1 .. LastMorning /\ prev < date)
  <2> DEFINE S == {d \in SnapshotDates : d < date}
  <2>1. S \subseteq 1 .. LastMorning
    BY DEF SnapshotDates
  <2>2. prev = 0 \/ prev = Latest(S)
    BY DEF Previous
  <2>3. CASE S = {}
    BY <2>2, <2>3 DEF Latest
  <2>4. CASE S # {}
    BY <2>1, <2>2, <2>4, LatestIsLast
  <2>5. QED
    BY <2>3, <2>4
<1>4. before \in Rows /\ after \in Rows
  BY <1>2, <1>3, NoRowsAreRows DEF MoversTypes
<1> HIDE DEF date, prev
<1>5. /\ \A m \in movers :
            m.kind \in {"advanced", "slipped", "pushed", "amount_up", "amount_down"}
              => m.opp \in DOMAIN before \intersect DOMAIN after
      /\ \A o \in DOMAIN after :
            (o \in DOMAIN before => before[o].stage # after[o].stage)
              => \E m \in movers : m.opp = o /\ m.kind \in StageKinds
  BY <1>4, DiffTells
<1>a. PICK shown \in SUBSET movers :
        /\ Top(shown, movers)
        /\ heard' = [o \in Opps |-> IF o \in Moved(shown) \intersect DOMAIN after
                                    THEN after[o].stage ELSE heard[o]]
        /\ cut' = (cut \ Moved(movers))
                   \union {o \in Moved(movers) \ Moved(shown) : Crowded(o, movers)}
  BY DEF Brief, date, prev
<1> HIDE DEF movers
<1>b. Moved(shown) \subseteq Moved(movers) /\ Moved(movers) \subseteq Opps
  BY DEF Moved
<1>6. ASSUME NEW o \in Moved(shown), o \in DOMAIN after PROVE heard'[o] = after[o].stage
  BY <1>a, <1>b, <1>6
<1>7. ASSUME NEW o \in Opps, o \notin Moved(movers)
      PROVE  heard'[o] = heard[o] /\ (o \in cut' <=> o \in cut)
  BY <1>a, <1>b, <1>7
<1>c. ASSUME NEW o \in Moved(movers), o \notin cut' PROVE o \in Moved(shown)
  BY <1>a, <1>c, LeftOutIsCrowded
<1>8. heard' \in [Opps -> Ranks \union {0}] /\ cut' \subseteq Opps
  <2>1. \A o \in DOMAIN after : after[o].stage \in Ranks
    BY <1>4, RowOf
  <2>2. heard' \in [Opps -> Ranks \union {0}]
    BY <1>a, <2>1 DEF MoversTypes
  <2>3. QED
    BY <1>a, <1>b, <2>2 DEF MoversTypes
<1>9. SnapshotDates' = SnapshotDates /\ Rows' = Rows
  BY <1>1 DEF SnapshotDates
<1>10. report'.date = date /\ report'.prev = prev /\ report'.movers = movers
  BY <1>1
<1>11. MoversTypes'
  <2>1. report'.date \in 0 .. today /\ report'.prev \in 0 .. today /\ report'.date # 0
    BY <1>2, <1>3, <1>10, MoversConstants
  <2>2. QED
    BY <1>1, <1>8, <1>9, <2>1 DEF MoversTypes
<1>12. ReportSpeaksOfBoth'
  <2> SUFFICES ASSUME prev # 0
               PROVE  /\ prev < date
                      /\ \A m \in movers :
                            m.kind \in {"advanced", "slipped", "pushed", "amount_up", "amount_down"}
                              => m.opp \in DOMAIN snapshots[prev] \intersect DOMAIN snapshots[date]
    BY <1>1, <1>10 DEF ReportSpeaksOfBoth
  <2>1. QED
    BY <1>3, <1>5
<1>13. NoMoveIsLost'
  <2> SUFFICES ASSUME ~ missed', ~ late', NEW o \in DOMAIN after \ cut'
               PROVE  heard'[o] = after[o].stage
    BY <1>1, <1>10 DEF NoMoveIsLost
  <2>1. o \in Opps
    BY <1>4, RowOf
  <2>2. CASE o \in Moved(movers)
    BY <1>6, <1>c, <2>2
  <2>3. CASE o \notin Moved(movers)
    <3>1. o \in DOMAIN before /\ before[o].stage = after[o].stage
      BY <1>5, <2>1, <2>3 DEF Moved
    <3>2. prev # 0
      BY <3>1, NoRowsAreRows
    <3>3. ~ missed /\ ~ late /\ report.date \in {prev, date}
      BY <1>1, <3>2
    <3>4. report # NoBriefing
      <4>1. report.date # 0
        BY <1>2, <3>2, <3>3
      <4>2. QED
        BY <4>1 DEF NoBriefing
    <3>5. \A q \in DOMAIN snapshots[report.date] \ cut :
            heard[q] = snapshots[report.date][q].stage
      BY <3>3, <3>4 DEF NoMoveIsLost
    <3>a. o \notin cut
      BY <1>7, <2>1, <2>3
    <3>6. heard[o] = after[o].stage
      <4>1. CASE report.date = date
        BY <3>5, <3>a, <4>1
      <4>2. CASE report.date = prev
        BY <3>1, <3>2, <3>5, <3>a, <4>2
      <4>3. QED
        BY <3>3, <4>1, <4>2
    <3>7. QED
      BY <1>7, <2>1, <2>3, <3>6
  <2>4. QED
    BY <2>2, <2>3
<1>14. QED
  BY <1>11, <1>12, <1>13

LEMMA MoversStep == MoversIInv /\ [MoversNext]_moversVars => MoversIInv'
<1> SUFFICES ASSUME MoversIInv, [MoversNext]_moversVars PROVE MoversIInv'
  OBVIOUS
<1>1. ASSUME NEW p \in Snappers, FetchOpps(p) \/ KillSnapshot(p) PROVE MoversIInv'
  BY <1>1, SnapperMoves
<1>2. ASSUME NEW p \in Snappers, WriteSnapshot(p) PROVE MoversIInv'
  BY <1>2, WriteKeeps
<1>3. ASSUME NEW w \in Windows, Brief(w) PROVE MoversIInv'
  BY <1>3, BriefKeeps
<1>4. CASE NextDay \/ \E o \in Edited, new \in Deals : ChangeDeal(o, new)
  BY <1>4, OrgMoves
<1>5. CASE UNCHANGED moversVars
  BY <1>5, RestKept, MoversConstants DEF moversVars, MoversIInv, MoversTypes
<1>6. QED
  BY <1>1, <1>2, <1>3, <1>4, <1>5 DEF MoversNext

LEMMA MoversIInvImplies == MoversIInv => MoversInv
<1> SUFFICES ASSUME MoversIInv PROVE MoversInv
  OBVIOUS
<1> USE DEF MoversIInv, MoversTypes
<1>1. \A d \in 1 .. LastMorning : DOMAIN snapshots[d] \subseteq Opps
  BY RowOf
<1>2. \A p \in Snappers : snapper[p].on \in 0 .. today
  BY MoversConstants DEF AtHome
<1>3. MoversTypeOK
  BY <1>1, <1>2 DEF MoversTypeOK
<1>4. QED
  BY <1>3 DEF MoversInv

(* Briefings: over missed days, re-runs and overlapping snapshots, who     *)
(* reads every briefing was shown the last move of stage of each deal of   *)
(* the last one, or it was cut off behind movers as large (diff, top,      *)
(* latest_snapshot_date, DO NOTHING on a re-run), and a briefing compares  *)
(* an earlier date with a later and speaks of deals they hold.             *)
THEOREM MoversHold == MoversSpec => []MoversInv
<1>1. MoversInit => MoversIInv
  BY MoversInitially
<1>2. MoversIInv /\ [MoversNext]_moversVars => MoversIInv'
  BY MoversStep
<1>3. MoversIInv => MoversInv
  BY MoversIInvImplies
<1>4. QED
  BY <1>1, <1>2, <1>3, PTL DEF MoversSpec
-----------------------------------------------------------------------------
(* The replay of a deal's past, and the weights in force *)

ReplayDeals == [stage : OpenStages \union ClosedStages, acv : Acvs, close : Closes, touched : Nat]
Fields == {"stage", "acv", "close"}
Logged == [field : Fields, old : OpenStages \union ClosedStages \union Nat, on : Nat]

OrgTypes ==
    /\ opp \in ReplayDeals /\ day \in Nat \ {0}
    /\ Len(changes) =< MaxChanges /\ changes \in Seq(Logged)
    /\ \A i \in DOMAIN changes : changes[i].on =< day
    /\ stood \in Seq(ReplayDeals) /\ Len(stood) = day - 1
    /\ closedOn \in 0 .. day /\ (closedOn # 0 <=> Closed(opp))

(* Undoing the changes since a day gives the fields of that day.           *)
LogTells == \A d \in DOMAIN stood : \A f \in Fields : Undone(f, d) = stood[d][f]

(* A deal that was left alone since it was closed was closed from then on, *)
(* with the close date that it has.                                        *)
ClosedStays ==
    ~ disturbed => \A d \in DOMAIN stood :
        /\ Closed(stood[d]) <=> (closedOn # 0 /\ closedOn =< d)
        /\ Closed(stood[d]) => stood[d].close = opp.close

Versions == [n : Nat, label : {"seed", "none", "o-manual", "tuned"}, on : Nat]
HistoryRows == [date : Nat, horizon : {"FY-CURRENT", "quarter"}, kind : {"weights_update", "backtest"},
                version : Versions, weights : Samples \union {SeedWeights}]

(* The history is in the order of its days, and only weights are filed     *)
(* under FY-CURRENT.                                                       *)
HistoryTypes ==
    /\ history \in Seq(HistoryRows) /\ Len(history) =< MaxRows
    /\ \A i \in DOMAIN history : /\ history[i].date =< day
                                 /\ history[i].horizon = "FY-CURRENT" <=> i \in WeightRows
    /\ \A i, j \in DOMAIN history : i =< j => history[i].date =< history[j].date
    /\ \A i \in WeightRows : history[i].version.label \in {"o-manual", "tuned"}
    /\ proposed = NoVersion \/ (proposed \in Versions /\ proposed.label = "tuned")

(* The last row of weights holds the weights last saved.                   *)
LastRowSaved ==
    IF WeightRows = {} THEN saved = SeedWeights
    ELSE \E i \in WeightRows : (\A j \in WeightRows : j =< i) /\ history[i].weights = saved

(* As long as O sets all weights, each row has a higher version.           *)
OwnVersionsGrow ==
    (\A i \in WeightRows : history[i].version.label # "tuned") =>
        \A i, j \in WeightRows : i < j => history[i].version.n < history[j].version.n

WeighingInv == HistoryTypes /\ LastRowSaved /\ OwnVersionsGrow /\ OwnWeightsAreKept

ReplayIInv == OrgTypes /\ LogTells /\ ClosedStays /\ WeighingInv

\* What the bounds are.
LEMMA ReplayConstants ==
  Acvs \subseteq Nat /\ Closes \subseteq Nat /\ LastDay \in Nat /\ MaxChanges \in Nat /\ MaxRows \in Nat
BY ReplayAssumption

\* The fields of a deal and the places of the log.
LEMMA OrgFacts ==
  ASSUME OrgTypes
  PROVE  /\ opp.stage \in OpenStages \union ClosedStages /\ opp.acv \in Acvs /\ opp.close \in Closes
         /\ DOMAIN opp = {"stage", "acv", "close", "touched"}
         /\ DOMAIN changes = 1 .. Len(changes) /\ Len(changes) \in Nat
         /\ \A i \in DOMAIN changes : changes[i].on \in Nat /\ changes[i] \in Logged
         /\ DOMAIN stood = 1 .. day - 1
         /\ \A d \in DOMAIN stood : d \in Nat /\ d < day /\ stood[d] \in ReplayDeals
<1> USE DEF OrgTypes
<1>1. /\ opp.stage \in OpenStages \union ClosedStages /\ opp.acv \in Acvs /\ opp.close \in Closes
      /\ DOMAIN opp = {"stage", "acv", "close", "touched"}
  BY DEF ReplayDeals
<1>2. /\ DOMAIN changes = 1 .. Len(changes) /\ Len(changes) \in Nat
      /\ \A i \in DOMAIN changes : changes[i] \in Logged
  OBVIOUS
<1>3. \A r \in Logged : r.on \in Nat
  BY DEF Logged
<1>4. /\ DOMAIN stood = 1 .. day - 1
      /\ \A d \in DOMAIN stood : stood[d] \in ReplayDeals
  OBVIOUS
<1>5. \A d \in DOMAIN stood : d \in Nat /\ d < day
  BY <1>4
<1>6. QED
  BY <1>1, <1>2, <1>3, <1>4, <1>5

\* A change that is logged is the last one to be undone.
LEMMA UndoneGrows ==
  ASSUME OrgTypes, NEW f \in Fields, NEW c \in Logged, c.on = day,
         changes' = Append(changes, c), c.old = opp[c.field],
         \A g \in Fields : g # c.field => opp'[g] = opp[g],
         NEW d \in Nat, d < day
  PROVE  Undone(f, d)' = Undone(f, d)
<1> DEFINE n == Len(changes) + 1
           S == After(f, d)
<1>1. /\ DOMAIN changes = 1 .. Len(changes) /\ Len(changes) \in Nat /\ n \in Nat
      /\ changes \in Seq(Logged)
  BY OrgFacts DEF OrgTypes
<1>2. /\ DOMAIN changes' = 1 .. n /\ changes'[n] = c
      /\ \A i \in DOMAIN changes : changes'[i] = changes[i]
  BY <1>1
<1> HIDE DEF n
<1>3. DOMAIN changes' = DOMAIN changes \union {n} /\ n \notin DOMAIN changes
  BY <1>1, <1>2 DEF n
<1>4. S \subseteq Nat /\ S \subseteq DOMAIN changes /\ \A i \in S : i < n
  BY <1>1 DEF After, n
<1>5. CASE f # c.field
  <2>1. After(f, d)' = S
    BY <1>2, <1>3, <1>5 DEF After
  <2>2. CASE S = {}
    <3>1. Undone(f, d)' = opp'[f] /\ Undone(f, d) = opp[f]
      BY <2>1, <2>2 DEF Undone
    <3>2. QED
      BY <1>5, <3>1
  <2>3. CASE S # {}
    <3>1. Min(S) \in DOMAIN changes
      BY <1>4, <2>3, MinIsLeast
    <3>2. Undone(f, d)' = changes'[Min(S)].old /\ Undone(f, d) = changes[Min(S)].old
      BY <2>1, <2>3 DEF Undone
    <3>3. QED
      BY <1>2, <3>1, <3>2
  <2>4. QED
    BY <2>2, <2>3
<1>6. CASE f = c.field
  <2>1. After(f, d)' = S \union {n}
    BY <1>2, <1>3, <1>6 DEF After
  <2>2. Undone(f, d)' = changes'[Min(S \union {n})].old
    BY <2>1 DEF Undone
  <2>3. S \union {n} \subseteq Nat
    BY <1>1, <1>4
  <2>4. Min(S \union {n}) \in S \union {n} /\ \A y \in S \union {n} : Min(S \union {n}) =< y
    BY <2>3, MinIsLeast
  <2>5. CASE S = {}
    <3>1. Undone(f, d)' = c.old
      BY <1>2, <2>2, <2>4, <2>5
    <3>2. QED
      BY <1>6, <2>5, <3>1 DEF Undone
  <2>6. CASE S # {}
    <3>1. Min(S) \in S /\ \A y \in S : Min(S) =< y
      BY <1>4, <2>6, MinIsLeast
    <3> DEFINE a == Min(S)
               b == Min(S \union {n})
    <3>2. a \in Nat /\ b \in Nat /\ a < n /\ b =< a
      BY <1>4, <2>3, <2>4, <3>1
    <3>3. b \in S
      BY <1>1, <2>4, <3>2
    <3>4. a =< b
      BY <3>1, <3>3
    <3>5. a = b
      BY <3>2, <3>4
    <3>6. Undone(f, d) = changes[a].old
      BY <2>6 DEF Undone
    <3>7. a \in DOMAIN changes
      BY <1>4, <3>1
    <3>8. QED
      BY <1>2, <2>2, <3>5, <3>6, <3>7
  <2>7. QED
    BY <2>5, <2>6
<1>7. QED
  BY <1>5, <1>6

\* One field of the deal changes.
LEMMA ChangeKeeps ==
  ASSUME OrgTypes, LogTells, ClosedStays, NEW field \in Fields, NEW new, Changes(field, new),
         field = "stage" => new \in OpenStages \union ClosedStages,
         field = "acv" => new \in Acvs, field = "close" => new \in Closes,
         closedOn' = (IF field # "stage" THEN closedOn
                      ELSE IF new \in ClosedStages THEN day ELSE 0)
  PROVE  OrgTypes' /\ LogTells' /\ ClosedStays'
<1> DEFINE c == [field |-> field, old |-> opp[field], on |-> day]
<1>1. /\ Len(changes) < MaxChanges /\ opp' = [opp EXCEPT ![field] = new]
      /\ changes' = Append(changes, c)
      /\ disturbed' <=> (disturbed \/ Closed(opp))
      /\ stood' = stood /\ day' = day
  BY DEF Changes
<1>2. /\ opp.stage \in OpenStages \union ClosedStages /\ opp.acv \in Acvs /\ opp.close \in Closes
      /\ DOMAIN opp = {"stage", "acv", "close", "touched"}
      /\ Len(changes) \in Nat /\ changes \in Seq(Logged) /\ day \in Nat \ {0}
      /\ Acvs \subseteq Nat /\ Closes \subseteq Nat
  BY OrgFacts, ReplayConstants DEF OrgTypes
<1>3. \A g : g # field => opp'[g] = opp[g]
  BY <1>1
<1>4. opp' \in ReplayDeals
  <2>1. CASE field = "stage"
    BY <1>1, <2>1 DEF OrgTypes, ReplayDeals
  <2>2. CASE field = "acv"
    BY <1>1, <2>2 DEF OrgTypes, ReplayDeals
  <2>3. CASE field = "close"
    BY <1>1, <2>3 DEF OrgTypes, ReplayDeals
  <2>4. QED
    BY <2>1, <2>2, <2>3 DEF Fields
<1>5. c \in Logged
  <2>1. opp[field] \in OpenStages \union ClosedStages \union Nat
    BY <1>2 DEF Fields
  <2>2. QED
    BY <1>2, <2>1 DEF Logged
<1>6. c.on = day /\ c.old = opp[c.field] /\ c.field = field
  OBVIOUS
<1> HIDE DEF c
<1>7. /\ changes' \in Seq(Logged) /\ Len(changes') = Len(changes) + 1
      /\ DOMAIN changes' = 1 .. Len(changes) + 1 /\ DOMAIN changes = 1 .. Len(changes)
      /\ changes'[Len(changes) + 1] = c
      /\ \A i \in DOMAIN changes : changes'[i] = changes[i]
  BY <1>1, <1>2, <1>5
<1>8. \A i \in DOMAIN changes' : changes'[i].on =< day
  <2> SUFFICES ASSUME NEW i \in DOMAIN changes' PROVE changes'[i].on =< day
    OBVIOUS
  <2>1. CASE i = Len(changes) + 1
    BY <1>2, <1>6, <1>7, <2>1
  <2>2. CASE i # Len(changes) + 1
    <3>1. i \in DOMAIN changes
      BY <1>2, <1>7, <2>2
    <3>2. QED
      BY <1>7, <3>1 DEF OrgTypes
  <2>3. QED
    BY <2>1, <2>2
<1>9. closedOn' \in 0 .. day /\ (closedOn' # 0 <=> Closed(opp'))
  <2>1. CASE field = "stage"
    <3>1. opp'.stage = new /\ (closedOn' # 0 <=> new \in ClosedStages)
      BY <1>1, <1>2, <2>1
    <3>2. QED
      BY <1>2, <2>1, <3>1 DEF Closed
  <2>2. CASE field # "stage"
    BY <1>3, <2>2 DEF Closed, OrgTypes
  <2>3. QED
    BY <2>1, <2>2
<1>10. OrgTypes'
  BY <1>1, <1>2, <1>4, <1>7, <1>8, <1>9, ReplayConstants DEF OrgTypes, Closed
<1>11. LogTells'
  <2> SUFFICES ASSUME NEW d \in DOMAIN stood, NEW f \in Fields
               PROVE  Undone(f, d)' = stood[d][f]
    BY <1>1 DEF LogTells
  <2>1. d \in Nat /\ d < day
    BY OrgFacts
  <2>2. Undone(f, d)' = Undone(f, d)
    BY <1>1, <1>3, <1>5, <1>6, <2>1, UndoneGrows
  <2>3. QED
    BY <2>2 DEF LogTells
<1>12. ClosedStays'
  <2> SUFFICES ASSUME ~ disturbed', NEW d \in DOMAIN stood
               PROVE  /\ Closed(stood[d]) <=> (closedOn' # 0 /\ closedOn' =< d)
                      /\ Closed(stood[d]) => stood[d].close = opp'.close
    BY <1>1 DEF ClosedStays, Closed
  <2>1. ~ disturbed /\ ~ Closed(opp) /\ closedOn = 0
    BY <1>1 DEF OrgTypes
  <2>2. ~ Closed(stood[d])
    BY <2>1 DEF ClosedStays
  <2>3. d \in Nat /\ d < day
    BY OrgFacts
  <2>4. closedOn' = 0 \/ closedOn' = day
    BY <2>1
  <2>5. QED
    BY <1>2, <2>2, <2>3, <2>4
<1>13. QED
  BY <1>10, <1>11, <1>12

\* The rows of the history.
LEMMA HistoryFacts ==
  ASSUME HistoryTypes
  PROVE  /\ DOMAIN history = 1 .. Len(history) /\ Len(history) \in Nat
         /\ WeightRows \subseteq DOMAIN history /\ WeightRows \subseteq Nat
         /\ \A i \in DOMAIN history :
              /\ i \in Nat /\ history[i] \in HistoryRows /\ history[i].date \in Nat
              /\ history[i].version \in Versions /\ history[i].version.n \in Nat
<1>1. DOMAIN history = 1 .. Len(history) /\ Len(history) \in Nat
  BY DEF HistoryTypes
<1>2. \A i \in DOMAIN history : history[i] \in HistoryRows
  BY DEF HistoryTypes
<1>3. \A r \in HistoryRows : r.date \in Nat /\ r.version \in Versions
  BY DEF HistoryRows
<1>4. \A v \in Versions : v.n \in Nat
  BY DEF Versions
<1>5. WeightRows \subseteq DOMAIN history
  BY DEF WeightRows
<1>6. QED
  BY <1>1, <1>2, <1>3, <1>4, <1>5

\* What the weights' history knows of the deal is the day.
LEMMA WeighingKept ==
  ASSUME WeighingInv, day \in Nat, day' \in Nat, day =< day', UNCHANGED Weighing
  PROVE  WeighingInv'
<1> USE DEF WeighingInv
<1>1. history' = history /\ proposed' = proposed /\ saved' = saved /\ dropped' = dropped
  BY DEF Weighing
<1>2. WeightRows' = WeightRows
  BY <1>1 DEF WeightRows
<1>3. \A i \in DOMAIN history : history[i].date \in Nat
  BY HistoryFacts
<1>4. HistoryTypes'
  BY <1>1, <1>2, <1>3 DEF HistoryTypes
<1>5. LastRowSaved' /\ OwnVersionsGrow' /\ OwnWeightsAreKept'
  BY <1>1, <1>2 DEF LastRowSaved, OwnVersionsGrow, OwnWeightsAreKept
<1>6. QED
  BY <1>4, <1>5

\* An edit by a person.
LEMMA EditsKeep ==
  ASSUME ReplayIInv,
         \/ \E a \in Acvs : EditAcv(a)
         \/ \E k \in Closes : EditClose(k)
         \/ \E s \in OpenStages \union ClosedStages : ChangeStage(s)
  PROVE  ReplayIInv'
<1> USE DEF ReplayIInv
<1>1. day \in Nat
  BY DEF OrgTypes
<1>2. ASSUME NEW field \in Fields, NEW new, Changes(field, new),
             OrgTypes', LogTells', ClosedStays'
      PROVE  ReplayIInv'
  <2>1. day' = day /\ UNCHANGED Weighing
    BY <1>2 DEF Changes
  <2>2. WeighingInv'
    BY <1>1, <2>1, WeighingKept
  <2>3. QED
    BY <1>2, <2>2
<1>3. ASSUME NEW a \in Acvs, EditAcv(a) PROVE ReplayIInv'
  <2>1. Changes("acv", a) /\ closedOn' = closedOn /\ "acv" \in Fields
    BY <1>3 DEF EditAcv, Fields
  <2>2. OrgTypes' /\ LogTells' /\ ClosedStays'
    BY <2>1, ChangeKeeps
  <2>3. QED
    BY <1>2, <2>1, <2>2
<1>4. ASSUME NEW k \in Closes, EditClose(k) PROVE ReplayIInv'
  <2>1. Changes("close", k) /\ closedOn' = closedOn /\ "close" \in Fields
    BY <1>4 DEF EditClose, Fields
  <2>2. OrgTypes' /\ LogTells' /\ ClosedStays'
    BY <2>1, ChangeKeeps
  <2>3. QED
    BY <1>2, <2>1, <2>2
<1>5. ASSUME NEW s \in OpenStages \union ClosedStages, ChangeStage(s) PROVE ReplayIInv'
  <2>1. /\ Changes("stage", s) /\ "stage" \in Fields
        /\ closedOn' = IF s \in ClosedStages THEN day ELSE 0
    BY <1>5 DEF ChangeStage, Fields
  <2>2. OrgTypes' /\ LogTells' /\ ClosedStays'
    BY <2>1, ChangeKeeps
  <2>3. QED
    BY <1>2, <2>1, <2>2
<1>6. QED
  BY <1>3, <1>4, <1>5

\* The deal is talked about.
LEMMA TouchKeeps == ASSUME ReplayIInv, Touch PROVE ReplayIInv'
<1> USE DEF ReplayIInv
<1>1. /\ opp' = [opp EXCEPT !.touched = day]
      /\ changes' = changes /\ stood' = stood /\ closedOn' = closedOn /\ disturbed' = disturbed
      /\ day' = day /\ UNCHANGED Weighing
  BY DEF Touch
<1>2. /\ DOMAIN opp = {"stage", "acv", "close", "touched"} /\ day \in Nat
  BY OrgFacts DEF OrgTypes
<1>3. opp'.stage = opp.stage /\ opp'.close = opp.close /\ \A f \in Fields : opp'[f] = opp[f]
  BY <1>1, <1>2 DEF Fields
<1>4. opp' \in ReplayDeals
  BY <1>1, <1>2 DEF OrgTypes, ReplayDeals
<1>5. OrgTypes'
  BY <1>1, <1>3, <1>4 DEF OrgTypes, Closed
<1>6. \A d : \A f \in Fields : Undone(f, d)' = Undone(f, d)
  BY <1>1, <1>3 DEF Undone, After
<1>7. LogTells'
  BY <1>1, <1>6 DEF LogTells
<1>8. ClosedStays'
  BY <1>1, <1>3 DEF ClosedStays, Closed
<1>9. WeighingInv'
  BY <1>1, <1>2, WeighingKept
<1>10. QED
  BY <1>5, <1>7, <1>8, <1>9

\* The day ends as the deal stands.
LEMMA EndDayKeeps == ASSUME ReplayIInv, EndDay PROVE ReplayIInv'
<1> USE DEF ReplayIInv
<1>1. /\ day' = day + 1 /\ stood' = Append(stood, opp)
      /\ opp' = opp /\ changes' = changes /\ closedOn' = closedOn /\ disturbed' = disturbed
      /\ UNCHANGED Weighing
  BY DEF EndDay, Weighing
<1>2. /\ day \in Nat \ {0} /\ opp \in ReplayDeals /\ stood \in Seq(ReplayDeals)
      /\ Len(stood) = day - 1 /\ closedOn \in 0 .. day
  BY DEF OrgTypes
<1>3. /\ stood' \in Seq(ReplayDeals) /\ Len(stood') = day /\ DOMAIN stood' = 1 .. day
      /\ DOMAIN stood = 1 .. day - 1
      /\ stood'[day] = opp /\ \A d \in DOMAIN stood : stood'[d] = stood[d]
  BY <1>1, <1>2
<1>4. \A i \in DOMAIN changes : changes[i].on \in Nat /\ changes[i].on =< day
  BY OrgFacts DEF OrgTypes
<1>5. OrgTypes'
  BY <1>1, <1>2, <1>3, <1>4 DEF OrgTypes, Closed
<1>6. \A d, f : Undone(f, d)' = Undone(f, d)
  BY <1>1 DEF Undone, After
<1>7. LogTells'
  <2> SUFFICES ASSUME NEW d \in 1 .. day, NEW f \in Fields PROVE Undone(f, d) = stood'[d][f]
    BY <1>3, <1>6 DEF LogTells
  <2>1. CASE d = day
    <3>1. After(f, d) = {}
      BY <1>2, <1>4, <2>1 DEF After
    <3>2. QED
      BY <1>3, <2>1, <3>1 DEF Undone
  <2>2. CASE d # day
    <3>1. d \in DOMAIN stood
      BY <1>2, <1>3, <2>2
    <3>2. QED
      BY <1>3, <3>1 DEF LogTells
  <2>3. QED
    BY <2>1, <2>2
<1>8. ClosedStays'
  <2> SUFFICES ASSUME ~ disturbed, NEW d \in 1 .. day
               PROVE  /\ Closed(stood'[d]) <=> (closedOn # 0 /\ closedOn =< d)
                      /\ Closed(stood'[d]) => stood'[d].close = opp.close
    BY <1>1, <1>3 DEF ClosedStays, Closed
  <2>1. CASE d = day
    <3>1. stood'[d] = opp /\ closedOn =< d
      BY <1>2, <1>3, <2>1
    <3>2. closedOn # 0 <=> Closed(opp)
      BY DEF OrgTypes
    <3>3. QED
      BY <3>1, <3>2
  <2>2. CASE d # day
    <3>1. d \in DOMAIN stood /\ stood'[d] = stood[d]
      BY <1>2, <1>3, <2>2
    <3>2. QED
      BY <3>1 DEF ClosedStays
  <2>3. QED
    BY <2>1, <2>2
<1>9. WeighingInv'
  BY <1>1, <1>2, WeighingKept
<1>10. QED
  BY <1>5, <1>7, <1>8, <1>9

\* The row of weights in force is the last one.
LEMMA LatestIsTheLast ==
  ASSUME HistoryTypes, NEW i \in WeightRows, \A j \in WeightRows : j =< i
  PROVE  LatestRow = i
<1> DEFINE last(x) == \A j \in WeightRows :
                        history[j].date < history[x].date
                          \/ (history[j].date = history[x].date /\ j =< x)
<1>1. /\ WeightRows \subseteq DOMAIN history /\ WeightRows \subseteq Nat
      /\ \A j \in WeightRows : history[j].date \in Nat
  BY HistoryFacts
<1>2. last(i)
  BY <1>1 DEF HistoryTypes
<1>3. ASSUME NEW x \in WeightRows, last(x) PROVE x = i
  <2>1. x =< i /\ history[x].date =< history[i].date
    BY <1>1 DEF HistoryTypes
  <2>2. history[i].date < history[x].date \/ i =< x
    BY <1>3
  <2>3. QED
    BY <1>1, <2>1, <2>2
<1>4. LatestRow = CHOOSE x \in WeightRows : last(x)
  BY DEF LatestRow
<1> HIDE DEF last
<1>5. QED
  BY <1>2, <1>3, <1>4

\* The version in force is that of a row, or the seed's.
LEMMA CurrentIsARow ==
  ASSUME WeighingInv
  PROVE  /\ CurrentWeights = saved
         /\ CurrentVersion \in Versions
         /\ WeightRows # {} => \E i \in WeightRows : /\ \A j \in WeightRows : j =< i
                                                   /\ CurrentVersion = history[i].version
         /\ saved \in Samples \union {SeedWeights}
<1> USE DEF WeighingInv
<1>1. CASE WeightRows = {}
  BY <1>1 DEF LastRowSaved, CurrentWeights, CurrentVersion, Versions, Seed
<1>2. CASE WeightRows # {}
  <2>1. PICK i \in WeightRows : (\A j \in WeightRows : j =< i) /\ history[i].weights = saved
    BY <1>2 DEF LastRowSaved
  <2>2. LatestRow = i
    BY <2>1, LatestIsTheLast
  <2>3. history[i] \in HistoryRows /\ history[i].version \in Versions
    BY HistoryFacts
  <2>4. history[i].weights \in Samples \union {SeedWeights}
    BY <2>3 DEF HistoryRows
  <2>5. QED
    BY <1>2, <2>1, <2>2, <2>3, <2>4 DEF CurrentWeights, CurrentVersion
<1>3. QED
  BY <1>1, <1>2

\* A row is added at the end.
LEMMA RowAdded ==
  ASSUME HistoryTypes, day \in Nat, day' = day, NEW r \in HistoryRows, r.date = day,
         r.horizon = "FY-CURRENT" <=> r.kind = "weights_update",
         r.kind = "weights_update" => r.version.label \in {"o-manual", "tuned"},
         Len(history) < MaxRows, history' = Append(history, r), proposed' = proposed
  PROVE  /\ HistoryTypes'
         /\ \A i \in DOMAIN history : history'[i] = history[i]
         /\ Len(history) + 1 \notin DOMAIN history /\ history'[Len(history) + 1] = r
         /\ \A i \in DOMAIN history : i < Len(history) + 1
         /\ WeightRows' = IF r.kind = "weights_update" THEN WeightRows \union {Len(history) + 1}
                          ELSE WeightRows
<1> DEFINE n == Len(history) + 1
<1>1. /\ DOMAIN history = 1 .. Len(history) /\ Len(history) \in Nat
      /\ history \in Seq(HistoryRows) /\ MaxRows \in Nat
      /\ \A i \in DOMAIN history : history[i].date \in Nat
  BY HistoryFacts, ReplayConstants DEF HistoryTypes
<1>2. /\ history' \in Seq(HistoryRows) /\ Len(history') = n /\ DOMAIN history' = 1 .. n
      /\ n \in Nat /\ n \notin DOMAIN history /\ history'[n] = r
      /\ \A i \in DOMAIN history : i < n /\ history'[i] = history[i]
  BY <1>1
<1>3. DOMAIN history' = DOMAIN history \union {n}
  BY <1>1, <1>2
<1>4. Len(history') =< MaxRows
  BY <1>1, <1>2
<1> HIDE DEF n
<1>5. WeightRows' = IF r.kind = "weights_update" THEN WeightRows \union {n} ELSE WeightRows
  BY <1>2, <1>3 DEF WeightRows
<1>6. ASSUME NEW i \in DOMAIN history'
      PROVE  /\ history'[i].date =< day
             /\ history'[i].horizon = "FY-CURRENT" <=> i \in WeightRows'
  <2>1. CASE i = n
    <3>1. i \in WeightRows' <=> r.kind = "weights_update"
      BY <1>2, <1>5, <2>1 DEF WeightRows
    <3>2. QED
      BY <1>2, <2>1, <3>1
  <2>2. CASE i # n
    <3>1. i \in DOMAIN history /\ history'[i] = history[i]
      BY <1>2, <1>3, <2>2
    <3>2. i \in WeightRows' <=> i \in WeightRows
      BY <1>5, <2>2
    <3>3. QED
      BY <3>1, <3>2 DEF HistoryTypes
  <2>3. QED
    BY <2>1, <2>2
<1>7. ASSUME NEW i \in DOMAIN history', NEW j \in DOMAIN history', i =< j
      PROVE  history'[i].date =< history'[j].date
  <2>1. CASE j = n
    BY <1>2, <1>6, <2>1
  <2>2. CASE j # n
    <3>1. j \in DOMAIN history /\ i \in DOMAIN history
      BY <1>1, <1>2, <1>3, <1>7, <2>2
    <3>2. QED
      BY <1>2, <1>7, <3>1 DEF HistoryTypes
  <2>3. QED
    BY <2>1, <2>2
<1>8. \A i \in WeightRows' : history'[i].version.label \in {"o-manual", "tuned"}
  <2> SUFFICES ASSUME NEW i \in WeightRows'
               PROVE  history'[i].version.label \in {"o-manual", "tuned"}
    OBVIOUS
  <2>1. CASE i = n
    <3>1. r.kind = "weights_update"
      BY <1>2, <1>5, <2>1 DEF WeightRows
    <3>2. QED
      BY <1>2, <2>1, <3>1
  <2>2. CASE i # n
    <3>1. i \in WeightRows /\ i \in DOMAIN history
      BY <1>5, <2>2 DEF WeightRows
    <3>2. QED
      BY <1>2, <3>1 DEF HistoryTypes
  <2>3. QED
    BY <2>1, <2>2
<1>9. HistoryTypes'
  <2>1. HistoryRows' = HistoryRows /\ Versions' = Versions
    OBVIOUS
  <2>2. QED
    BY <1>2, <1>4, <1>6, <1>7, <1>8, <2>1 DEF HistoryTypes
<1>10. QED
  BY <1>2, <1>5, <1>9 DEF n

\* Weights are saved under a version of O's or of a proposal.
LEMMA SaveKeeps ==
  ASSUME WeighingInv, day \in Nat, NEW w \in Samples, NEW v \in Versions, SaveWeights(w, v),
         \/ v.label = "tuned"
         \/ v.label = "o-manual" /\ v.n = CurrentVersion.n + 1
  PROVE  WeighingInv' /\ day' = day /\ UNCHANGED Org
<1> USE DEF WeighingInv
<1> DEFINE r == [date |-> day, horizon |-> "FY-CURRENT", kind |-> "weights_update",
                 version |-> v, weights |-> w]
           n == Len(history) + 1
<1>1. /\ Len(history) < MaxRows /\ (dropped' <=> Taken("FY-CURRENT", v))
      /\ UNCHANGED Org /\ day' = day /\ proposed' = proposed
      /\ dropped' => history' = history /\ saved' = saved
      /\ ~ dropped' => history' = Append(history, r) /\ saved' = w
  BY DEF SaveWeights
<1>2. /\ WeightRows \subseteq DOMAIN history /\ WeightRows \subseteq Nat
      /\ \A i \in DOMAIN history : history[i].version \in Versions /\ history[i].version.n \in Nat
  BY HistoryFacts
<1>3. (\A i \in WeightRows : history[i].version.label # "tuned") =>
         \A i \in WeightRows : history[i].version.n =< CurrentVersion.n
  <2> SUFFICES ASSUME \A i \in WeightRows : history[i].version.label # "tuned",
                      NEW i \in WeightRows
               PROVE  history[i].version.n =< CurrentVersion.n
    OBVIOUS
  <2>1. PICK k \in WeightRows : (\A j \in WeightRows : j =< k) /\ CurrentVersion = history[k].version
    BY CurrentIsARow
  <2>2. i < k => history[i].version.n < history[k].version.n
    BY DEF OwnVersionsGrow
  <2>3. i =< k /\ i \in Nat /\ k \in Nat
    BY <1>2, <2>1
  <2>4. QED
    BY <1>2, <2>1, <2>2, <2>3
<1>4. CurrentVersion.n \in Nat
  BY CurrentIsARow DEF Versions
<1>5. CASE dropped'
  <2>1. PICK i \in DOMAIN history : history[i].horizon = "FY-CURRENT" /\ history[i].version = v
    BY <1>1, <1>5 DEF Taken
  <2>2. i \in WeightRows
    BY <2>1 DEF HistoryTypes
  <2>3. \E k \in WeightRows : history[k].version.label = "tuned"
    <3>1. CASE v.label = "tuned"
      BY <2>1, <2>2, <3>1
    <3>2. CASE v.n = CurrentVersion.n + 1
      <4>1. ~ (history[i].version.n =< CurrentVersion.n)
        BY <1>4, <2>1, <3>2
      <4>2. QED
        BY <1>3, <2>2, <4>1
    <3>3. QED
      BY <3>1, <3>2
  <2>4. history' = history /\ saved' = saved /\ WeightRows' = WeightRows
    BY <1>1, <1>5 DEF WeightRows
  <2>5. HistoryTypes' /\ LastRowSaved' /\ OwnVersionsGrow'
    BY <1>1, <2>4 DEF HistoryTypes, LastRowSaved, OwnVersionsGrow
  <2>6. OwnWeightsAreKept'
    BY <2>3, <2>4 DEF OwnWeightsAreKept
  <2>7. QED
    BY <1>1, <2>5, <2>6
<1>6. CASE ~ dropped'
  <2>1. r \in HistoryRows /\ r.date = day /\ r.horizon = "FY-CURRENT" /\ r.kind = "weights_update"
        /\ r.version = v /\ r.weights = w
    BY DEF HistoryRows
  <2>2. history' = Append(history, r) /\ saved' = w
    BY <1>1, <1>6
  <2> HIDE DEF r
  <2>3. /\ HistoryTypes'
        /\ \A i \in DOMAIN history : history'[i] = history[i]
        /\ n \notin DOMAIN history /\ history'[n] = r
        /\ \A i \in DOMAIN history : i < n
        /\ WeightRows' = WeightRows \union {n}
    BY <1>1, <2>1, <2>2, RowAdded
  <2>4. n \in Nat
    BY HistoryFacts
  <2> HIDE DEF n
  <2>5. LastRowSaved'
    <3>1. n \in WeightRows' /\ \A j \in WeightRows' : j =< n
      BY <1>2, <2>3, <2>4
    <3>2. history'[n].weights = saved'
      BY <2>1, <2>2, <2>3
    <3>3. QED
      BY <3>1, <3>2 DEF LastRowSaved
  <2>6. OwnVersionsGrow'
    <3> SUFFICES ASSUME \A i \in WeightRows' : history'[i].version.label # "tuned",
                        NEW i \in WeightRows', NEW j \in WeightRows', i < j
                 PROVE  history'[i].version.n < history'[j].version.n
      BY DEF OwnVersionsGrow
    <3>1. \A k \in WeightRows : k \in WeightRows' /\ history'[k] = history[k]
      BY <1>2, <2>3
    <3>2. \A k \in WeightRows : history[k].version.label # "tuned"
      BY <3>1
    <3>3. n \in WeightRows' /\ v.label # "tuned"
      BY <2>1, <2>3
    <3>4. i \in WeightRows
      BY <1>2, <2>3, <2>4
    <3>5. CASE j = n
      <4>1. history'[i].version.n =< CurrentVersion.n
        BY <1>3, <3>1, <3>2, <3>4
      <4>2. history'[j].version.n = CurrentVersion.n + 1
        BY <2>1, <2>3, <3>3, <3>5
      <4>3. QED
        BY <1>2, <1>4, <3>1, <3>4, <4>1, <4>2
    <3>6. CASE j # n
      <4>1. j \in WeightRows
        BY <2>3, <3>6
      <4>2. QED
        BY <3>1, <3>2, <3>4, <4>1 DEF OwnVersionsGrow
    <3>7. QED
      BY <3>5, <3>6
  <2>7. OwnWeightsAreKept'
    BY <1>6 DEF OwnWeightsAreKept
  <2>8. QED
    BY <1>1, <2>3, <2>5, <2>6, <2>7
<1>7. QED
  BY <1>5, <1>6

\* The versions that a save may have.
LEMMA BumpedVersion ==
  ASSUME WeighingInv, day \in Nat, NEW label \in {"o-manual", "tuned"}
  PROVE  /\ BumpVersion(CurrentVersion, label) \in Versions
         /\ BumpVersion(CurrentVersion, label).label = label
         /\ BumpVersion(CurrentVersion, label).n = CurrentVersion.n + 1
<1>1. CurrentVersion.n \in Nat
  BY CurrentIsARow DEF Versions
<1>2. QED
  BY <1>1 DEF BumpVersion, Versions

\* Weights are proposed, set, promoted; a result of a backtest is filed.
LEMMA WeighingMoves ==
  ASSUME WeighingInv, day \in Nat,
         \/ Propose \/ PersistBacktest
         \/ \E w \in Samples : SetWeights(w) \/ Promote(w)
  PROVE  WeighingInv' /\ day' = day /\ UNCHANGED Org
<1> USE DEF WeighingInv
<1>1. CASE Propose
  <2>1. /\ proposed' = BumpVersion(CurrentVersion, "tuned") /\ UNCHANGED Org /\ day' = day
        /\ history' = history /\ saved' = saved /\ dropped' = dropped
    BY <1>1 DEF Propose
  <2>2. proposed' \in Versions /\ proposed'.label = "tuned"
    BY <2>1, BumpedVersion
  <2>3. WeightRows' = WeightRows
    BY <2>1 DEF WeightRows
  <2>4. HistoryTypes'
    BY <2>1, <2>2, <2>3 DEF HistoryTypes
  <2>5. LastRowSaved' /\ OwnVersionsGrow' /\ OwnWeightsAreKept'
    BY <2>1, <2>3 DEF LastRowSaved, OwnVersionsGrow, OwnWeightsAreKept
  <2>6. QED
    BY <2>1, <2>4, <2>5
<1>2. CASE PersistBacktest
  <2> DEFINE r == [date |-> day, horizon |-> "quarter", kind |-> "backtest",
                   version |-> CurrentVersion, weights |-> CurrentWeights]
             n == Len(history) + 1
  <2>1. /\ Len(history) < MaxRows /\ history' = Append(history, r)
        /\ UNCHANGED Org /\ day' = day /\ proposed' = proposed /\ saved' = saved /\ dropped' = dropped
    BY <1>2 DEF PersistBacktest
  <2>2. r \in HistoryRows /\ r.date = day /\ r.horizon = "quarter" /\ r.kind = "backtest"
    BY CurrentIsARow DEF HistoryRows
  <2> HIDE DEF r
  <2>3. /\ HistoryTypes' /\ WeightRows' = WeightRows
        /\ \A i \in DOMAIN history : history'[i] = history[i]
    BY <2>1, <2>2, RowAdded
  <2>4. \A i \in WeightRows : history'[i] = history[i]
    BY <2>3, HistoryFacts
  <2>5. LastRowSaved' /\ OwnVersionsGrow' /\ OwnWeightsAreKept'
    BY <2>1, <2>3, <2>4 DEF LastRowSaved, OwnVersionsGrow, OwnWeightsAreKept
  <2>6. QED
    BY <2>1, <2>3, <2>5
<1>3. ASSUME NEW w \in Samples, SetWeights(w) PROVE WeighingInv' /\ day' = day /\ UNCHANGED Org
  <2> DEFINE v == BumpVersion(CurrentVersion, "o-manual")
  <2>1. v \in Versions /\ v.label = "o-manual" /\ v.n = CurrentVersion.n + 1
    BY BumpedVersion
  <2>2. SaveWeights(w, v)
    BY <1>3 DEF SetWeights
  <2> HIDE DEF v
  <2>3. QED
    BY <2>1, <2>2, SaveKeeps
<1>4. ASSUME NEW w \in Samples, Promote(w) PROVE WeighingInv' /\ day' = day /\ UNCHANGED Org
  <2>1. proposed \in Versions /\ proposed.label = "tuned" /\ SaveWeights(w, proposed)
    BY <1>4 DEF Promote, HistoryTypes
  <2>2. QED
    BY <2>1, SaveKeeps
<1>5. QED
  BY <1>1, <1>2, <1>3, <1>4

\* A step that leaves the deal and its log alone.
LEMMA OrgKept ==
  ASSUME OrgTypes, LogTells, ClosedStays, UNCHANGED Org, day' = day
  PROVE  OrgTypes' /\ LogTells' /\ ClosedStays'
<1>1. opp' = opp /\ changes' = changes /\ stood' = stood /\ closedOn' = closedOn /\ disturbed' = disturbed
  BY DEF Org
<1>2. \A d, f : Undone(f, d)' = Undone(f, d)
  BY <1>1 DEF Undone, After
<1>3. QED
  BY <1>1, <1>2 DEF OrgTypes, LogTells, ClosedStays, Closed

LEMMA ReplayStep == ReplayIInv /\ [ReplayNext]_replayVars => ReplayIInv'
<1> SUFFICES ASSUME ReplayIInv, [ReplayNext]_replayVars PROVE ReplayIInv'
  OBVIOUS
<1>1. day \in Nat
  BY DEF ReplayIInv, OrgTypes
<1>2. CASE \/ \E a \in Acvs : EditAcv(a)
           \/ \E k \in Closes : EditClose(k)
           \/ \E s \in OpenStages \union ClosedStages : ChangeStage(s)
  BY <1>2, EditsKeep
<1>3. CASE Touch
  BY <1>3, TouchKeeps
<1>4. CASE EndDay
  BY <1>4, EndDayKeeps
<1>5. CASE \/ Propose \/ PersistBacktest
           \/ \E w \in Samples : SetWeights(w) \/ Promote(w)
  <2>1. WeighingInv' /\ day' = day /\ UNCHANGED Org
    BY <1>1, <1>5, WeighingMoves DEF ReplayIInv
  <2>2. QED
    BY <2>1, OrgKept DEF ReplayIInv
<1>6. CASE UNCHANGED replayVars
  <2>1. UNCHANGED Org /\ UNCHANGED Weighing /\ day' = day
    BY <1>6 DEF replayVars, Org, Weighing
  <2>2. QED
    BY <1>1, <2>1, OrgKept, WeighingKept DEF ReplayIInv
<1>7. QED
  BY <1>2, <1>3, <1>4, <1>5, <1>6 DEF ReplayNext, OrgNext, WeightsNext

LEMMA ReplayInitially == ReplayInit => ReplayIInv
<1> SUFFICES ASSUME ReplayInit PROVE ReplayIInv
  OBVIOUS
<1> USE DEF ReplayInit
<1>1. opp \in ReplayDeals /\ opp.stage = "Demo"
  BY DEF ReplayDeals, OpenStages
<1>2. ~ Closed(opp)
  BY <1>1 DEF Closed, ClosedStages
<1>3. OrgTypes
  BY <1>1, <1>2, ReplayConstants DEF OrgTypes
<1>4. LogTells /\ ClosedStays
  BY DEF LogTells, ClosedStays
<1>5. WeightRows = {}
  BY DEF WeightRows
<1>6. HistoryTypes
  BY <1>5, ReplayConstants DEF HistoryTypes
<1>7. LastRowSaved /\ OwnVersionsGrow /\ OwnWeightsAreKept
  BY <1>5 DEF LastRowSaved, OwnVersionsGrow, OwnWeightsAreKept
<1>8. QED
  BY <1>3, <1>4, <1>6, <1>7 DEF ReplayIInv, WeighingInv

LEMMA ReplayIInvImplies == ReplayIInv => ReplayInv
<1> SUFFICES ASSUME ReplayIInv PROVE ReplayInv
  OBVIOUS
<1> USE DEF ReplayIInv
<1>1. /\ opp.stage \in OpenStages \union ClosedStages /\ opp.acv \in Acvs /\ opp.close \in Closes
      /\ \A d \in DOMAIN stood : d \in Nat /\ d < day /\ stood[d] \in ReplayDeals
      /\ closedOn # 0 <=> Closed(opp)
  BY OrgFacts DEF OrgTypes
<1>2. ReplayTypeOK
  BY <1>1 DEF ReplayTypeOK, OrgTypes, WeighingInv, HistoryTypes
<1>3. \A d \in DOMAIN stood : /\ Undone("stage", d) = stood[d].stage
                              /\ Undone("acv", d) = stood[d].acv
                              /\ Undone("close", d) = stood[d].close
  BY DEF LogTells, Fields
<1>4. ASSUME ~ disturbed, closedOn \in {0, opp.close}, NEW d \in DOMAIN stood
      PROVE  /\ InCohort(d) => /\ ~ Closed(stood[d])
                               /\ \A f \in {"stage", "acv", "close"} : RewindOpp(d)[f] = stood[d][f]
             /\ (~ Closed(stood[d]) /\ stood[d].close > d) => InCohort(d)
  <2>1. /\ Closed(stood[d]) <=> (closedOn # 0 /\ closedOn =< d)
        /\ Closed(stood[d]) => stood[d].close = opp.close
    BY <1>4 DEF ClosedStays
  <2>2. d \in Nat /\ stood[d].close \in Nat /\ opp.close \in Nat
    BY <1>1, ReplayConstants DEF ReplayDeals
  <2>3. InCohort(d) <=> ~ (Closed(opp) /\ stood[d].close =< d)
    BY <1>3, <2>2 DEF InCohort, IsClosed, Reopened
  <2>4. ASSUME InCohort(d) PROVE ~ Closed(stood[d])
    BY <1>1, <1>4, <2>1, <2>2, <2>3, <2>4
  <2>5. ASSUME InCohort(d) PROVE RewindOpp(d).stage = stood[d].stage
    <3>1. ~ (After("stage", d) = {} /\ Reopened(d))
      <4> SUFFICES ASSUME After("stage", d) = {}, Reopened(d) PROVE FALSE
        OBVIOUS
      <4>1. stood[d].stage = opp.stage
        BY <1>3 DEF Undone
      <4>2. Closed(stood[d])
        BY <4>1 DEF Reopened, Closed
      <4>3. QED
        BY <2>4, <2>5, <4>2
    <3>2. QED
      BY <1>3, <3>1 DEF RewindOpp
  <2>6. RewindOpp(d).acv = stood[d].acv /\ RewindOpp(d).close = stood[d].close
    BY <1>3 DEF RewindOpp
  <2>7. (~ Closed(stood[d]) /\ stood[d].close > d) => InCohort(d)
    BY <2>2, <2>3
  <2>8. QED
    BY <2>4, <2>5, <2>6, <2>7
<1>5. ReplayedAsItStood
  BY <1>4 DEF ReplayedAsItStood
<1>6. ActualsAreOfTheCohort
  <2> SUFFICES ASSUME closedOn \in {0, opp.close}, NEW s \in DOMAIN stood,
                      NEW d \in BacktestResult(s).actuals
               PROVE  closedOn \in d .. Len(stood)
    BY DEF ActualsAreOfTheCohort
  <2>1. Actual(d, Len(stood)) > 0
    BY DEF BacktestResult
  <2>2. opp.stage = "Won" /\ opp.close \in d .. Len(stood)
    BY <2>1 DEF Actual
  <2>3. closedOn # 0
    BY <1>1, <2>2 DEF Closed, ClosedStages
  <2>4. QED
    BY <2>2, <2>3
<1>7. LastSaveIsInForce
  BY CurrentIsARow DEF LastSaveIsInForce
<1>8. QED
  BY <1>2, <1>5, <1>6, <1>7 DEF ReplayInv, WeighingInv

(* The replay: a deal that was left alone since it was closed on its close *)
(* date is scored for the days it was open, as it stood then               *)
(* (_rewind_opp), and the weights in force are those last saved, of which  *)
(* a save of O's own is never dropped (save_weights, get_current_weights). *)
THEOREM ReplayHolds == ReplaySpec => []ReplayInv
<1>1. ReplayInit => ReplayIInv
  BY ReplayInitially
<1>2. ReplayIInv /\ [ReplayNext]_replayVars => ReplayIInv'
  BY ReplayStep
<1>3. ReplayIInv => ReplayInv
  BY ReplayIInvImplies
<1>4. QED
  BY <1>1, <1>2, <1>3, PTL DEF ReplaySpec
\* Whole division keeps the order.
LEMMA DivUnique ==
  ASSUME NEW n \in Nat \ {0}, NEW a \in Int
  PROVE  /\ a \div n \in Int /\ n * (a \div n) =< a /\ a < n * (a \div n) + n
  OBVIOUS

LEMMA DivKeepsOrder ==
  ASSUME NEW n \in Nat \ {0}, NEW a \in Int, NEW b \in Int, a =< b
  PROVE  a \div n =< b \div n
<1> DEFINE p == a \div n
<1> DEFINE q == b \div n
<1>1. p \in Int /\ q \in Int /\ n * p =< a /\ b < n * q + n
  BY DivUnique
<1>2. n * p < n * q + n
  <2> HIDE DEF p, q
  <2>1. n * p \in Int /\ n * q \in Int
    BY <1>1
  <2>2. QED
    BY <1>1, <2>1
<1>3. p < q + 1
  <2> HIDE DEF p, q
  <2>1. SUFFICES ASSUME p >= q + 1 PROVE FALSE
    BY <1>1
  <2>2. n * (q + 1) =< n * p
    BY <1>1, <2>1
  <2>3. QED
    BY <1>1, <1>2, <2>2
<1>4. QED
  <2> HIDE DEF p, q
  <2>1. p =< q
    BY <1>1, <1>3
  <2>2. QED
    BY <2>1 DEF p, q

\* A share is a whole number between nought and its weight.
LEMMA ShareBounds ==
  ASSUME NEW w \in Nat, NEW part \in Int, NEW whole \in Nat \ {0}
  PROVE  Share(w, part, whole) \in 0 .. 100 * w
<1>1. CASE part < 0
  BY <1>1 DEF Share
<1>2. CASE part > whole
  BY <1>2 DEF Share
<1>3. CASE part \in 0 .. whole
  <2> DEFINE n == 2 * whole
  <2> DEFINE k == 100 * w
  <2> DEFINE m == 200 * w * part + whole
  <2> DEFINE q == m \div n
  <2>1. k * part \in Nat /\ k * whole \in Nat /\ k * part =< k * whole
    BY <1>3
  <2>2. m = 2 * (k * part) + whole /\ n * k = 2 * (k * whole) /\ n \in Nat \ {0} /\ k \in Nat
    <3>1. 200 * w * part = 2 * (100 * w * part)
      BY <1>3
    <3>2. (2 * whole) * (100 * w) = 2 * (100 * w * whole)
      OBVIOUS
    <3>3. QED
      BY <3>1, <3>2
  <2>3. m \in Nat /\ m =< n * k + whole
    BY <2>1, <2>2
  <2>4. q \in Int /\ n * q =< m /\ m < n * q + n
    <3> HIDE DEF m, n
    <3>1. QED
      BY <2>2, <2>3, DivUnique
  <2>5. Share(w, part, whole) = q
    BY <1>3 DEF Share
  <2>6. whole < n
    OBVIOUS
  <2> HIDE DEF n, k, m, q
  <2>7. q =< k
    <3>1. SUFFICES ASSUME q >= k + 1 PROVE FALSE
      BY <2>2, <2>4
    <3>2. n * (k + 1) =< n * q
      BY <2>2, <2>4, <3>1
    <3>3. n * (k + 1) = n * k + n /\ n * k \in Int /\ n * q \in Int
      BY <2>2, <2>4
    <3>4. QED
      BY <2>2, <2>3, <2>4, <2>6, <3>2, <3>3
  <2>8. 0 =< q
    <3>1. SUFFICES ASSUME q + 1 =< 0 PROVE FALSE
      BY <2>4
    <3>2. n * (q + 1) =< n * 0
      BY <2>2, <2>4, <3>1
    <3>3. n * (q + 1) = n * q + n /\ n * 0 = 0 /\ n * q \in Int
      BY <2>2, <2>4
    <3>4. QED
      BY <2>2, <2>3, <2>4, <3>2, <3>3
  <2>9. q \in 0 .. k
    BY <2>2, <2>4, <2>7, <2>8
  <2>10. QED
    BY <2>5, <2>9 DEF k
<1>4. QED
  BY <1>1, <1>2, <1>3

\* A greater part is no smaller a share.
LEMMA ShareKeepsOrder ==
  ASSUME NEW w \in Nat, NEW a \in Int, NEW b \in Int, a =< b, NEW whole \in Nat \ {0}
  PROVE  Share(w, a, whole) =< Share(w, b, whole)
<1>1. Share(w, a, whole) \in 0 .. 100 * w /\ Share(w, b, whole) \in 0 .. 100 * w
  BY ShareBounds
<1>2. CASE a < 0
  BY <1>1, <1>2 DEF Share
<1>3. CASE b > whole
  BY <1>1, <1>3 DEF Share
<1>4. CASE 0 =< a /\ b =< whole
  <2> DEFINE m == 200 * w * a + whole
  <2> DEFINE n == 200 * w * b + whole
  <2>1. m \in Int /\ n \in Int /\ m =< n
    <3>1. 200 * w \in Nat
      OBVIOUS
    <3>2. (200 * w) * a =< (200 * w) * b
      BY <3>1
    <3>3. QED
      BY <3>1, <3>2
  <2>2. m \div (2 * whole) =< n \div (2 * whole)
    <3>1. 2 * whole \in Nat \ {0}
      OBVIOUS
    <3> HIDE DEF m, n
    <3>2. QED
      BY DivKeepsOrder, <2>1, <3>1
  <2>3. /\ Share(w, a, whole) = m \div (2 * whole)
        /\ Share(w, b, whole) = n \div (2 * whole)
    BY <1>4 DEF Share
  <2>4. QED
    BY <2>2, <2>3
<1>5. QED
  BY <1>2, <1>3, <1>4

\* Rounding keeps the order.
LEMMA RoundedKeepsOrder ==
  ASSUME NEW a \in Int, NEW b \in Int, a =< b
  PROVE  Rounded(a) =< Rounded(b)
  BY DEF Rounded

\* A rounded hundred is the nearest, and what is whole stays what it is.
LEMMA RoundedBounds ==
  ASSUME NEW a \in Int
  PROVE  /\ Rounded(a) \in Int
         /\ 100 * Rounded(a) =< a + 50
         /\ a =< 100 * Rounded(a) + 50
  BY DEF Rounded

\* What the signals of a prospect are worth: no more than their maximum, and
\* below six no more than the band below it.
ProspectLike(p) ==
    /\ p.ownership \in DOMAIN OwnershipPoints /\ p.locations \in Nat
    /\ p.vertical \in DOMAIN VerticalPoints

LEMMA OwnershipBands ==
  ASSUME NEW k \in DOMAIN OwnershipPoints
  PROVE  OwnershipPoints[k] \in {0, 10, 18, 25}
<1>1. k \in {"franchise_group_multi_brand", "franchise_group_single_brand",
             "single_brand_franchisee", "independent", "unknown"}
  BY DEF OwnershipPoints
<1>2. QED
  BY <1>1 DEF OwnershipPoints

LEMMA VerticalBands ==
  ASSUME NEW k \in DOMAIN VerticalPoints
  PROVE  VerticalPoints[k] \in {0, 3, 8, 15, 20}
<1>1. k \in {"QSR", "Fast_Casual", "Casual_Dining", "Fine_Dining", "Other", "unknown"}
  BY DEF VerticalPoints
<1>2. QED
  BY <1>1 DEF VerticalPoints

LEMMA LocationBands ==
  ASSUME NEW n \in Nat
  PROVE  LocationPoints(n) \in {0, 3, 10, 18, 25}
<1>1. CASE n = Unknown
  BY <1>1 DEF LocationPoints, Unknown
<1>2. CASE n # Unknown /\ n >= 50
  BY <1>2 DEF LocationPoints, Unknown
<1>3. CASE n \in 10 .. 49
  BY <1>3 DEF LocationPoints, Unknown
<1>4. CASE n \in 3 .. 9
  BY <1>4 DEF LocationPoints, Unknown
<1>5. CASE n \in 0 .. 2
  BY <1>5 DEF LocationPoints, Unknown
<1>6. QED
  BY <1>1, <1>2, <1>3, <1>4, <1>5

LEMMA GrowthBands ==
  ASSUME NEW found
  PROVE  GrowthSignals(found) \in {0, 4, 6, 10, 14, 16, 20}
  BY DEF GrowthSignals, Points, Capped

LEMMA TechBands ==
  ASSUME NEW found
  PROVE  TechStack(found) \in 0 .. 10
  BY DEF TechStack, Points, Capped

LEMMA SignalBands ==
  ASSUME NEW p, ProspectLike(p)
  PROVE  /\ IcpSignals(p).ownership \in {0, 10, 18, 25}
         /\ IcpSignals(p).location_count \in {0, 3, 10, 18, 25}
         /\ IcpSignals(p).brand_vertical \in {0, 3, 8, 15, 20}
         /\ IcpSignals(p).growth_signals \in {0, 4, 6, 10, 14, 16, 20}
         /\ IcpSignals(p).tech_stack_fit \in 0 .. 10
         /\ IcpSignals(p).product_attach \in {0, 5}
<1>1. p.ownership \in DOMAIN OwnershipPoints /\ p.locations \in Nat
      /\ p.vertical \in DOMAIN VerticalPoints
  BY DEF ProspectLike
<1>2. OwnershipPoints[p.ownership] \in {0, 10, 18, 25}
  BY <1>1, OwnershipBands
<1>3. LocationPoints(p.locations) \in {0, 3, 10, 18, 25}
  BY <1>1, LocationBands
<1>4. VerticalPoints[p.vertical] \in {0, 3, 8, 15, 20}
  BY <1>1, VerticalBands
<1>5. GrowthSignals(p.growth) \in {0, 4, 6, 10, 14, 16, 20}
  BY GrowthBands
<1>6. TechStack(p.stack) \in 0 .. 10
  BY TechBands
<1>7. (IF p.products THEN 5 ELSE 0) \in {0, 5}
  OBVIOUS
<1>8. QED
  BY <1>2, <1>3, <1>4, <1>5, <1>6, <1>7 DEF IcpSignals

\* A set of fewer than three is covered by two of whatever it is taken from.
LEMMA CoveredByTwo ==
  ASSUME NEW S, NEW T, S \subseteq T, T # {}, IsFiniteSet(S), ~ (Cardinality(S) >= 3)
  PROVE  \E x \in T : \E y \in T : S \subseteq {x, y}
<1>1. Cardinality(S) \in Nat
  BY FS_CardinalityType
<1>2. CASE S = {}
  BY <1>2
<1>3. CASE S # {}
  <2>1. PICK x \in S : TRUE
    BY <1>3
  <2>2. IsFiniteSet(S \ {x}) /\ Cardinality(S \ {x}) = Cardinality(S) - 1
    BY <2>1, FS_RemoveElement
  <2>3. CASE S \ {x} = {}
    BY <2>1, <2>3
  <2>4. CASE S \ {x} # {}
    <3>1. PICK y \in S \ {x} : TRUE
      BY <2>4
    <3>2. /\ IsFiniteSet((S \ {x}) \ {y})
          /\ Cardinality((S \ {x}) \ {y}) = Cardinality(S \ {x}) - 1
      BY <2>2, <3>1, FS_RemoveElement
    <3>3. Cardinality((S \ {x}) \ {y}) \in Nat
      BY <3>2, FS_CardinalityType
    <3>4. Cardinality((S \ {x}) \ {y}) = 0
      BY <1>1, <2>2, <3>2, <3>3
    <3>5. (S \ {x}) \ {y} = {}
      BY <3>2, <3>4, FS_EmptySet
    <3>6. S \subseteq {x, y}
      BY <3>5
    <3>7. QED
      BY <2>1, <3>1, <3>6
  <2>5. QED
    BY <2>3, <2>4
<1>4. QED
  BY <1>2, <1>3

\* Six names, and what is said of them.
SignalNames == {"ownership", "location_count", "brand_vertical", "growth_signals",
                "tech_stack_fit", "product_attach"}
FactorNames == {"health_drop", "health_absolute_low", "nps", "case_spike",
                "renewal_no_conversation", "stagnation"}

LEMMA SixAreFinite == IsFiniteSet(SignalNames) /\ IsFiniteSet(FactorNames)
<1>1. ASSUME NEW a, NEW b, NEW c, NEW d, NEW e, NEW f
      PROVE  IsFiniteSet({a, b, c, d, e, f})
  <2>1. IsFiniteSet({a})
    BY FS_Singleton
  <2>2. IsFiniteSet({a} \union {b})
    BY <2>1, FS_AddElement
  <2>3. IsFiniteSet({a} \union {b} \union {c})
    BY <2>2, FS_AddElement
  <2>4. IsFiniteSet({a} \union {b} \union {c} \union {d})
    BY <2>3, FS_AddElement
  <2>5. IsFiniteSet({a} \union {b} \union {c} \union {d} \union {e})
    BY <2>4, FS_AddElement
  <2>6. IsFiniteSet({a} \union {b} \union {c} \union {d} \union {e} \union {f})
    BY <2>5, FS_AddElement
  <2>7. {a, b, c, d, e, f} = {a} \union {b} \union {c} \union {d} \union {e} \union {f}
    OBVIOUS
  <2>8. QED
    BY <2>6, <2>7
<1>2. QED
  BY <1>1 DEF SignalNames, FactorNames

LEMMA FactorNamesAreSix == Cardinality(FactorNames) = 6
<1>1. IsFiniteSet({"health_drop"}) /\ Cardinality({"health_drop"}) = 1
  BY FS_Singleton
<1> DEFINE two == {"health_drop"} \union {"health_absolute_low"}
<1> DEFINE three == two \union {"nps"}
<1> DEFINE four == three \union {"case_spike"}
<1> DEFINE five == four \union {"renewal_no_conversation"}
<1> DEFINE six == five \union {"stagnation"}
<1>2. IsFiniteSet(two) /\ Cardinality(two) = 2
  BY <1>1, FS_AddElement
<1>3. "nps" \notin two
  OBVIOUS
<1>4. "case_spike" \notin three
  OBVIOUS
<1>5. "renewal_no_conversation" \notin four
  OBVIOUS
<1>6. "stagnation" \notin five
  OBVIOUS
<1>7. six = FactorNames
  BY DEF FactorNames
<1> HIDE DEF two
<1>8. IsFiniteSet(three) /\ Cardinality(three) = 3
  BY <1>2, <1>3, FS_AddElement
<1> HIDE DEF three
<1>9. IsFiniteSet(four) /\ Cardinality(four) = 4
  BY <1>4, <1>8, FS_AddElement
<1> HIDE DEF four
<1>10. IsFiniteSet(five) /\ Cardinality(five) = 5
  BY <1>5, <1>9, FS_AddElement
<1> HIDE DEF five
<1>11. IsFiniteSet(six) /\ Cardinality(six) = 6
  BY <1>6, <1>10, FS_AddElement
<1>12. QED
  BY <1>7, <1>11

\* Tier A stands on three dimensions of six points or more.
LEMMA TierAStandsOnThree ==
  ASSUME NEW p, ProspectLike(p), Fit(p).tier = "A"
  PROVE  Cardinality({k \in DOMAIN IcpSignals(p) : IcpSignals(p)[k] >= 6}) >= 3
<1> DEFINE s == IcpSignals(p)
<1> DEFINE H == {k \in DOMAIN s : s[k] >= 6}
<1>1. DOMAIN s = SignalNames
  BY DEF IcpSignals, SignalNames
<1>2. IsFiniteSet(H) /\ H \subseteq SignalNames
  BY <1>1, SixAreFinite, FS_Subset
<1>3. SumOfSignals(s) \in Int /\ SumOfSignals(s) >= 70
  <2>1. SumOfSignals(s) \in Int
    BY SignalBands DEF SumOfSignals
  <2>2. Fit(p).tier = IcpTier(SumOfSignals(s))
    BY DEF Fit
  <2>3. SUFFICES ASSUME ~ (SumOfSignals(s) >= 70) PROVE FALSE
    BY <2>1
  <2> HIDE DEF s
  <2>4. CASE SumOfSignals(s) \in 45 .. 69
    BY <2>1, <2>2, <2>3, <2>4 DEF IcpTier
  <2>5. CASE SumOfSignals(s) \in 25 .. 44
    BY <2>1, <2>2, <2>3, <2>5 DEF IcpTier
  <2>6. CASE SumOfSignals(s) < 25
    BY <2>1, <2>2, <2>3, <2>6 DEF IcpTier
  <2>7. QED
    BY <2>1, <2>3, <2>4, <2>5, <2>6
<1>4. SUFFICES ASSUME ~ (Cardinality(H) >= 3) PROVE FALSE
  OBVIOUS
<1>5. PICK x \in SignalNames, y \in SignalNames : H \subseteq {x, y}
  <2> HIDE DEF H
  <2>1. SignalNames # {}
    BY DEF SignalNames
  <2>2. QED
    BY <1>2, <1>4, <2>1, CoveredByTwo
<1>6. ASSUME NEW k \in SignalNames, k # x, k # y PROVE ~ (s[k] >= 6)
  BY <1>1, <1>5, <1>6
<1> HIDE DEF H
<1>7. /\ s.ownership \in {0, 10, 18, 25} /\ s.location_count \in {0, 3, 10, 18, 25}
      /\ s.brand_vertical \in {0, 3, 8, 15, 20} /\ s.growth_signals \in {0, 4, 6, 10, 14, 16, 20}
      /\ s.tech_stack_fit \in 0 .. 10 /\ s.product_attach \in {0, 5}
  BY SignalBands
<1> HIDE DEF s
<1>8. /\ s.ownership =< 25 /\ s.location_count =< 25 /\ s.brand_vertical =< 20
      /\ s.growth_signals =< 20 /\ s.tech_stack_fit =< 10 /\ s.product_attach =< 5
  BY <1>7
<1>9. /\ ("ownership" # x /\ "ownership" # y) => s.ownership =< 0
      /\ ("location_count" # x /\ "location_count" # y) => s.location_count =< 3
      /\ ("brand_vertical" # x /\ "brand_vertical" # y) => s.brand_vertical =< 3
      /\ ("growth_signals" # x /\ "growth_signals" # y) => s.growth_signals =< 4
      /\ ("tech_stack_fit" # x /\ "tech_stack_fit" # y) => s.tech_stack_fit =< 5
  <2>1. ("ownership" # x /\ "ownership" # y) => ~ (s.ownership >= 6)
    BY <1>6 DEF SignalNames
  <2>2. ("location_count" # x /\ "location_count" # y) => ~ (s.location_count >= 6)
    BY <1>6 DEF SignalNames
  <2>3. ("brand_vertical" # x /\ "brand_vertical" # y) => ~ (s.brand_vertical >= 6)
    BY <1>6 DEF SignalNames
  <2>4. ("growth_signals" # x /\ "growth_signals" # y) => ~ (s.growth_signals >= 6)
    BY <1>6 DEF SignalNames
  <2>5. ("tech_stack_fit" # x /\ "tech_stack_fit" # y) => ~ (s.tech_stack_fit >= 6)
    BY <1>6 DEF SignalNames
  <2>6. QED
    BY <1>7, <2>1, <2>2, <2>3, <2>4, <2>5
<1>10. SumOfSignals(s) = s.ownership + s.location_count + s.brand_vertical + s.growth_signals
                           + s.tech_stack_fit + s.product_attach
  BY DEF SumOfSignals
<1>11. /\ s.ownership \in Int /\ s.location_count \in Int /\ s.brand_vertical \in Int
       /\ s.growth_signals \in Int /\ s.tech_stack_fit \in Int /\ s.product_attach \in Int
  BY <1>7
<1>12. /\ x \in {"ownership", "location_count", "brand_vertical", "growth_signals",
                 "tech_stack_fit", "product_attach"}
       /\ y \in {"ownership", "location_count", "brand_vertical", "growth_signals",
                 "tech_stack_fit", "product_attach"}
  BY <1>5 DEF SignalNames
<1>13. SumOfSignals(s) =< 69
  <2>1. CASE x = "ownership"
    BY <2>1, <1>8, <1>9, <1>10, <1>11, <1>12
  <2>2. CASE x = "location_count"
    BY <2>2, <1>8, <1>9, <1>10, <1>11, <1>12
  <2>3. CASE x = "brand_vertical"
    BY <2>3, <1>8, <1>9, <1>10, <1>11, <1>12
  <2>4. CASE x = "growth_signals"
    BY <2>4, <1>8, <1>9, <1>10, <1>11, <1>12
  <2>5. CASE x = "tech_stack_fit"
    BY <2>5, <1>8, <1>9, <1>10, <1>11, <1>12
  <2>6. CASE x = "product_attach"
    BY <2>6, <1>8, <1>9, <1>10, <1>11, <1>12
  <2>7. QED
    BY <1>12, <2>1, <2>2, <2>3, <2>4, <2>5, <2>6
<1>14. QED
  BY <1>3, <1>13

\* What a prospect in the list is like.
LEMMA ListedProspects ==
  ASSUME NEW p \in Prospects
  PROVE  /\ ProspectLike(p)
         /\ DOMAIN p = {"ownership", "locations", "vertical", "growth", "stack", "products"}
         /\ p = [x \in DOMAIN p |-> p[x]]
<1>1. Locations \subseteq Nat
  BY ScoresAssumption
<1>2. /\ p.ownership \in DOMAIN OwnershipPoints /\ p.locations \in Locations
      /\ p.vertical \in DOMAIN VerticalPoints
      /\ DOMAIN p = {"ownership", "locations", "vertical", "growth", "stack", "products"}
      /\ p = [x \in DOMAIN p |-> p[x]]
  BY DEF Prospects
<1>3. QED
  BY <1>1, <1>2 DEF ProspectLike

\* What nothing is known of is worth nothing.
LEMMA UnknownIsWorthNothing ==
  /\ OwnershipPoints["unknown"] = 0 /\ VerticalPoints["unknown"] = 0
  /\ LocationPoints(Unknown) = 0 /\ GrowthSignals({}) = 0 /\ TechStack({}) = 0
<1>1. LocationPoints(Unknown) = 0
  BY DEF LocationPoints, Unknown
<1>2. QED
  BY <1>1 DEF OwnershipPoints, VerticalPoints, GrowthSignals, TechStack, Points, Capped

\* The signals of a prospect that nobody can tell one thing of.
LEMMA UnknownIsNoBetter ==
  ASSUME NEW p \in Prospects, NEW k \in DOMAIN NoProspect
  PROVE  Fit([p EXCEPT ![k] = NoProspect[k]]).total =< Fit(p).total
<1> DEFINE q == [p EXCEPT ![k] = NoProspect[k]]
<1> DEFINE s == IcpSignals(p)
<1> DEFINE t == IcpSignals(q)
<1>1. /\ ProspectLike(p)
      /\ DOMAIN p = {"ownership", "locations", "vertical", "growth", "stack", "products"}
  BY ListedProspects
<1>2. k \in {"ownership", "locations", "vertical", "growth", "stack", "products"}
  BY DEF NoProspect
<1>3. \A x \in DOMAIN p : q[x] = IF x = k THEN NoProspect[k] ELSE p[x]
  BY <1>1
<1> HIDE DEF q
<1>4. /\ q.ownership = IF k = "ownership" THEN "unknown" ELSE p.ownership
      /\ q.locations = IF k = "locations" THEN Unknown ELSE p.locations
      /\ q.vertical = IF k = "vertical" THEN "unknown" ELSE p.vertical
      /\ q.growth = IF k = "growth" THEN {} ELSE p.growth
      /\ q.stack = IF k = "stack" THEN {} ELSE p.stack
      /\ k # "products" => q.products = p.products
      /\ k = "products" => ~ q.products
  <2>1. q.ownership = IF k = "ownership" THEN "unknown" ELSE p.ownership
    BY <1>1, <1>3 DEF NoProspect
  <2>2. q.locations = IF k = "locations" THEN Unknown ELSE p.locations
    BY <1>1, <1>3 DEF NoProspect
  <2>3. q.vertical = IF k = "vertical" THEN "unknown" ELSE p.vertical
    BY <1>1, <1>3 DEF NoProspect
  <2>4. q.growth = IF k = "growth" THEN {} ELSE p.growth
    BY <1>1, <1>3 DEF NoProspect
  <2>5. q.stack = IF k = "stack" THEN {} ELSE p.stack
    BY <1>1, <1>3 DEF NoProspect
  <2>6. k # "products" => q.products = p.products
    BY <1>1, <1>3
  <2>7. k = "products" => ~ q.products
    <3>1. NoProspect["products"] = FALSE
      BY DEF NoProspect
    <3>2. k = "products" => q["products"] = NoProspect["products"]
      BY <1>1, <1>3
    <3>3. QED
      BY <3>1, <3>2
  <2>8. QED
    BY <2>1, <2>2, <2>3, <2>4, <2>5, <2>6, <2>7
<1>5. /\ s.ownership \in {0, 10, 18, 25} /\ s.location_count \in {0, 3, 10, 18, 25}
      /\ s.brand_vertical \in {0, 3, 8, 15, 20} /\ s.growth_signals \in {0, 4, 6, 10, 14, 16, 20}
      /\ s.tech_stack_fit \in 0 .. 10 /\ s.product_attach \in {0, 5}
  BY <1>1, SignalBands
<1>6. t.ownership = s.ownership \/ t.ownership = 0
  BY <1>4, UnknownIsWorthNothing DEF IcpSignals
<1>7. t.location_count = s.location_count \/ t.location_count = 0
  BY <1>4, UnknownIsWorthNothing DEF IcpSignals
<1>8. t.brand_vertical = s.brand_vertical \/ t.brand_vertical = 0
  BY <1>4, UnknownIsWorthNothing DEF IcpSignals
<1>9. t.growth_signals = s.growth_signals \/ t.growth_signals = 0
  BY <1>4, UnknownIsWorthNothing DEF IcpSignals
<1>10. t.tech_stack_fit = s.tech_stack_fit \/ t.tech_stack_fit = 0
  BY <1>4, UnknownIsWorthNothing DEF IcpSignals
<1>11. t.product_attach = s.product_attach \/ t.product_attach = 0
  <2>1. t.product_attach = (IF q.products THEN 5 ELSE 0)
        /\ s.product_attach = (IF p.products THEN 5 ELSE 0)
    BY DEF IcpSignals
  <2>2. CASE k = "products"
    BY <1>4, <2>1, <2>2
  <2>3. CASE k # "products"
    BY <1>4, <2>1, <2>3
  <2>4. QED
    BY <2>2, <2>3
<1>12. Fit(q).total = SumOfSignals(t) /\ Fit(p).total = SumOfSignals(s)
  BY DEF Fit
<1> HIDE DEF s, t
<1>13. SumOfSignals(t) =< SumOfSignals(s)
  <2>1. t.ownership \in Int /\ s.ownership \in Int /\ t.ownership =< s.ownership
    BY <1>5, <1>6
  <2>2. /\ t.location_count \in Int /\ s.location_count \in Int
        /\ t.location_count =< s.location_count
    BY <1>5, <1>7
  <2>3. /\ t.brand_vertical \in Int /\ s.brand_vertical \in Int
        /\ t.brand_vertical =< s.brand_vertical
    BY <1>5, <1>8
  <2>4. /\ t.growth_signals \in Int /\ s.growth_signals \in Int
        /\ t.growth_signals =< s.growth_signals
    BY <1>5, <1>9
  <2>5. /\ t.tech_stack_fit \in Int /\ s.tech_stack_fit \in Int
        /\ t.tech_stack_fit =< s.tech_stack_fit
    BY <1>5, <1>10
  <2>6. /\ t.product_attach \in Int /\ s.product_attach \in Int
        /\ t.product_attach =< s.product_attach
    BY <1>5, <1>11
  <2>7. QED
    BY <2>1, <2>2, <2>3, <2>4, <2>5, <2>6 DEF SumOfSignals
<1>14. QED
  BY <1>12, <1>13 DEF q

\* ------------------------------------------------------------------
\* The risk of a customer

CustomerLike(c) ==
    /\ c.health \in 0 .. 100 \union {Unknown} /\ c.before \in 0 .. 100 \union {Unknown}
    /\ c.cases[1] \in Nat /\ c.cases[2] \in Nat
    /\ c.activity \in Nat

\* What each factor may contribute.
LEMMA FactorBounds ==
  ASSUME NEW c, CustomerLike(c)
  PROVE  /\ HealthDrop(c) \in Int /\ 0 =< HealthDrop(c) /\ HealthDrop(c) =< 3500
         /\ HealthLow(c) \in Int /\ 0 =< HealthLow(c) /\ HealthLow(c) =< 2000
         /\ NpsPart(c) \in Int /\ 0 =< NpsPart(c) /\ NpsPart(c) =< 1000
         /\ CaseSpike(c) \in Int /\ 0 =< CaseSpike(c) /\ CaseSpike(c) =< 1500
         /\ RenewalQuiet(c) \in Int /\ 0 =< RenewalQuiet(c) /\ RenewalQuiet(c) =< 1500
         /\ Stagnation(c) \in Int /\ 0 =< Stagnation(c) /\ Stagnation(c) =< 500
         /\ c.health = Unknown => HealthDrop(c) = 0 /\ HealthLow(c) = 0
<1>1. HealthDrop(c) \in Int /\ 0 =< HealthDrop(c) /\ HealthDrop(c) =< 3500
  <2>1. CASE c.health = Unknown \/ c.before \in {0, Unknown}
    BY <2>1 DEF HealthDrop
  <2>2. CASE ~ (c.health = Unknown \/ c.before \in {0, Unknown})
    <3>1. c.before \in Nat \ {0} /\ 2 * (c.before - c.health) \in Int
      BY <2>2 DEF CustomerLike, Unknown
    <3> DEFINE part == 2 * (c.before - c.health)
    <3> DEFINE w == 35
    <3> DEFINE whole == c.before
    <3>2. HealthDrop(c) = Share(w, part, whole)
      BY <2>2 DEF HealthDrop
    <3>3. w \in Nat /\ part \in Int /\ whole \in Nat \ {0} /\ 100 * w = 3500
      BY <3>1
    <3> HIDE DEF part, w, whole
    <3>4. Share(w, part, whole) \in 0 .. 100 * w
      BY <3>3, ShareBounds
    <3>5. Share(w, part, whole) \in Int /\ 0 =< Share(w, part, whole)
          /\ Share(w, part, whole) =< 3500
      BY <3>3, <3>4
    <3>6. QED
      BY <3>2, <3>5
  <2>3. QED
    BY <2>1, <2>2
<1>2. HealthLow(c) \in Int /\ 0 =< HealthLow(c) /\ HealthLow(c) =< 2000
  <2>1. CASE c.health = Unknown
    BY <2>1 DEF HealthLow
  <2>2. CASE c.health # Unknown
    <3>1. 100 - c.health \in Int
      BY <2>2 DEF CustomerLike, Unknown
    <3> DEFINE part == 100 - c.health
    <3> DEFINE w == 20
    <3> DEFINE whole == 100
    <3>2. HealthLow(c) = Share(w, part, whole)
      BY <2>2 DEF HealthLow
    <3>3. w \in Nat /\ part \in Int /\ whole \in Nat \ {0} /\ 100 * w = 2000
      BY <3>1
    <3> HIDE DEF part, w, whole
    <3>4. Share(w, part, whole) \in 0 .. 100 * w
      BY <3>3, ShareBounds
    <3>5. Share(w, part, whole) \in Int /\ 0 =< Share(w, part, whole)
          /\ Share(w, part, whole) =< 2000
      BY <3>3, <3>4
    <3>6. QED
      BY <3>2, <3>5
  <2>3. QED
    BY <2>1, <2>2
<1>3. NpsPart(c) \in Int /\ 0 =< NpsPart(c) /\ NpsPart(c) =< 1000
  <2>1. CASE c.nps \in {"detractor", "passive", "promoter"}
    BY <2>1 DEF NpsPart
  <2>2. CASE c.nps \notin {"detractor", "passive", "promoter"}
    BY <2>2 DEF NpsPart
  <2>3. QED
    BY <2>1, <2>2
<1>4. CaseSpike(c) \in Int /\ 0 =< CaseSpike(c) /\ CaseSpike(c) =< 1500
  <2>1. CASE c.cases[2] = 0
    BY <2>1 DEF CaseSpike
  <2>2. CASE c.cases[2] # 0
    <3>1. c.cases[2] \in Nat \ {0} /\ c.cases[1] - c.cases[2] \in Int
      BY <2>2 DEF CustomerLike
    <3> DEFINE part == c.cases[1] - c.cases[2]
    <3> DEFINE w == 15
    <3> DEFINE whole == c.cases[2]
    <3>2. CaseSpike(c) = Share(w, part, whole)
      BY <2>2 DEF CaseSpike
    <3>3. w \in Nat /\ part \in Int /\ whole \in Nat \ {0} /\ 100 * w = 1500
      BY <3>1
    <3> HIDE DEF part, w, whole
    <3>4. Share(w, part, whole) \in 0 .. 100 * w
      BY <3>3, ShareBounds
    <3>5. Share(w, part, whole) \in Int /\ 0 =< Share(w, part, whole)
          /\ Share(w, part, whole) =< 1500
      BY <3>3, <3>4
    <3>6. QED
      BY <3>2, <3>5
  <2>3. QED
    BY <2>1, <2>2
<1>5. RenewalQuiet(c) \in Int /\ 0 =< RenewalQuiet(c) /\ RenewalQuiet(c) =< 1500
  BY DEF RenewalQuiet
<1>6. Stagnation(c) \in Int /\ 0 =< Stagnation(c) /\ Stagnation(c) =< 500
  <2>1. CASE c.activity = Unknown
    BY <2>1 DEF Stagnation
  <2>2. CASE c.activity # Unknown
    <3>1. c.activity - 60 \in Int
      BY DEF CustomerLike
    <3> DEFINE part == c.activity - 60
    <3> DEFINE w == 5
    <3> DEFINE whole == 120
    <3>2. Stagnation(c) = Share(w, part, whole)
      BY <2>2 DEF Stagnation
    <3>3. w \in Nat /\ part \in Int /\ whole \in Nat \ {0} /\ 100 * w = 500
      BY <3>1
    <3> HIDE DEF part, w, whole
    <3>4. Share(w, part, whole) \in 0 .. 100 * w
      BY <3>3, ShareBounds
    <3>5. Share(w, part, whole) \in Int /\ 0 =< Share(w, part, whole)
          /\ Share(w, part, whole) =< 500
      BY <3>3, <3>4
    <3>6. QED
      BY <3>2, <3>5
  <2>3. QED
    BY <2>1, <2>2
<1>7. c.health = Unknown => HealthDrop(c) = 0 /\ HealthLow(c) = 0
  BY DEF HealthDrop, HealthLow
<1>8. QED
  BY <1>1, <1>2, <1>3, <1>4, <1>5, <1>6, <1>7

\* Their sum, by name.
LEMMA RiskOf ==
  ASSUME NEW c, CustomerLike(c)
  PROVE  /\ Risk(c).score = Rounded(HealthDrop(c) + HealthLow(c) + NpsPart(c) + CaseSpike(c)
                                      + RenewalQuiet(c) + Stagnation(c))
         /\ Risk(c).score \in 0 .. 100
         /\ Risk(c).tier = TierFor(Risk(c).score) /\ Risk(c).factors = Factors(c)
<1>1. SumOfContributions(Contributions(c)) =
        HealthDrop(c) + HealthLow(c) + NpsPart(c) + CaseSpike(c) + RenewalQuiet(c) + Stagnation(c)
  BY DEF SumOfContributions, Contributions
<1> DEFINE sum == HealthDrop(c) + HealthLow(c) + NpsPart(c) + CaseSpike(c) + RenewalQuiet(c)
                    + Stagnation(c)
<1>2. sum \in Int /\ 0 =< sum /\ sum =< 10000
  <2>1. /\ HealthDrop(c) \in Int /\ 0 =< HealthDrop(c) /\ HealthDrop(c) =< 3500
        /\ HealthLow(c) \in Int /\ 0 =< HealthLow(c) /\ HealthLow(c) =< 2000
        /\ NpsPart(c) \in Int /\ 0 =< NpsPart(c) /\ NpsPart(c) =< 1000
        /\ CaseSpike(c) \in Int /\ 0 =< CaseSpike(c) /\ CaseSpike(c) =< 1500
        /\ RenewalQuiet(c) \in Int /\ 0 =< RenewalQuiet(c) /\ RenewalQuiet(c) =< 1500
        /\ Stagnation(c) \in Int /\ 0 =< Stagnation(c) /\ Stagnation(c) =< 500
    BY FactorBounds
  <2> DEFINE a == HealthDrop(c)
  <2> DEFINE b == HealthLow(c)
  <2> DEFINE d == NpsPart(c)
  <2> DEFINE e == CaseSpike(c)
  <2> DEFINE f == RenewalQuiet(c)
  <2> DEFINE g == Stagnation(c)
  <2>2. /\ a \in Int /\ 0 =< a /\ a =< 3500
        /\ b \in Int /\ 0 =< b /\ b =< 2000
        /\ d \in Int /\ 0 =< d /\ d =< 1000
        /\ e \in Int /\ 0 =< e /\ e =< 1500
        /\ f \in Int /\ 0 =< f /\ f =< 1500
        /\ g \in Int /\ 0 =< g /\ g =< 500
    BY <2>1
  <2>3. sum = a + b + d + e + f + g
    OBVIOUS
  <2> HIDE DEF a, b, d, e, f, g, sum
  <2>4. QED
    BY <2>2, <2>3
<1>3. /\ Risk(c).score = Rounded(sum)
      /\ Risk(c).tier = TierFor(Risk(c).score) /\ Risk(c).factors = Factors(c)
  BY <1>1 DEF Risk
<1> HIDE DEF sum
<1>4. Rounded(sum) \in 0 .. 100
  <2>1. Rounded(sum) \in Int /\ 100 * Rounded(sum) =< sum + 50 /\ sum =< 100 * Rounded(sum) + 50
    BY <1>2, RoundedBounds
  <2> DEFINE r == Rounded(sum)
  <2>2. r \in Int /\ 100 * r =< sum + 50 /\ sum =< 100 * r + 50
    BY <2>1
  <2> HIDE DEF r
  <2>3. sum \in Int /\ 0 =< sum /\ sum =< 10000
    BY <1>2
  <2>4. r =< 100
    BY <2>2, <2>3
  <2>5. 0 =< r
    BY <2>2, <2>3
  <2>6. QED
    BY <2>2, <2>4, <2>5 DEF r
<1>5. QED
  BY <1>3, <1>4 DEF sum

LEMMA FactorsAreWhole ==
  ASSUME NEW c, CustomerLike(c)
  PROVE  /\ HealthDrop(c) \in Int /\ HealthLow(c) \in Int /\ NpsPart(c) \in Int
         /\ CaseSpike(c) \in Int /\ RenewalQuiet(c) \in Int /\ Stagnation(c) \in Int
  BY FactorBounds

LEMMA Tiers ==
  ASSUME NEW n \in 0 .. 100
  PROVE  /\ TierFor(n) \in {0, 50, 70, 85}
         /\ TierFor(n) >= 70 => n >= 70
         /\ n < 50 => TierFor(n) = 0
<1>1. CASE n >= 85
  BY <1>1 DEF TierFor
<1>2. CASE n \in 70 .. 84
  BY <1>2 DEF TierFor
<1>3. CASE n \in 50 .. 69
  BY <1>3 DEF TierFor
<1>4. CASE n \in 0 .. 49
  BY <1>4 DEF TierFor
<1>5. QED
  BY <1>1, <1>2, <1>3, <1>4

\* Without the two factors of the health no tier is reached.
LEMMA QuietWithoutHealth ==
  ASSUME NEW c, CustomerLike(c), c.health = Unknown
  PROVE  Risk(c).tier = 0
<1> DEFINE sum == HealthDrop(c) + HealthLow(c) + NpsPart(c) + CaseSpike(c) + RenewalQuiet(c)
                    + Stagnation(c)
<1>1. sum \in Int /\ sum =< 4500
  <2>1. /\ HealthDrop(c) = 0 /\ HealthLow(c) = 0
        /\ NpsPart(c) \in Int /\ 0 =< NpsPart(c) /\ NpsPart(c) =< 1000
        /\ CaseSpike(c) \in Int /\ 0 =< CaseSpike(c) /\ CaseSpike(c) =< 1500
        /\ RenewalQuiet(c) \in Int /\ 0 =< RenewalQuiet(c) /\ RenewalQuiet(c) =< 1500
        /\ Stagnation(c) \in Int /\ 0 =< Stagnation(c) /\ Stagnation(c) =< 500
    BY FactorBounds
  <2> DEFINE n == NpsPart(c)
  <2> DEFINE k == CaseSpike(c)
  <2> DEFINE q == RenewalQuiet(c)
  <2> DEFINE g == Stagnation(c)
  <2>2. /\ n \in Int /\ 0 =< n /\ n =< 1000
        /\ k \in Int /\ 0 =< k /\ k =< 1500
        /\ q \in Int /\ 0 =< q /\ q =< 1500
        /\ g \in Int /\ 0 =< g /\ g =< 500
        /\ sum = 0 + 0 + n + k + q + g
    BY <2>1
  <2> HIDE DEF sum, n, k, q, g
  <2>3. QED
    BY <2>2
<1>2. Risk(c).score = Rounded(sum) /\ Risk(c).score \in 0 .. 100
  BY RiskOf
<1> HIDE DEF sum
<1>3. Rounded(sum) \in Int /\ 100 * Rounded(sum) =< sum + 50
  BY <1>1, RoundedBounds
<1>4. Risk(c).score < 50
  BY <1>1, <1>2, <1>3
<1>5. QED
  BY <1>2, <1>4, RiskOf, Tiers

\* A score of seventy has three factors.
LEMMA SeventyHasThree ==
  ASSUME NEW c, CustomerLike(c), Risk(c).tier >= 70
  PROVE  Risk(c).factors >= 3
<1> DEFINE f == Contributions(c)
<1> DEFINE H == {k \in DOMAIN f : f[k] > 0}
<1>1. /\ DOMAIN f = FactorNames
      /\ f["health_drop"] = HealthDrop(c) /\ f["health_absolute_low"] = HealthLow(c)
      /\ f["nps"] = NpsPart(c) /\ f["case_spike"] = CaseSpike(c)
      /\ f["renewal_no_conversation"] = RenewalQuiet(c) /\ f["stagnation"] = Stagnation(c)
  BY DEF Contributions, FactorNames
<1>2. IsFiniteSet(H) /\ H \subseteq FactorNames
  BY <1>1, SixAreFinite, FS_Subset
<1>3. Risk(c).factors = Cardinality(H)
  BY RiskOf DEF Factors
<1>4. SUFFICES ASSUME ~ (Cardinality(H) >= 3) PROVE FALSE
  BY <1>3
<1>5. PICK x \in FactorNames, y \in FactorNames : H \subseteq {x, y}
  <2> HIDE DEF H
  <2>1. FactorNames # {}
    BY DEF FactorNames
  <2>2. QED
    BY <1>2, <1>4, <2>1, CoveredByTwo
<1>6. ASSUME NEW k \in FactorNames, k # x, k # y PROVE ~ (f[k] > 0)
  BY <1>1, <1>5, <1>6
<1> HIDE DEF H, f
<1> DEFINE a == HealthDrop(c)
<1> DEFINE b == HealthLow(c)
<1> DEFINE d == NpsPart(c)
<1> DEFINE e == CaseSpike(c)
<1> DEFINE g == RenewalQuiet(c)
<1> DEFINE h == Stagnation(c)
<1>7. /\ a \in Int /\ 0 =< a /\ a =< 3500
      /\ b \in Int /\ 0 =< b /\ b =< 2000
      /\ d \in Int /\ 0 =< d /\ d =< 1000
      /\ e \in Int /\ 0 =< e /\ e =< 1500
      /\ g \in Int /\ 0 =< g /\ g =< 1500 /\ h \in Int /\ 0 =< h /\ h =< 500
  BY FactorBounds
<1>8. /\ ("health_drop" # x /\ "health_drop" # y) => ~ (a > 0)
      /\ ("health_absolute_low" # x /\ "health_absolute_low" # y) => ~ (b > 0)
      /\ ("nps" # x /\ "nps" # y) => ~ (d > 0)
      /\ ("case_spike" # x /\ "case_spike" # y) => ~ (e > 0)
      /\ ("renewal_no_conversation" # x /\ "renewal_no_conversation" # y) => ~ (g > 0)
      /\ ("stagnation" # x /\ "stagnation" # y) => ~ (h > 0)
  BY <1>1, <1>6 DEF FactorNames
<1>9. Risk(c).score = Rounded(a + b + d + e + g + h) /\ Risk(c).score \in 0 .. 100
  BY RiskOf
<1>10. Risk(c).score >= 70
  BY <1>9, RiskOf, Tiers
<1>11. x \in {"health_drop", "health_absolute_low", "nps", "case_spike",
              "renewal_no_conversation", "stagnation"}
  BY <1>5 DEF FactorNames
<1> HIDE DEF a, b, d, e, g, h
<1>12. /\ a \in Int /\ 0 =< a /\ a =< 3500 /\ b \in Int /\ 0 =< b /\ b =< 2000
       /\ d \in Int /\ 0 =< d /\ d =< 1000 /\ e \in Int /\ 0 =< e /\ e =< 1500
       /\ g \in Int /\ 0 =< g /\ g =< 1500 /\ h \in Int /\ 0 =< h /\ h =< 500
  BY <1>7
<1>13. a + b + d + e + g + h =< 5500
  <2>1. CASE x = "health_drop"
    BY <2>1, <1>8, <1>12
  <2>2. CASE x = "health_absolute_low"
    BY <2>2, <1>8, <1>12
  <2>3. CASE x = "nps"
    BY <2>3, <1>8, <1>12
  <2>4. CASE x = "case_spike"
    BY <2>4, <1>8, <1>12
  <2>5. CASE x = "renewal_no_conversation"
    BY <2>5, <1>8, <1>12
  <2>6. CASE x = "stagnation"
    BY <2>6, <1>8, <1>12
  <2>7. QED
    BY <1>11, <2>1, <2>2, <2>3, <2>4, <2>5, <2>6
<1> DEFINE sum == a + b + d + e + g + h
<1>14. sum \in Int /\ sum =< 5500 /\ Risk(c).score = Rounded(sum)
  BY <1>9, <1>12, <1>13
<1> HIDE DEF sum
<1>15. Rounded(sum) \in Int /\ 100 * Rounded(sum) =< sum + 50
  BY <1>14, RoundedBounds
<1>16. QED
  BY <1>10, <1>14, <1>15

\* Where every factor is no less, the risk is no less.
LEMMA MoreIsNoBetter ==
  ASSUME NEW c, NEW w, CustomerLike(c), CustomerLike(w),
         HealthDrop(c) =< HealthDrop(w), HealthLow(c) =< HealthLow(w), NpsPart(c) =< NpsPart(w),
         CaseSpike(c) =< CaseSpike(w), RenewalQuiet(c) =< RenewalQuiet(w),
         Stagnation(c) =< Stagnation(w)
  PROVE  Risk(c).score =< Risk(w).score
<1> DEFINE less == HealthDrop(c) + HealthLow(c) + NpsPart(c) + CaseSpike(c) + RenewalQuiet(c)
                     + Stagnation(c)
<1> DEFINE more == HealthDrop(w) + HealthLow(w) + NpsPart(w) + CaseSpike(w) + RenewalQuiet(w)
                     + Stagnation(w)
<1>1. /\ HealthDrop(c) \in Int /\ HealthLow(c) \in Int /\ NpsPart(c) \in Int
      /\ CaseSpike(c) \in Int /\ RenewalQuiet(c) \in Int /\ Stagnation(c) \in Int
  BY FactorsAreWhole
<1>2. /\ HealthDrop(w) \in Int /\ HealthLow(w) \in Int /\ NpsPart(w) \in Int
      /\ CaseSpike(w) \in Int /\ RenewalQuiet(w) \in Int /\ Stagnation(w) \in Int
  BY FactorsAreWhole
<1>3. less \in Int /\ more \in Int /\ less =< more
  BY <1>1, <1>2
<1>4. Risk(c).score = Rounded(less) /\ Risk(w).score = Rounded(more)
  BY RiskOf
<1> HIDE DEF less, more
<1>5. QED
  BY <1>3, <1>4, RoundedKeepsOrder

\* A customer with one thing changed for the worse.
LEMMA WorseOff ==
  ASSUME NEW c \in Customers, NEW w,
         \/ w = [c EXCEPT !.nps = "detractor"] \/ w = [c EXCEPT !.activity = 180]
         \/ w = [c EXCEPT !.cases = <<c.cases[1] + 1, c.cases[2]>>]
         \/ \E h \in Healths : h < c.health /\ c.health # Unknown /\ w = [c EXCEPT !.health = h]
  PROVE  Risk(w).score >= Risk(c).score
<1>1. /\ c.health \in Healths /\ c.before \in Healths
      /\ c.nps \in {"detractor", "passive", "promoter", "unknown"} /\ c.cases \in CaseCounts
      /\ c.activity \in {Unknown, 60, 120, 180}
      /\ DOMAIN c = {"health", "before", "nps", "cases", "renewal", "call", "activity"}
  BY DEF Customers
<1>2. Healths \subseteq 0 .. 100 \union {Unknown} /\ c.cases \in Nat \X Nat
  BY <1>1, ScoresAssumption DEF Unknown
<1>3. c.cases[1] \in Nat /\ c.cases[2] \in Nat
  BY <1>2
<1>4. CustomerLike(c)
  BY <1>1, <1>2, <1>3 DEF CustomerLike, Unknown
<1>5. Risk(c).score \in Int
  BY <1>4, RiskOf
<1>6. CASE w = [c EXCEPT !.nps = "detractor"]
  <2>1. /\ w.nps = "detractor" /\ w.health = c.health /\ w.before = c.before
        /\ w.cases = c.cases /\ w.renewal = c.renewal /\ w.call = c.call
        /\ w.activity = c.activity
    BY <1>1, <1>6
  <2>2. CustomerLike(w)
    BY <1>4, <2>1 DEF CustomerLike
  <2>3. NpsPart(c) =< NpsPart(w)
    <3>1. NpsPart(w) = 1000
      BY <2>1 DEF NpsPart
    <3>2. NpsPart(c) \in Int /\ 0 =< NpsPart(c) /\ NpsPart(c) =< 1000
      BY <1>4, FactorBounds
    <3>3. QED
      BY <3>1, <3>2
  <2>4. /\ HealthDrop(c) = HealthDrop(w) /\ HealthLow(c) = HealthLow(w)
        /\ CaseSpike(c) = CaseSpike(w) /\ RenewalQuiet(c) = RenewalQuiet(w)
        /\ Stagnation(c) = Stagnation(w)
    BY <2>1 DEF HealthDrop, HealthLow, CaseSpike, RenewalQuiet, Stagnation
  <2>5. /\ HealthDrop(c) =< HealthDrop(w) /\ HealthLow(c) =< HealthLow(w)
        /\ CaseSpike(c) =< CaseSpike(w) /\ RenewalQuiet(c) =< RenewalQuiet(w)
        /\ Stagnation(c) =< Stagnation(w)
    BY <1>4, <2>2, <2>4, FactorsAreWhole
  <2>6. Risk(c).score =< Risk(w).score
    BY <1>4, <2>2, <2>3, <2>5, MoreIsNoBetter
  <2>7. QED
    BY <1>4, <2>2, <2>6, RiskOf
<1>7. CASE w = [c EXCEPT !.activity = 180]
  <2>1. /\ w.nps = c.nps /\ w.health = c.health /\ w.before = c.before
        /\ w.cases = c.cases /\ w.renewal = c.renewal /\ w.call = c.call
        /\ w.activity = 180
    BY <1>1, <1>7
  <2>2. CustomerLike(w)
    BY <1>4, <2>1 DEF CustomerLike
  <2>3. Stagnation(c) =< Stagnation(w)
    <3>1. Stagnation(w) = 500
      BY <2>1 DEF Stagnation, Share, Unknown
    <3>2. Stagnation(c) \in Int /\ 0 =< Stagnation(c) /\ Stagnation(c) =< 500
      BY <1>4, FactorBounds
    <3>3. QED
      BY <3>1, <3>2
  <2>4. /\ HealthDrop(c) = HealthDrop(w) /\ HealthLow(c) = HealthLow(w)
        /\ CaseSpike(c) = CaseSpike(w) /\ RenewalQuiet(c) = RenewalQuiet(w)
        /\ NpsPart(c) = NpsPart(w)
    BY <2>1 DEF HealthDrop, HealthLow, CaseSpike, RenewalQuiet, NpsPart
  <2>5. /\ HealthDrop(c) =< HealthDrop(w) /\ HealthLow(c) =< HealthLow(w)
        /\ CaseSpike(c) =< CaseSpike(w) /\ RenewalQuiet(c) =< RenewalQuiet(w)
        /\ NpsPart(c) =< NpsPart(w)
    BY <1>4, <2>2, <2>4, FactorsAreWhole
  <2>6. Risk(c).score =< Risk(w).score
    BY <1>4, <2>2, <2>3, <2>5, MoreIsNoBetter
  <2>7. QED
    BY <1>4, <2>2, <2>6, RiskOf
<1>8. CASE w = [c EXCEPT !.cases = <<c.cases[1] + 1, c.cases[2]>>]
  <2>1. /\ w.nps = c.nps /\ w.health = c.health /\ w.before = c.before
        /\ w.renewal = c.renewal /\ w.call = c.call /\ w.activity = c.activity
        /\ w.cases = <<c.cases[1] + 1, c.cases[2]>>
    BY <1>1, <1>8
  <2> DEFINE i == c.cases[1]
  <2> DEFINE j == c.cases[2]
  <2>2. i \in Nat /\ j \in Nat /\ w.cases[1] = i + 1 /\ w.cases[2] = j
    BY <1>3, <2>1
  <2>3. CustomerLike(w)
    BY <1>4, <2>1, <2>2 DEF CustomerLike
  <2>4. CaseSpike(c) =< CaseSpike(w)
    <3>1. CASE j = 0
      BY <2>2, <3>1 DEF CaseSpike
    <3>2. CASE j # 0
      <4>1. CaseSpike(c) = Share(15, i - j, j) /\ CaseSpike(w) = Share(15, (i + 1) - j, j)
        BY <2>2, <3>2 DEF CaseSpike
      <4> DEFINE n == 15
      <4>2. n \in Nat /\ i - j \in Int /\ (i + 1) - j \in Int /\ i - j =< (i + 1) - j
            /\ j \in Nat \ {0}
        BY <2>2, <3>2
      <4> HIDE DEF n, i, j
      <4>3. Share(n, i - j, j) =< Share(n, (i + 1) - j, j)
        BY <4>2, ShareKeepsOrder
      <4>4. QED
        BY <4>1, <4>3 DEF n
    <3>3. QED
      BY <3>1, <3>2
  <2>5. /\ HealthDrop(c) = HealthDrop(w) /\ HealthLow(c) = HealthLow(w)
        /\ Stagnation(c) = Stagnation(w) /\ RenewalQuiet(c) = RenewalQuiet(w)
        /\ NpsPart(c) = NpsPart(w)
    BY <2>1 DEF HealthDrop, HealthLow, Stagnation, RenewalQuiet, NpsPart
  <2>6. /\ HealthDrop(c) =< HealthDrop(w) /\ HealthLow(c) =< HealthLow(w)
        /\ Stagnation(c) =< Stagnation(w) /\ RenewalQuiet(c) =< RenewalQuiet(w)
        /\ NpsPart(c) =< NpsPart(w)
    BY <1>4, <2>3, <2>5, FactorsAreWhole
  <2>7. Risk(c).score =< Risk(w).score
    BY <1>4, <2>3, <2>4, <2>6, MoreIsNoBetter
  <2>8. QED
    BY <1>4, <2>3, <2>7, RiskOf
<1>9. ASSUME NEW h \in Healths, h < c.health, c.health # Unknown, w = [c EXCEPT !.health = h]
      PROVE  Risk(w).score >= Risk(c).score
  <2>1. /\ w.nps = c.nps /\ w.health = h /\ w.before = c.before /\ w.cases = c.cases
        /\ w.renewal = c.renewal /\ w.call = c.call /\ w.activity = c.activity
    BY <1>1, <1>9
  <2> DEFINE g == c.health
  <2> DEFINE b == c.before
  <2>2. g \in Nat /\ h \in Nat /\ h < g /\ g =< 100 /\ h # Unknown
    BY <1>1, <1>2, <1>9 DEF Unknown
  <2>3. b \in Nat
    BY <1>4 DEF CustomerLike, Unknown
  <2>4. CustomerLike(w)
    BY <1>2, <1>4, <2>1, <1>9 DEF CustomerLike
  <2>5. HealthDrop(c) =< HealthDrop(w)
    <3>1. CASE b \in {0, Unknown}
      BY <2>1, <3>1 DEF HealthDrop
    <3>2. CASE b \notin {0, Unknown}
      <4>1. HealthDrop(c) = Share(35, 2 * (b - g), b) /\ HealthDrop(w) = Share(35, 2 * (b - h), b)
        BY <1>9, <2>1, <2>2, <3>2 DEF HealthDrop
      <4> DEFINE n == 35
      <4> DEFINE less == 2 * (b - g)
      <4> DEFINE more == 2 * (b - h)
      <4>2. n \in Nat /\ less \in Int /\ more \in Int /\ less =< more /\ b \in Nat \ {0}
        BY <2>2, <2>3, <3>2
      <4> HIDE DEF n, less, more, b
      <4>3. Share(n, less, b) =< Share(n, more, b)
        BY <4>2, ShareKeepsOrder
      <4>4. QED
        BY <4>1, <4>3 DEF n, less, more
    <3>3. QED
      BY <3>1, <3>2
  <2>6. HealthLow(c) =< HealthLow(w)
    <3>1. HealthLow(c) = Share(20, 100 - g, 100) /\ HealthLow(w) = Share(20, 100 - h, 100)
      BY <1>9, <2>1, <2>2 DEF HealthLow
    <3> DEFINE n == 20
    <3> DEFINE hundred == 100
    <3> DEFINE less == 100 - g
    <3> DEFINE more == 100 - h
    <3>2. n \in Nat /\ less \in Int /\ more \in Int /\ less =< more /\ hundred \in Nat \ {0}
      BY <2>2
    <3> HIDE DEF n, less, more, hundred
    <3>3. Share(n, less, hundred) =< Share(n, more, hundred)
      BY <3>2, ShareKeepsOrder
    <3>4. QED
      BY <3>1, <3>3 DEF n, less, more, hundred
  <2>7. /\ CaseSpike(c) = CaseSpike(w) /\ Stagnation(c) = Stagnation(w)
        /\ RenewalQuiet(c) = RenewalQuiet(w) /\ NpsPart(c) = NpsPart(w)
    BY <2>1 DEF CaseSpike, Stagnation, RenewalQuiet, NpsPart
  <2>8. /\ CaseSpike(c) =< CaseSpike(w) /\ Stagnation(c) =< Stagnation(w)
        /\ RenewalQuiet(c) =< RenewalQuiet(w) /\ NpsPart(c) =< NpsPart(w)
    BY <1>4, <2>4, <2>7, FactorsAreWhole
  <2>9. Risk(c).score =< Risk(w).score
    BY <1>4, <2>4, <2>5, <2>6, <2>8, MoreIsNoBetter
  <2>10. QED
    BY <1>4, <2>4, <2>9, RiskOf
<1>10. QED
  BY <1>6, <1>7, <1>8, <1>9

\* What a state of the scores is: a score that is the one of who is scored.
ScoresIInv ==
    /\ prospect \in Prospects \union {NoProspect} /\ fit = Fit(prospect)
    /\ customer \in Customers \union {NoCustomer} /\ risk = Risk(customer)

LEMMA ScoresInitIInv == ScoresInit => ScoresIInv
  BY DEF ScoresInit, ScoresIInv

LEMMA ScoresStepIInv == ScoresIInv /\ [ScoresNext]_scoreVars => ScoresIInv'
<1> SUFFICES ASSUME ScoresIInv, [ScoresNext]_scoreVars PROVE ScoresIInv'
  OBVIOUS
<1>1. CASE ScoreProspect
  <2>1. PICK p \in Prospects : prospect' = p /\ fit' = Fit(p)
    BY <1>1 DEF ScoreProspect
  <2>2. customer' = customer /\ risk' = risk
    BY <1>1 DEF ScoreProspect
  <2>3. QED
    BY <2>1, <2>2 DEF ScoresIInv
<1>2. CASE ScoreCustomer
  <2>1. PICK c \in Customers : customer' = c /\ risk' = Risk(c)
    BY <1>2 DEF ScoreCustomer
  <2>2. prospect' = prospect /\ fit' = fit
    BY <1>2 DEF ScoreCustomer
  <2>3. QED
    BY <2>1, <2>2 DEF ScoresIInv
<1>3. CASE UNCHANGED scoreVars
  BY <1>3 DEF scoreVars, ScoresIInv
<1>4. QED
  BY <1>1, <1>2, <1>3 DEF ScoresNext

LEMMA ScoresInvHolds == ScoresIInv => ScoresInv
<1> SUFFICES ASSUME ScoresIInv PROVE ScoresInv
  OBVIOUS
<1>1. ProspectLike(prospect)
  <2>1. CASE prospect \in Prospects
    BY <2>1, ListedProspects
  <2>2. CASE prospect = NoProspect
    <3>1. NoProspect.ownership = "unknown" /\ NoProspect.vertical = "unknown"
          /\ NoProspect.locations = 999
      BY DEF NoProspect, Unknown
    <3>2. "unknown" \in DOMAIN OwnershipPoints /\ "unknown" \in DOMAIN VerticalPoints
      BY DEF OwnershipPoints, VerticalPoints
    <3>3. QED
      BY <2>2, <3>1, <3>2 DEF ProspectLike
  <2>3. QED
    BY <2>1, <2>2 DEF ScoresIInv
<1>2. CustomerLike(customer)
  <2>1. CASE customer \in Customers
    <3>1. /\ customer.health \in Healths /\ customer.before \in Healths
          /\ customer.cases \in CaseCounts /\ customer.activity \in {Unknown, 60, 120, 180}
      BY <2>1 DEF Customers
    <3>2. Healths \subseteq 0 .. 100 \union {Unknown} /\ customer.cases \in Nat \X Nat
      BY <3>1, ScoresAssumption DEF Unknown
    <3>3. customer.cases[1] \in Nat /\ customer.cases[2] \in Nat
      BY <3>2
    <3>4. customer.activity \in Nat
      BY <3>1 DEF Unknown
    <3>5. QED
      BY <3>1, <3>2, <3>3, <3>4 DEF CustomerLike
  <2>2. CASE customer = NoCustomer
    BY <2>2 DEF NoCustomer, CustomerLike, Unknown
  <2>3. QED
    BY <2>1, <2>2 DEF ScoresIInv
<1>3. fit = Fit(prospect) /\ risk = Risk(customer)
  BY DEF ScoresIInv
<1>4. ScoresTypeOK
  <2>1. fit.total \in 0 .. 105
    <3> DEFINE s == IcpSignals(prospect)
    <3>1. /\ s.ownership \in {0, 10, 18, 25} /\ s.location_count \in {0, 3, 10, 18, 25}
          /\ s.brand_vertical \in {0, 3, 8, 15, 20}
          /\ s.growth_signals \in {0, 4, 6, 10, 14, 16, 20}
          /\ s.tech_stack_fit \in 0 .. 10 /\ s.product_attach \in {0, 5}
      BY <1>1, SignalBands
    <3>2. fit.total = SumOfSignals(s)
      BY <1>3 DEF Fit
    <3> HIDE DEF s
    <3>3. /\ s.ownership \in 0 .. 25 /\ s.location_count \in 0 .. 25
          /\ s.brand_vertical \in 0 .. 20 /\ s.growth_signals \in 0 .. 20
          /\ s.tech_stack_fit \in 0 .. 10 /\ s.product_attach \in 0 .. 5
      BY <3>1
    <3>4. QED
      BY <3>2, <3>3 DEF SumOfSignals
  <2>2. fit.tier \in {"A", "B", "C", "D"}
    <3> DEFINE n == SumOfSignals(IcpSignals(prospect))
    <3>1. fit.tier = IcpTier(n) /\ n \in Int
      BY <1>3, <2>1 DEF Fit
    <3> HIDE DEF n
    <3>2. CASE n >= 70
      BY <3>1, <3>2 DEF IcpTier
    <3>3. CASE n \in 45 .. 69
      BY <3>1, <3>3 DEF IcpTier
    <3>4. CASE n \in 25 .. 44
      BY <3>1, <3>4 DEF IcpTier
    <3>5. CASE n < 25
      BY <3>1, <3>5 DEF IcpTier
    <3>6. QED
      BY <3>1, <3>2, <3>3, <3>4, <3>5
  <2>3. risk.score \in 0 .. 100 /\ risk.tier \in {0, 50, 70, 85}
    BY <1>2, <1>3, RiskOf, Tiers
  <2>4. risk.factors \in 0 .. 6
    <3> DEFINE H == {k \in DOMAIN Contributions(customer) : Contributions(customer)[k] > 0}
    <3>1. risk.factors = Cardinality(H)
      BY <1>2, <1>3, RiskOf DEF Factors
    <3>2. H \subseteq FactorNames
      BY DEF Contributions, FactorNames
    <3>3. Cardinality(H) =< Cardinality(FactorNames) /\ IsFiniteSet(H)
      BY <3>2, SixAreFinite, FS_Subset
    <3>4. Cardinality(FactorNames) = 6
      BY FactorNamesAreSix
    <3>5. Cardinality(H) \in Nat
      BY <3>3, FS_CardinalityType
    <3>6. QED
      BY <3>1, <3>3, <3>4, <3>5
  <2>5. QED
    BY <2>1, <2>2, <2>3, <2>4 DEF ScoresTypeOK
<1>5. UnknownNeverHelps
  <2>1. ASSUME prospect # NoProspect, NEW k \in DOMAIN NoProspect
        PROVE  Fit([prospect EXCEPT ![k] = NoProspect[k]]).total =< fit.total
    <3>1. prospect \in Prospects
      BY <2>1 DEF ScoresIInv
    <3>2. QED
      BY <1>3, <2>1, <3>1, UnknownIsNoBetter
  <2>2. fit.tier = "A" =>
          Cardinality({k \in DOMAIN IcpSignals(prospect) : IcpSignals(prospect)[k] >= 6}) >= 3
    BY <1>1, <1>3, TierAStandsOnThree
  <2>3. QED
    BY <2>1, <2>2 DEF UnknownNeverHelps
<1>6. NoHealthNoAlarm
  BY <1>2, <1>3, QuietWithoutHealth DEF NoHealthNoAlarm
<1>7. AlertsRestOnThree
  BY <1>2, <1>3, SeventyHasThree DEF AlertsRestOnThree
<1>8. WorseIsNoBetter
  <2> SUFFICES ASSUME customer # NoCustomer PROVE WorseIsNoBetter
    BY DEF WorseIsNoBetter
  <2>1. customer \in Customers
    BY DEF ScoresIInv
  <2> DEFINE W == {[customer EXCEPT !.nps = "detractor"], [customer EXCEPT !.activity = 180],
                   [customer EXCEPT !.cases = <<customer.cases[1] + 1, customer.cases[2]>>]}
                  \union {[customer EXCEPT !.health = h] :
                            h \in {g \in Healths : g < customer.health
                                                   /\ customer.health # Unknown}}
  <2>2. ASSUME NEW w \in W
        PROVE  Risk(w).score >= risk.score
    <3>1. \/ w = [customer EXCEPT !.nps = "detractor"] \/ w = [customer EXCEPT !.activity = 180]
          \/ w = [customer EXCEPT !.cases = <<customer.cases[1] + 1, customer.cases[2]>>]
          \/ \E h \in Healths : /\ h < customer.health /\ customer.health # Unknown
                                 /\ w = [customer EXCEPT !.health = h]
      BY <2>2
    <3>2. QED
      BY <1>3, <2>1, <3>1, WorseOff
  <2>3. QED
    BY <2>2 DEF WorseIsNoBetter
<1>9. QED
  BY <1>4, <1>5, <1>6, <1>7, <1>8 DEF ScoresInv

\* The scores of a prospect and of a customer (score_account in icp_scorer.py
\* and in cs/risk/scoring.py) keep ScoresInv, whatever is known of them.
THEOREM ScoresHold == ScoresSpec => []ScoresInv
<1>1. ScoresInit => ScoresIInv
  BY ScoresInitIInv
<1>2. ScoresIInv /\ [ScoresNext]_scoreVars => ScoresIInv'
  BY ScoresStepIInv
<1>3. ScoresIInv => ScoresInv
  BY ScoresInvHolds
<1>4. QED
  BY <1>1, <1>2, <1>3, PTL DEF ScoresSpec
\* ------------------------------------------------------------------
\* Sums over a finite domain

\* The sum over a set, by the element that is taken first.
SumsFor(f, T, g) ==
    g[T] = IF T = {} THEN 0 ELSE f[CHOOSE y \in T : TRUE] + g[T \ {CHOOSE y \in T : TRUE}]

\* Sets of a finite domain have a size, and one less without an element.
LEMMA SizeOf ==
  ASSUME NEW D, IsFiniteSet(D), NEW T \in SUBSET D
  PROVE  /\ IsFiniteSet(T) /\ Cardinality(T) \in Nat
         /\ T \subseteq D
         /\ \A x \in T : /\ T \ {x} \in SUBSET D
                         /\ Cardinality(T \ {x}) = Cardinality(T) - 1
         /\ Cardinality(T) = 0 <=> T = {}
<1>1. IsFiniteSet(T)
  BY FS_Subset
<1>2. Cardinality(T) \in Nat
  BY <1>1, FS_CardinalityType
<1>3. Cardinality(T) = 0 <=> T = {}
  BY <1>1, FS_EmptySet
<1>4. ASSUME NEW x \in T PROVE Cardinality(T \ {x}) = Cardinality(T) - 1
  BY <1>1, FS_RemoveElement
<1>5. QED
  BY <1>1, <1>2, <1>3, <1>4

\* The sums exist.
LEMMA SumsExist ==
  ASSUME NEW f, IsFiniteSet(DOMAIN f)
  PROVE  \E g : g = [T \in SUBSET DOMAIN f |->
                       IF T = {} THEN 0
                       ELSE f[CHOOSE y \in T : TRUE] + g[T \ {CHOOSE y \in T : TRUE}]]
<1> DEFINE D == DOMAIN f
<1> DEFINE c(T) == CHOOSE y \in T : TRUE
<1> DEFINE Step(g) == [T \in SUBSET D |-> IF T = {} THEN 0 ELSE f[c(T)] + g[T \ {c(T)}]]
<1> DEFINE Good(n) == \E g : \A T \in SUBSET D : Cardinality(T) =< n => g[T] = Step(g)[T]
<1> DEFINE Bad == {n \in Nat : ~ Good(n)}
<1>1. ASSUME NEW T \in SUBSET D, T # {} PROVE c(T) \in T
  BY <1>1
<1>2. Good(0)
  <2> DEFINE g == [T \in SUBSET D |-> 0]
  <2>1. ASSUME NEW T \in SUBSET D, Cardinality(T) =< 0 PROVE g[T] = Step(g)[T]
    <3>1. T = {}
      BY <2>1, SizeOf
    <3>2. QED
      BY <3>1
  <2>2. QED
    BY <2>1
<1>3. ASSUME NEW n \in Nat, Good(n) PROVE Good(n + 1)
  <2>1. PICK g : \A T \in SUBSET D : Cardinality(T) =< n => g[T] = Step(g)[T]
    BY <1>3
  <2> DEFINE h == Step(g)
  <2>2. ASSUME NEW T \in SUBSET D, Cardinality(T) =< n + 1 PROVE h[T] = Step(h)[T]
    <3>1. CASE T = {}
      BY <3>1
    <3>2. CASE T # {}
      <4> DEFINE R == T \ {c(T)}
      <4>1. c(T) \in T
        BY <3>2, <1>1
      <4>2. R \in SUBSET D /\ Cardinality(R) = Cardinality(T) - 1 /\ Cardinality(T) \in Nat
        <5>1. /\ Cardinality(T) \in Nat
              /\ \A x \in T : /\ T \ {x} \in SUBSET D
                              /\ Cardinality(T \ {x}) = Cardinality(T) - 1
          BY SizeOf
        <5> HIDE DEF c, D
        <5>2. QED
          BY <4>1, <5>1
      <4>3. Cardinality(R) =< n
        BY <2>2, <4>2
      <4>4. g[R] = h[R]
        BY <2>1, <4>2, <4>3
      <4>5. h[T] = f[c(T)] + g[R] /\ Step(h)[T] = f[c(T)] + h[R]
        BY <3>2
      <4>6. QED
        BY <4>4, <4>5
    <3>3. QED
      BY <3>1, <3>2
  <2>3. QED
    BY <2>2
<1> HIDE DEF Good
<1>4. Bad = {}
  <2>1. SUFFICES ASSUME Bad # {} PROVE FALSE
    OBVIOUS
  <2>2. PICK m \in Bad : \A y \in Bad : m =< y
    BY <2>1, LeastOfSome
  <2>3. m # 0
    BY <1>2, <2>2
  <2>4. m - 1 \in Nat /\ ~ (m =< m - 1)
    BY <2>2, <2>3
  <2>5. Good(m - 1)
    BY <2>2, <2>4
  <2>6. Good((m - 1) + 1)
    BY <1>3, <2>4, <2>5
  <2>7. QED
    BY <2>2, <2>4, <2>6
<1>5. Cardinality(D) \in Nat
  BY FS_CardinalityType
<1>6. Good(Cardinality(D))
  BY <1>4, <1>5
<1>7. PICK g : \A T \in SUBSET D : Cardinality(T) =< Cardinality(D) => g[T] = Step(g)[T]
  BY <1>6 DEF Good
<1>8. \A T \in SUBSET D : g[T] = Step(g)[T]
  <2>1. ASSUME NEW T \in SUBSET D PROVE Cardinality(T) =< Cardinality(D)
    BY FS_Subset
  <2>2. QED
    BY <1>7, <2>1
<1>9. Step(Step(g)) = Step(g)
  <2>1. ASSUME NEW T \in SUBSET D, T # {} PROVE T \ {c(T)} \in SUBSET D
    OBVIOUS
  <2>2. ASSUME NEW T \in SUBSET D, T # {} PROVE g[T \ {c(T)}] = Step(g)[T \ {c(T)}]
    BY <1>8, <2>1, <2>2
  <2>3. ASSUME NEW T \in SUBSET D PROVE Step(Step(g))[T] = Step(g)[T]
    <3>1. CASE T = {}
      BY <3>1
    <3>2. CASE T # {}
      <4>1. /\ Step(Step(g))[T] = f[c(T)] + Step(g)[T \ {c(T)}]
            /\ Step(g)[T] = f[c(T)] + g[T \ {c(T)}]
        BY <3>2
      <4>2. QED
        BY <2>2, <3>2, <4>1
    <3>3. QED
      BY <3>1, <3>2
  <2> DEFINE h == Step(g)
  <2> DEFINE k == Step(h)
  <2>4. /\ DOMAIN h = SUBSET D /\ DOMAIN k = SUBSET D
        /\ h = [T \in SUBSET D |-> h[T]] /\ k = [T \in SUBSET D |-> k[T]]
    OBVIOUS
  <2>5. \A T \in SUBSET D : k[T] = h[T]
    BY <2>3
  <2> HIDE DEF h, k
  <2>6. k = h
    BY <2>4, <2>5
  <2>7. QED
    BY <2>6 DEF h, k
<1>10. QED
  BY <1>9

LEMMA SumsAre ==
  ASSUME NEW f, IsFiniteSet(DOMAIN f)
  PROVE  /\ Sums(f)[{}] = 0
         /\ \A T \in SUBSET DOMAIN f : T # {} =>
              \E x \in T : /\ x = CHOOSE y \in T : TRUE
                           /\ Sums(f)[T] = f[x] + Sums(f)[T \ {x}]
<1> DEFINE Is(g) == g = [T \in SUBSET DOMAIN f |->
                           IF T = {} THEN 0
                           ELSE f[CHOOSE y \in T : TRUE] + g[T \ {CHOOSE y \in T : TRUE}]]
<1>1. \E g : Is(g)
  BY SumsExist
<1>2. Sums(f) = CHOOSE g : Is(g)
  BY DEF Sums
<1>3. Is(Sums(f))
  BY <1>1, <1>2
<1>4. ASSUME NEW T \in SUBSET DOMAIN f, T # {}
      PROVE  \E x \in T : /\ x = CHOOSE y \in T : TRUE
                          /\ Sums(f)[T] = f[x] + Sums(f)[T \ {x}]
  BY <1>3, <1>4
<1>5. Sums(f)[{}] = 0
  BY <1>3
<1>6. QED
  BY <1>4, <1>5

\* What is said of no set, and of a set whenever it is said of it without any
\* one of its elements, is said of every set of a finite domain: the sets it
\* is not said of have no least size.
LEMMA BySize ==
  ASSUME NEW D, IsFiniteSet(D), NEW G, G \subseteq SUBSET D, {} \in G,
         ASSUME NEW T \in SUBSET D, T # {}, \A x \in T : T \ {x} \in G
         PROVE  T \in G
  PROVE  G = SUBSET D
<1> DEFINE Sizes == {n \in Nat : \E T \in SUBSET D : T \notin G /\ Cardinality(T) = n}
<1>1. SUFFICES ASSUME NEW S \in SUBSET D, S \notin G PROVE FALSE
  OBVIOUS
<1>2. Cardinality(S) \in Sizes
  BY <1>1, SizeOf
<1>3. PICK m \in Sizes : \A n \in Sizes : m =< n
  BY <1>2, LeastOfSome
<1>4. PICK T \in SUBSET D : T \notin G /\ Cardinality(T) = m
  BY <1>3
<1>5. T # {}
  BY <1>4
<1>6. ASSUME NEW x \in T PROVE T \ {x} \in G
  <2>1. T \ {x} \in SUBSET D /\ Cardinality(T \ {x}) = m - 1 /\ m \in Nat
    BY <1>3, <1>4, SizeOf
  <2>2. Cardinality(T \ {x}) \in Nat
    BY <2>1, SizeOf
  <2>3. SUFFICES ASSUME T \ {x} \notin G PROVE FALSE
    OBVIOUS
  <2>4. m - 1 \in Sizes
    BY <2>1, <2>2, <2>3
  <2>5. QED
    BY <1>3, <2>1, <2>4
<1>7. T \in G
  BY <1>5, <1>6
<1>8. QED
  BY <1>4, <1>7

LEMMA SumsAreWhole ==
  ASSUME NEW D, IsFiniteSet(D), NEW f \in [D -> Int]
  PROVE  \A T \in SUBSET D : Sums(f)[T] \in Int
<1> DEFINE G == {T \in SUBSET D : Sums(f)[T] \in Int}
<1>1. DOMAIN f = D
  OBVIOUS
<1>2. {} \in G
  BY <1>1, SumsAre
<1>3. ASSUME NEW T \in SUBSET D, T # {}, \A x \in T : T \ {x} \in G
      PROVE  T \in G
  <2>1. PICK x \in T : Sums(f)[T] = f[x] + Sums(f)[T \ {x}]
    BY <1>1, <1>3, SumsAre
  <2>2. f[x] \in Int /\ Sums(f)[T \ {x}] \in Int
    BY <1>3, <2>1
  <2>3. QED
    BY <2>1, <2>2
<1>4. G = SUBSET D
  <2>1. G \subseteq SUBSET D
    OBVIOUS
  <2> HIDE DEF G
  <2>2. QED
    BY <1>2, <1>3, <2>1, BySize
<1>5. QED
  BY <1>4

\* Any element may be taken first.
LEMMA SumsTake ==
  ASSUME NEW D, IsFiniteSet(D), NEW f \in [D -> Int]
  PROVE  \A T \in SUBSET D : \A e \in T : Sums(f)[T] = f[e] + Sums(f)[T \ {e}]
<1> DEFINE G == {T \in SUBSET D : \A e \in T : Sums(f)[T] = f[e] + Sums(f)[T \ {e}]}
<1>1. DOMAIN f = D
  OBVIOUS
<1>2. {} \in G
  OBVIOUS
<1>3. ASSUME NEW T \in SUBSET D, T # {}, \A x \in T : T \ {x} \in G
      PROVE  T \in G
  <2>1. PICK x \in T : Sums(f)[T] = f[x] + Sums(f)[T \ {x}]
    BY <1>1, <1>3, SumsAre
  <2>2. ASSUME NEW e \in T, e # x PROVE Sums(f)[T] = f[e] + Sums(f)[T \ {e}]
    <3> DEFINE R == (T \ {x}) \ {e}
    <3>1. R = (T \ {e}) \ {x} /\ R \in SUBSET D
      OBVIOUS
    <3>2. Sums(f)[T \ {x}] = f[e] + Sums(f)[R]
      BY <1>3, <2>1, <2>2
    <3>3. Sums(f)[T \ {e}] = f[x] + Sums(f)[R]
      BY <1>3, <2>1, <2>2, <3>1
    <3>4. f[e] \in Int /\ f[x] \in Int /\ Sums(f)[R] \in Int
      BY <2>1, <2>2, <3>1, SumsAreWhole
    <3> HIDE DEF R
    <3>5. QED
      BY <2>1, <3>2, <3>3, <3>4
  <2>3. QED
    BY <2>1, <2>2
<1>4. G = SUBSET D
  <2>1. G \subseteq SUBSET D
    OBVIOUS
  <2> HIDE DEF G
  <2>2. QED
    BY <1>2, <1>3, <2>1, BySize
<1>5. QED
  BY <1>4

\* What is no greater anywhere, k times, is no greater in sum.
LEMMA SumsAtMost ==
  ASSUME NEW D, IsFiniteSet(D), NEW f \in [D -> Int], NEW g \in [D -> Int], NEW k \in Nat,
         NEW S \in SUBSET D, \A x \in S : k * f[x] =< g[x]
  PROVE  k * Sums(f)[S] =< Sums(g)[S]
<1> DEFINE G == {T \in SUBSET D : T \subseteq S => k * Sums(f)[T] =< Sums(g)[T]}
<1>1. DOMAIN f = D /\ DOMAIN g = D
  OBVIOUS
<1>2. {} \in G
  <2>1. Sums(f)[{}] = 0 /\ Sums(g)[{}] = 0
    BY <1>1, SumsAre
  <2>2. k * 0 = 0
    OBVIOUS
  <2>3. QED
    BY <2>1, <2>2
<1>3. ASSUME NEW T \in SUBSET D, T # {}, \A x \in T : T \ {x} \in G
      PROVE  T \in G
  <2>1. SUFFICES ASSUME T \subseteq S PROVE k * Sums(f)[T] =< Sums(g)[T]
    OBVIOUS
  <2>2. PICK x \in T : TRUE
    BY <1>3
  <2> DEFINE a == Sums(f)[T \ {x}]
  <2> DEFINE b == Sums(g)[T \ {x}]
  <2>3. Sums(f)[T] = f[x] + a /\ Sums(g)[T] = g[x] + b
    <3>1. Sums(f)[T] = f[x] + Sums(f)[T \ {x}]
      BY <2>2, SumsTake
    <3>2. Sums(g)[T] = g[x] + Sums(g)[T \ {x}]
      BY <2>2, SumsTake
    <3>3. QED
      BY <3>1, <3>2
  <2>4. f[x] \in Int /\ g[x] \in Int /\ a \in Int /\ b \in Int
    BY <2>2, SumsAreWhole
  <2>5. k * f[x] =< g[x] /\ k * a =< b
    BY <1>3, <2>1, <2>2
  <2> HIDE DEF a, b
  <2>6. k * (f[x] + a) = k * f[x] + k * a /\ k * f[x] \in Int /\ k * a \in Int
    BY <2>4
  <2>7. QED
    BY <2>3, <2>4, <2>5, <2>6
<1>4. G = SUBSET D
  <2>1. G \subseteq SUBSET D
    OBVIOUS
  <2> HIDE DEF G
  <2>2. QED
    BY <1>2, <1>3, <2>1, BySize
<1>5. QED
  BY <1>4

\* A sum that changes in one place changes by as much.
LEMMA SumChanges ==
  ASSUME NEW D, IsFiniteSet(D), NEW f \in [D -> Int], NEW g \in [D -> Int], NEW e \in D,
         \A x \in D \ {e} : f[x] = g[x]
  PROVE  Sum(g) = Sum(f) + (g[e] - f[e])
<1> DEFINE R == D \ {e}
<1>1. DOMAIN f = D /\ DOMAIN g = D /\ R \in SUBSET D /\ D \in SUBSET D
  OBVIOUS
<1>2. Sums(f)[D] = f[e] + Sums(f)[R] /\ Sums(g)[D] = g[e] + Sums(g)[R]
  BY <1>1, SumsTake
<1>3. /\ Sums(f)[R] \in Int /\ Sums(g)[R] \in Int /\ f[e] \in Int /\ g[e] \in Int
  BY <1>1, SumsAreWhole
<1> DEFINE one == 1
<1>4. one \in Nat /\ (\A x \in R : one * f[x] =< g[x] /\ one * g[x] =< f[x])
  OBVIOUS
<1>5. one * Sums(f)[R] =< Sums(g)[R] /\ one * Sums(g)[R] =< Sums(f)[R]
  <2> HIDE DEF one, R
  <2>1. QED
    BY <1>1, <1>4, SumsAtMost
<1>6. Sums(f)[R] = Sums(g)[R]
  <2> HIDE DEF R
  <2>1. QED
    BY <1>3, <1>5
<1>7. QED
  <2> HIDE DEF R
  <2>1. QED
    BY <1>1, <1>2, <1>3, <1>6 DEF Sum

\* ------------------------------------------------------------------
\* The pillars of a deal

LEMMA WeightsAre ==
  /\ Weights.icp \in Nat /\ Weights.stage \in Nat /\ Weights.activity \in Nat
  /\ Weights.timeline \in Nat /\ Weights.call \in Nat
  /\ Weights.icp + Weights.stage + Weights.activity + Weights.timeline + Weights.call = 100
<1>1. Weights \in [{"icp", "stage", "activity", "timeline", "call"} -> Nat]
  BY ForecastAssumption
<1>2. QED
  BY <1>1, ForecastAssumption

LEMMA BetweenIs ==
  ASSUME NEW x \in Int, NEW low \in Int, NEW high \in Int, low =< high
  PROVE  /\ Between(x, low, high) \in Int
         /\ low =< Between(x, low, high) /\ Between(x, low, high) =< high
         /\ low =< x => Between(x, low, high) =< x
         /\ (low =< x /\ x =< high) => Between(x, low, high) = x
         /\ \A y \in Int : x =< y => Between(x, low, high) =< Between(y, low, high)
  BY DEF Between

LEMMA ScoreRounds ==
  ASSUME NEW x \in Int
  PROVE  /\ RoundedScore(x) \in Int /\ 300 * RoundedScore(x) =< x + 150
         /\ x =< 300 * RoundedScore(x) + 150
  BY DEF RoundedScore

LEMMA ScoreKeepsOrder ==
  ASSUME NEW x \in Int, NEW y \in Int, x =< y
  PROVE  RoundedScore(x) =< RoundedScore(y)
  BY DEF RoundedScore

\* The fields of a deal.
DealLike(d) ==
    /\ d.icp \in Nat /\ d.locations \in Nat /\ d.acv \in Int /\ d.calls \in Calls
    /\ d.idle \in Int /\ d.due \in Int /\ d.inStage \in Int /\ d.turned \in Int

LEMMA DealFields ==
  ASSUME NEW d \in DealRecords
  PROVE  /\ DealLike(d) /\ d.owner \in Owners
         /\ d.idle # Blank - 1 /\ d.inStage # Blank - 1 /\ d.turned # Blank - 1
         /\ d.due # Blank + 1
         /\ DOMAIN d = {"stage", "icp", "locations", "acv", "ent", "inbound", "idle", "due",
                        "inStage", "turned", "owner", "contacts", "products", "calls"}
<1>1. /\ d.icp \in Nat /\ d.locations \in Nat /\ d.acv \in Int /\ d.owner \in Owners
      /\ d.idle \in Days /\ d.due \in Days /\ d.inStage \in Days /\ d.turned \in Days
      /\ d.calls \in Calls
      /\ DOMAIN d = {"stage", "icp", "locations", "acv", "ent", "inbound", "idle", "due",
                     "inStage", "turned", "owner", "contacts", "products", "calls"}
  BY DEF DealRecords
<1>2. QED
  BY <1>1 DEF Days, DealLike

LEMMA IcpIs ==
  ASSUME NEW d, DealLike(d)
  PROVE  /\ Icp(d) \in Int /\ 0 =< Icp(d) /\ Icp(d) =< 300
         /\ d.icp = Blank => Icp(d) =< 150
<1>1. d.icp \in Nat /\ d.locations \in Nat /\ d.acv \in Int
  BY DEF DealLike
<1>2. CASE d.icp = Blank
  <2> DEFINE p == IcpProxy(d)
  <2>1. p \in Int
    <3>1. Between(d.locations, 0, 50) \in Int /\ (IF d.acv > 150 THEN 150 ELSE d.acv) \in Int
      BY <1>1 DEF Between
    <3> DEFINE a == Between(d.locations, 0, 50)
    <3> DEFINE b == IF d.acv > 150 THEN 150 ELSE d.acv
    <3>2. a \in Int /\ b \in Int
      BY <3>1
    <3> HIDE DEF a, b
    <3>3. (90 * a) \div 50 \in Int /\ (90 * b) \div 150 \in Int
      BY <3>2
    <3>4. (IF d.ent THEN 60 ELSE 0) \in Int /\ (IF d.inbound THEN 60 ELSE 0) \in Int
      OBVIOUS
    <3>5. p = (90 * a) \div 50 + (90 * b) \div 150 + (IF d.ent THEN 60 ELSE 0)
                + (IF d.inbound THEN 60 ELSE 0)
      BY DEF IcpProxy, a, b
    <3> DEFINE s == (90 * a) \div 50
    <3> DEFINE t == (90 * b) \div 150
    <3> DEFINE u == IF d.ent THEN 60 ELSE 0
    <3> DEFINE w == IF d.inbound THEN 60 ELSE 0
    <3>6. s \in Int /\ t \in Int /\ u \in Int /\ w \in Int /\ p = s + t + u + w
      BY <3>3, <3>4, <3>5
    <3> HIDE DEF s, t, u, w, p
    <3>7. QED
      BY <3>6
  <2>2. Icp(d) = Between(p, 0, 150)
    BY <1>2 DEF Icp
  <2> HIDE DEF p
  <2>3. QED
    BY <2>1, <2>2 DEF Between
<1>3. CASE d.icp # Blank
  <2> DEFINE r == 3 * (IF d.icp =< 100 THEN d.icp
                       ELSE IF d.icp =< 1000 THEN d.icp \div 10 ELSE d.icp \div 100)
  <2>1. r \in Int
    BY <1>1
  <2>2. Icp(d) = Between(r, 0, 300)
    BY <1>3 DEF Icp, NormalizeIcp, Full
  <2> HIDE DEF r
  <2>3. QED
    BY <1>3, <2>1, <2>2 DEF Between
<1>4. QED
  BY <1>2, <1>3

LEMMA StageIs ==
  ASSUME NEW d
  PROVE  /\ StagePillar(d) \in Int /\ 0 =< StagePillar(d) /\ StagePillar(d) =< 300
<1>1. CASE d.stage \in DOMAIN StageScores
  <2>1. d.stage \in {"NoShow", "Disqualified", "ClosedLost", "NewMeetingSet", "Demo",
                     "BusinessCase", "Pilot", "Proposal", "ClosedWon"}
    BY <1>1 DEF StageScores
  <2>2. StageScores[d.stage] \in 0 .. 25
    BY <2>1 DEF StageScores
  <2>3. StagePillar(d) = 12 * StageScores[d.stage]
    BY <1>1 DEF StagePillar
  <2>4. QED
    BY <2>2, <2>3
<1>2. CASE d.stage \notin DOMAIN StageScores
  BY <1>2 DEF StagePillar
<1>3. QED
  BY <1>1, <1>2

LEMMA BandIs ==
  ASSUME NEW n \in Int
  PROVE  /\ BandScore(n) \in {0, 2, 5, 10, 15, 20, 25}
         /\ n =< 7 => BandScore(n) = 25
         /\ n > 30 => BandScore(n) =< 5
         /\ n > 60 => BandScore(n) = 0
         /\ BandScore(n + 1) =< BandScore(n)
<1>1. \/ n < 7 \/ n = 7 \/ n \in 8 .. 13 \/ n = 14 \/ n \in 15 .. 20 \/ n = 21
      \/ n \in 22 .. 29 \/ n = 30 \/ n \in 31 .. 44 \/ n = 45 \/ n \in 46 .. 59 \/ n = 60
      \/ n > 60
  OBVIOUS
<1>2. CASE n < 7
  BY <1>2 DEF BandScore
<1>3. CASE n = 7
  BY <1>3 DEF BandScore
<1>4. CASE n \in 8 .. 13
  BY <1>4 DEF BandScore
<1>5. CASE n = 14
  BY <1>5 DEF BandScore
<1>6. CASE n \in 15 .. 20
  BY <1>6 DEF BandScore
<1>7. CASE n = 21
  BY <1>7 DEF BandScore
<1>8. CASE n \in 22 .. 29
  BY <1>8 DEF BandScore
<1>9. CASE n = 30
  BY <1>9 DEF BandScore
<1>10. CASE n \in 31 .. 44
  BY <1>10 DEF BandScore
<1>11. CASE n = 45
  BY <1>11 DEF BandScore
<1>12. CASE n \in 46 .. 59
  BY <1>12 DEF BandScore
<1>13. CASE n = 60
  BY <1>13 DEF BandScore
<1>14. CASE n > 60
  BY <1>14 DEF BandScore
<1>15. QED
  BY <1>1, <1>2, <1>3, <1>4, <1>5, <1>6, <1>7, <1>8, <1>9, <1>10, <1>11, <1>12, <1>13, <1>14

\* What the bonus adds is cut off, and what the penalty takes was not there.
LEMMA ActivityIsTheBand ==
  ASSUME NEW d, DealLike(d)
  PROVE  /\ d.idle = Blank => Activity(d) = 0
         /\ d.idle # Blank => Activity(d) = 12 * BandScore(Idle(d))
         /\ Activity(d) \in Int /\ 0 =< Activity(d) /\ Activity(d) =< 300
<1> DEFINE i == Idle(d)
<1> DEFINE b == BandScore(i)
<1> DEFINE bonus == IF i =< 3 THEN 5 ELSE 0
<1> DEFINE penalty == IF i > 60 /\ Late(d) THEN 10 ELSE 0
<1>1. i \in Int
  BY DEF DealLike, Idle
<1>2. b \in {0, 2, 5, 10, 15, 20, 25} /\ (i =< 7 => b = 25) /\ (i > 60 => b = 0)
  <2> HIDE DEF i
  <2>1. QED
    BY <1>1, BandIs
<1>3. CASE d.idle = Blank
  BY <1>3 DEF Activity
<1>4. CASE d.idle # Blank
  <2>1. Activity(d) = 12 * Between(b + bonus - penalty, 0, 25)
    BY <1>4 DEF Activity
  <2>2. Between(b + bonus - penalty, 0, 25) = b
    <3>1. CASE i =< 3
      <4>1. bonus = 5 /\ penalty = 0 /\ b = 25
        <5> HIDE DEF i, b
        <5>1. QED
          BY <1>1, <1>2, <3>1
      <4> HIDE DEF b, bonus, penalty
      <4>2. QED
        BY <4>1 DEF Between
    <3>2. CASE i > 60
      <4>1. bonus = 0 /\ (penalty = 0 \/ penalty = 10) /\ b = 0
        <5> HIDE DEF i, b
        <5>1. QED
          BY <1>1, <1>2, <3>2
      <4> HIDE DEF b, bonus, penalty
      <4>2. QED
        BY <4>1 DEF Between
    <3>3. CASE ~ (i =< 3) /\ ~ (i > 60)
      <4>1. bonus = 0 /\ penalty = 0
        BY <3>3
      <4> HIDE DEF b, bonus, penalty
      <4>2. QED
        BY <1>2, <4>1 DEF Between
    <3>4. QED
      BY <3>1, <3>2, <3>3
  <2> HIDE DEF b, bonus, penalty
  <2>3. Activity(d) = 12 * b
    BY <2>1, <2>2
  <2>4. 12 * b \in Int /\ 0 =< 12 * b /\ 12 * b =< 300
    BY <1>2
  <2>5. QED
    BY <1>4, <2>3, <2>4 DEF b
<1>5. QED
  BY <1>3, <1>4

LEMMA TimelineIs ==
  ASSUME NEW d, DealLike(d)
  PROVE  /\ Timeline(d) \in Int /\ 0 =< Timeline(d) /\ Timeline(d) =< 300
         /\ Horizon(d) \in Int /\ 60 =< Horizon(d) /\ Horizon(d) =< 300
         /\ d.due = Blank => Timeline(d) = 0
         /\ (d.due # Blank /\ Stalled(d)) => Timeline(d) = Between(Horizon(d) - 90, 0, Full)
         /\ (d.due # Blank /\ ~ Stalled(d)) => Timeline(d) = Horizon(d)
<1> DEFINE h == Horizon(d)
<1>1. d.due \in Int
  BY DEF DealLike
<1>2. h \in Int /\ 60 =< h /\ h =< 300
  <2>1. CASE d.due < 0
    BY <1>1, <2>1 DEF Horizon
  <2>2. CASE ~ (d.due < 0) /\ d.due =< 30
    BY <1>1, <2>2 DEF Horizon
  <2>3. CASE ~ (d.due < 0) /\ ~ (d.due =< 30) /\ d.due =< 90
    BY <1>1, <2>3 DEF Horizon
  <2>4. CASE ~ (d.due < 0) /\ ~ (d.due =< 30) /\ ~ (d.due =< 90)
    BY <1>1, <2>4 DEF Horizon
  <2>5. QED
    BY <2>1, <2>2, <2>3, <2>4
<1>3. CASE d.due = Blank
  BY <1>2, <1>3 DEF Timeline
<1>4. CASE d.due # Blank /\ Stalled(d)
  <2>1. Timeline(d) = Between(h - 90, 0, Full)
    BY <1>4 DEF Timeline
  <2> HIDE DEF h
  <2>2. 0 =< Between(h - 90, 0, Full) /\ Between(h - 90, 0, Full) =< 300
        /\ Between(h - 90, 0, Full) \in Int
    BY <1>2 DEF Between, Full
  <2>3. QED
    BY <1>2, <1>4, <2>1, <2>2 DEF h
<1>5. CASE d.due # Blank /\ ~ Stalled(d)
  <2>1. Timeline(d) = Between(h - 0, 0, Full)
    BY <1>5 DEF Timeline
  <2> HIDE DEF h
  <2>2. Between(h - 0, 0, Full) = h
    BY <1>2 DEF Between, Full
  <2>3. QED
    BY <1>2, <1>5, <2>1, <2>2 DEF h
<1>6. QED
  BY <1>3, <1>4, <1>5

LEMMA KeywordsAre ==
  ASSUME NEW d, DealLike(d)
  PROVE  /\ KeywordScore(d) \in Int /\ 0 =< KeywordScore(d) /\ KeywordScore(d) =< 300
         /\ d.calls.n = 0 => KeywordScore(d) = 0
<1>1. CASE d.calls.n = 0
  BY <1>1 DEF KeywordScore
<1>2. CASE d.calls.n # 0
  <2> DEFINE s == 20 * d.calls.hits + (IF d.calls.buyers >= 2 THEN 90 ELSE 0)
                   + (IF d.calls.items > 0 THEN 60 ELSE 0) - (IF d.calls.bad > 0 THEN 90 ELSE 0)
  <2>1. s \in Int
    <3>1. d.calls.hits \in Nat
      BY DEF DealLike, Calls
    <3> DEFINE t == 20 * d.calls.hits
    <3> DEFINE u == IF d.calls.buyers >= 2 THEN 90 ELSE 0
    <3> DEFINE w == IF d.calls.items > 0 THEN 60 ELSE 0
    <3> DEFINE x == IF d.calls.bad > 0 THEN 90 ELSE 0
    <3>2. t \in Int /\ u \in Int /\ w \in Int /\ x \in Int /\ s = t + u + w - x
      BY <3>1
    <3> HIDE DEF t, u, w, x, s
    <3>3. QED
      BY <3>2
  <2>2. KeywordScore(d) = Between(s, 0, Full)
    BY <1>2 DEF KeywordScore
  <2> HIDE DEF s
  <2>3. QED
    BY <1>2, <2>1, <2>2 DEF Between, Full
<1>3. QED
  BY <1>1, <1>2

\* The classifier has a say in the middle only.
LEMMA CallsAre ==
  ASSUME NEW d, DealLike(d), NEW v, v = Blank \/ v \in 0 .. 300
  PROVE  /\ CallSignal(d, v) \in Int /\ 0 =< CallSignal(d, v) /\ CallSignal(d, v) =< 300
         /\ d.calls.n = 0 => CallSignal(d, v) = 0
         /\ CallSignal(d, v) # KeywordScore(d) => CallSignal(d, v) \in 60 .. 240
<1> DEFINE k == KeywordScore(d)
<1>1. k \in Int /\ 0 =< k /\ k =< 300 /\ (d.calls.n = 0 => k = 0)
  BY KeywordsAre
<1>2. CASE v # Blank /\ Ambiguous(k)
  <2>1. CallSignal(d, v) = (k + v) \div 2 /\ k \in 120 .. 180
    BY <1>2 DEF CallSignal, Ambiguous
  <2>2. v \in 0 .. 300
    BY <1>2
  <2> HIDE DEF k
  <2>3. (k + v) \div 2 \in 60 .. 240
    BY <2>1, <2>2
  <2>4. k # 0
    BY <2>1
  <2>5. QED
    BY <1>1, <2>1, <2>3, <2>4
<1>3. CASE ~ (v # Blank /\ Ambiguous(k))
  <2>1. CallSignal(d, v) = k
    BY <1>3 DEF CallSignal
  <2>2. QED
    BY <1>1, <2>1
<1>4. QED
  BY <1>2, <1>3

\* The score is the weighted sum of the pillars, rounded.
WeightedSum(d, v) ==
    Weights.icp * Icp(d) + Weights.stage * StagePillar(d) + Weights.activity * Activity(d)
    + Weights.timeline * Timeline(d) + Weights.call * CallSignal(d, v)

LEMMA WeightKeepsOrder ==
  ASSUME NEW w \in Nat, NEW a \in Int, NEW b \in Int, a =< b
  PROVE  w * a =< w * b /\ w * a \in Int /\ w * b \in Int
  OBVIOUS

LEMMA ScoreIs ==
  ASSUME NEW d, DealLike(d), NEW v, v = Blank \/ v \in 0 .. 300
  PROVE  /\ WeightedSum(d, v) \in Int
         /\ Score(d, v) = RoundedScore(Between(WeightedSum(d, v), 0, 30000))
         /\ Score(d, v) \in Int
<1>1. /\ Icp(d) \in Int /\ StagePillar(d) \in Int /\ Activity(d) \in Int
      /\ Timeline(d) \in Int /\ CallSignal(d, v) \in Int
  BY IcpIs, StageIs, ActivityIsTheBand, TimelineIs, CallsAre
<1>2. /\ Weights.icp * Icp(d) \in Int /\ Weights.stage * StagePillar(d) \in Int
      /\ Weights.activity * Activity(d) \in Int /\ Weights.timeline * Timeline(d) \in Int
      /\ Weights.call * CallSignal(d, v) \in Int
  BY <1>1, WeightsAre
<1>3. WeightedSum(d, v) \in Int
  BY <1>2 DEF WeightedSum
<1>4. Score(d, v) = RoundedScore(Between(WeightedSum(d, v), 0, 30000))
  BY DEF Score, WeightedSum
<1> DEFINE b == Between(WeightedSum(d, v), 0, 30000)
<1>5. b \in Int
  <2> DEFINE s == WeightedSum(d, v)
  <2>1. s \in Int
    BY <1>3
  <2> HIDE DEF s
  <2>2. Between(s, 0, 30000) \in Int
    BY <2>1 DEF Between
  <2>3. QED
    BY <2>2 DEF s
<1> HIDE DEF b
<1>6. RoundedScore(b) \in Int
  BY <1>5, ScoreRounds
<1>7. QED
  BY <1>3, <1>4, <1>6 DEF b

\* Where every pillar is no greater, the score is no greater.
LEMMA LessIsNoBetter ==
  ASSUME NEW d, NEW e, DealLike(d), DealLike(e), NEW v, v = Blank \/ v \in 0 .. 300,
         Icp(e) =< Icp(d), StagePillar(e) =< StagePillar(d), Activity(e) =< Activity(d),
         Timeline(e) =< Timeline(d), CallSignal(e, v) =< CallSignal(d, v)
  PROVE  Score(e, v) =< Score(d, v)
<1>1. /\ Icp(d) \in Int /\ StagePillar(d) \in Int /\ Activity(d) \in Int
      /\ Timeline(d) \in Int /\ CallSignal(d, v) \in Int
  BY IcpIs, StageIs, ActivityIsTheBand, TimelineIs, CallsAre
<1>2. /\ Icp(e) \in Int /\ StagePillar(e) \in Int /\ Activity(e) \in Int
      /\ Timeline(e) \in Int /\ CallSignal(e, v) \in Int
  BY IcpIs, StageIs, ActivityIsTheBand, TimelineIs, CallsAre
<1> DEFINE a1 == Weights.icp * Icp(e)
<1> DEFINE a2 == Weights.icp * Icp(d)
<1> DEFINE b1 == Weights.stage * StagePillar(e)
<1> DEFINE b2 == Weights.stage * StagePillar(d)
<1> DEFINE c1 == Weights.activity * Activity(e)
<1> DEFINE c2 == Weights.activity * Activity(d)
<1> DEFINE t1 == Weights.timeline * Timeline(e)
<1> DEFINE t2 == Weights.timeline * Timeline(d)
<1> DEFINE k1 == Weights.call * CallSignal(e, v)
<1> DEFINE k2 == Weights.call * CallSignal(d, v)
<1>3. a1 =< a2 /\ a1 \in Int /\ a2 \in Int
  BY <1>1, <1>2, WeightsAre, WeightKeepsOrder
<1>4. b1 =< b2 /\ b1 \in Int /\ b2 \in Int
  BY <1>1, <1>2, WeightsAre, WeightKeepsOrder
<1>5. c1 =< c2 /\ c1 \in Int /\ c2 \in Int
  BY <1>1, <1>2, WeightsAre, WeightKeepsOrder
<1>6. t1 =< t2 /\ t1 \in Int /\ t2 \in Int
  BY <1>1, <1>2, WeightsAre, WeightKeepsOrder
<1>7. k1 =< k2 /\ k1 \in Int /\ k2 \in Int
  BY <1>1, <1>2, WeightsAre, WeightKeepsOrder
<1> DEFINE s == WeightedSum(e, v)
<1> DEFINE t == WeightedSum(d, v)
<1>8. s = a1 + b1 + c1 + t1 + k1 /\ t = a2 + b2 + c2 + t2 + k2
  BY DEF WeightedSum
<1>9. /\ Score(e, v) = RoundedScore(Between(s, 0, 30000))
      /\ Score(d, v) = RoundedScore(Between(t, 0, 30000))
  BY ScoreIs
<1> HIDE DEF a1, a2, b1, b2, c1, c2, t1, t2, k1, k2, s, t
<1>10. s \in Int /\ t \in Int /\ s =< t
  BY <1>3, <1>4, <1>5, <1>6, <1>7, <1>8
<1> DEFINE x == Between(s, 0, 30000)
<1> DEFINE y == Between(t, 0, 30000)
<1>11. x \in Int /\ y \in Int /\ x =< y
  BY <1>10 DEF Between
<1> HIDE DEF x, y
<1>12. RoundedScore(x) =< RoundedScore(y)
  BY <1>11, ScoreKeepsOrder
<1>13. QED
  BY <1>9, <1>12 DEF x, y

\* Where only the calls are worth more, the score gains no more than their share.
LEMMA CallsLiftLittle ==
  ASSUME NEW d, NEW e, DealLike(d), DealLike(e), NEW v, v = Blank \/ v \in 0 .. 300,
         Icp(e) =< Icp(d), StagePillar(e) =< StagePillar(d), Activity(e) =< Activity(d),
         Timeline(e) =< Timeline(d), CallSignal(e, v) =< CallSignal(d, v) + 90
  PROVE  Score(e, v) =< Score(d, v) + ((90 * Weights.call) \div 300 + 1)
<1>1. /\ Icp(d) \in Int /\ StagePillar(d) \in Int /\ Activity(d) \in Int
      /\ Timeline(d) \in Int /\ CallSignal(d, v) \in Int
  BY IcpIs, StageIs, ActivityIsTheBand, TimelineIs, CallsAre
<1>2. /\ Icp(e) \in Int /\ StagePillar(e) \in Int /\ Activity(e) \in Int
      /\ Timeline(e) \in Int /\ CallSignal(e, v) \in Int
  BY IcpIs, StageIs, ActivityIsTheBand, TimelineIs, CallsAre
<1> DEFINE a1 == Weights.icp * Icp(e)
<1> DEFINE a2 == Weights.icp * Icp(d)
<1> DEFINE b1 == Weights.stage * StagePillar(e)
<1> DEFINE b2 == Weights.stage * StagePillar(d)
<1> DEFINE c1 == Weights.activity * Activity(e)
<1> DEFINE c2 == Weights.activity * Activity(d)
<1> DEFINE t1 == Weights.timeline * Timeline(e)
<1> DEFINE t2 == Weights.timeline * Timeline(d)
<1> DEFINE k1 == Weights.call * CallSignal(e, v)
<1> DEFINE k2 == Weights.call * CallSignal(d, v)
<1> DEFINE w == Weights.call
<1>3. a1 =< a2 /\ a1 \in Int /\ a2 \in Int
  BY <1>1, <1>2, WeightsAre, WeightKeepsOrder
<1>4. b1 =< b2 /\ b1 \in Int /\ b2 \in Int
  BY <1>1, <1>2, WeightsAre, WeightKeepsOrder
<1>5. c1 =< c2 /\ c1 \in Int /\ c2 \in Int
  BY <1>1, <1>2, WeightsAre, WeightKeepsOrder
<1>6. t1 =< t2 /\ t1 \in Int /\ t2 \in Int
  BY <1>1, <1>2, WeightsAre, WeightKeepsOrder
<1>7. k1 =< k2 + 90 * w /\ k1 \in Int /\ k2 \in Int /\ w \in Nat
  <2> DEFINE x == CallSignal(e, v)
  <2> DEFINE y == CallSignal(d, v)
  <2>1. w \in Nat /\ x \in Int /\ y \in Int /\ y + 90 \in Int /\ x =< y + 90
    BY <1>1, <1>2, WeightsAre
  <2> HIDE DEF w, x, y
  <2>2. w * x =< w * (y + 90) /\ w * x \in Int /\ w * y \in Int
    BY <2>1, WeightKeepsOrder
  <2>3. w * (y + 90) = w * y + 90 * w
    BY <2>1
  <2>4. w * x =< w * y + 90 * w
    BY <2>2, <2>3
  <2>5. QED
    BY <2>1, <2>2, <2>4 DEF w, x, y
<1> DEFINE s == WeightedSum(e, v)
<1> DEFINE t == WeightedSum(d, v)
<1>8. s = a1 + b1 + c1 + t1 + k1 /\ t = a2 + b2 + c2 + t2 + k2
  BY DEF WeightedSum
<1>9. /\ Score(e, v) = RoundedScore(Between(s, 0, 30000))
      /\ Score(d, v) = RoundedScore(Between(t, 0, 30000))
  BY ScoreIs
<1> HIDE DEF a1, a2, b1, b2, c1, c2, t1, t2, k1, k2, s, t, w
<1>10. s \in Int /\ t \in Int /\ s =< t + 90 * w
  BY <1>3, <1>4, <1>5, <1>6, <1>7, <1>8
<1> DEFINE x == Between(s, 0, 30000)
<1> DEFINE y == Between(t, 0, 30000)
<1>11. x \in Int /\ y \in Int /\ x =< y + 90 * w
  BY <1>7, <1>10 DEF Between
<1> HIDE DEF x, y
<1> DEFINE p == RoundedScore(x)
<1> DEFINE q == RoundedScore(y)
<1>12. p \in Int /\ q \in Int /\ 300 * p =< x + 150 /\ y =< 300 * q + 150
  BY <1>11, ScoreRounds
<1> HIDE DEF p, q
<1>13. 300 * p =< 300 * q + 90 * w + 300
  BY <1>7, <1>11, <1>12
<1>14. p =< q + ((90 * w) \div 300 + 1)
  BY <1>7, <1>12, <1>13
<1>15. QED
  BY <1>9, <1>14 DEF x, y, p, q, w

\* What is left of the calls is no more than they were.
LEMMA LeftAreFewer ==
  ASSUME NEW calls \in Calls, NEW left \in CallsLeft(calls)
  PROVE  /\ left \in Calls /\ left.n =< calls.n /\ left.hits =< calls.hits
         /\ left.buyers =< calls.buyers /\ left.items =< calls.items /\ left.bad =< calls.bad
  BY DEF Calls, CallsLeft

\* Fewer calls are worth no more, but for the penalty that leaves with them.
LEMMA FewerCallsScoreLess ==
  ASSUME NEW d, NEW e, DealLike(d), DealLike(e), e.calls \in CallsLeft(d.calls)
  PROVE  /\ KeywordScore(e) =< KeywordScore(d) + 90
         /\ ~ (d.calls.bad > 0 /\ e.calls.bad = 0) => KeywordScore(e) =< KeywordScore(d)
<1> DEFINE c == d.calls
<1> DEFINE l == e.calls
<1>1. c \in Calls /\ l \in Calls /\ l \in CallsLeft(c)
  BY DEF DealLike
<1>2. /\ c.n \in Nat /\ c.hits \in Nat /\ c.buyers \in Nat /\ c.items \in Nat /\ c.bad \in Nat
      /\ l.n \in Nat /\ l.hits \in Nat /\ l.buyers \in Nat /\ l.items \in Nat /\ l.bad \in Nat
  BY <1>1 DEF Calls
<1>3. /\ l.n =< c.n /\ l.hits =< c.hits /\ l.buyers =< c.buyers
      /\ l.items =< c.items /\ l.bad =< c.bad
  BY <1>1, LeftAreFewer
<1>4. /\ KeywordScore(d) \in Int /\ 0 =< KeywordScore(d)
      /\ l.n = 0 => KeywordScore(e) = 0
  BY KeywordsAre
<1> DEFINE u(x) == IF x.buyers >= 2 THEN 90 ELSE 0
<1> DEFINE w(x) == IF x.items > 0 THEN 60 ELSE 0
<1> DEFINE z(x) == IF x.bad > 0 THEN 90 ELSE 0
<1> DEFINE a == 20 * c.hits + u(c) + w(c) - z(c)
<1> DEFINE b == 20 * l.hits + u(l) + w(l) - z(l)
<1>5. /\ c.n # 0 => KeywordScore(d) = Between(a, 0, Full)
      /\ l.n # 0 => KeywordScore(e) = Between(b, 0, Full)
  BY DEF KeywordScore
<1>6. /\ a \in Int /\ b \in Int /\ b =< a + 90
      /\ ~ (c.bad > 0 /\ l.bad = 0) => b =< a
  <2>1. u(l) =< u(c) /\ w(l) =< w(c) /\ z(c) =< z(l) + 90
    BY <1>2, <1>3
  <2>2. ~ (c.bad > 0 /\ l.bad = 0) => z(c) =< z(l)
    BY <1>2
  <2>3. /\ u(l) \in Int /\ u(c) \in Int /\ w(l) \in Int /\ w(c) \in Int
        /\ z(l) \in Int /\ z(c) \in Int
    OBVIOUS
  <2> HIDE DEF c, l, u, w, z
  <2>4. QED
    BY <1>2, <1>3, <2>1, <2>2, <2>3
<1> HIDE DEF a, b
<1>7. CASE l.n = 0
  BY <1>4, <1>7
<1>8. CASE l.n # 0
  <2>1. c.n # 0
    BY <1>2, <1>3, <1>8
  <2>2. KeywordScore(d) = Between(a, 0, Full) /\ KeywordScore(e) = Between(b, 0, Full)
    BY <1>5, <1>8, <2>1
  <2>3. /\ Between(b, 0, Full) =< Between(a, 0, Full) + 90
        /\ b =< a => Between(b, 0, Full) =< Between(a, 0, Full)
    BY <1>6 DEF Between, Full
  <2>4. QED
    BY <1>6, <2>2, <2>3
<1>9. QED
  BY <1>7, <1>8

\* A day later, in what the score reads.
LEMMA DayLaterIs ==
  ASSUME NEW d \in DealRecords, NEW left \in Calls
  PROVE  LET e == DayLater(d, left) IN
         /\ DealLike(e) /\ e.stage = d.stage /\ e.icp = d.icp /\ e.locations = d.locations
         /\ e.acv = d.acv /\ e.ent = d.ent /\ e.inbound = d.inbound /\ e.calls = left
         /\ e.idle = (IF d.idle = Blank THEN Blank ELSE d.idle + 1)
         /\ e.inStage = (IF d.inStage = Blank THEN Blank ELSE d.inStage + 1)
         /\ e.due = (IF d.due = Blank THEN Blank ELSE d.due - 1)
<1> DEFINE older(x) == IF x = Blank THEN Blank ELSE x + 1
<1> DEFINE e == [d EXCEPT !.idle = older(d.idle), !.inStage = older(d.inStage),
                          !.turned = older(d.turned), !.calls = left,
                          !.due = IF d.due = Blank THEN Blank ELSE d.due - 1]
<1>1. DayLater(d, left) = e
  BY DEF DayLater
<1>2. /\ DealLike(d)
      /\ DOMAIN d = {"stage", "icp", "locations", "acv", "ent", "inbound", "idle", "due",
                     "inStage", "turned", "owner", "contacts", "products", "calls"}
  BY DealFields
<1> HIDE DEF older
<1>3. /\ e.stage = d.stage /\ e.icp = d.icp /\ e.locations = d.locations
      /\ e.acv = d.acv /\ e.ent = d.ent /\ e.inbound = d.inbound /\ e.calls = left
  BY <1>2
<1>4. /\ e.idle = older(d.idle) /\ e.inStage = older(d.inStage) /\ e.turned = older(d.turned)
      /\ e.due = IF d.due = Blank THEN Blank ELSE d.due - 1
  BY <1>2
<1> HIDE DEF e
<1>5. DealLike(e)
  BY <1>2, <1>3, <1>4 DEF DealLike, older, Blank
<1>6. QED
  BY <1>1, <1>3, <1>4, <1>5 DEF older

\* Silence raises no score.
LEMMA QuietDays ==
  ASSUME NEW d \in DealRecords, NEW v, v = Blank \/ v \in 0 .. 300, d.due \notin 31 .. 91,
         NEW left \in CallsLeft(d.calls), left = d.calls \/ v = Blank
  PROVE  Score(DayLater(d, left), v)
           =< Score(d, v) + (IF d.calls.bad > 0 /\ left.bad = 0
                             THEN (90 * Weights.call) \div 300 + 1 ELSE 0)
<1> DEFINE e == DayLater(d, left)
<1>0. left \in Calls
  BY DealFields, LeftAreFewer DEF DealLike
<1>1. /\ DealLike(e) /\ e.stage = d.stage /\ e.icp = d.icp /\ e.locations = d.locations
      /\ e.acv = d.acv /\ e.ent = d.ent /\ e.inbound = d.inbound /\ e.calls = left
      /\ e.idle = (IF d.idle = Blank THEN Blank ELSE d.idle + 1)
      /\ e.inStage = (IF d.inStage = Blank THEN Blank ELSE d.inStage + 1)
      /\ e.due = (IF d.due = Blank THEN Blank ELSE d.due - 1)
  BY <1>0, DayLaterIs
<1>2. /\ DealLike(d)
      /\ d.idle # Blank - 1 /\ d.inStage # Blank - 1 /\ d.due # Blank + 1
      /\ d.idle \in Int /\ d.inStage \in Int /\ d.due \in Int
  BY DealFields DEF DealLike
<1> HIDE DEF e
<1>3. Icp(e) = Icp(d) /\ Icp(d) \in Int
  BY <1>1, <1>2, IcpIs DEF Icp, IcpProxy
<1>4. StagePillar(e) = StagePillar(d) /\ StagePillar(d) \in Int
  BY <1>1, StageIs DEF StagePillar
<1>5. /\ CallSignal(e, v) \in Int /\ CallSignal(d, v) \in Int
      /\ CallSignal(e, v) =< CallSignal(d, v) + 90
      /\ ~ (d.calls.bad > 0 /\ left.bad = 0) => CallSignal(e, v) =< CallSignal(d, v)
  <2>1. CallSignal(e, v) \in Int /\ CallSignal(d, v) \in Int
    BY <1>1, <1>2, CallsAre
  <2>2. CASE left = d.calls
    <3>1. KeywordScore(e) = KeywordScore(d)
      BY <1>1, <2>2 DEF KeywordScore
    <3>2. CallSignal(e, v) = CallSignal(d, v)
      BY <3>1 DEF CallSignal
    <3>3. QED
      BY <2>1, <3>2
  <2>3. CASE v = Blank
    <3>1. CallSignal(e, v) = KeywordScore(e) /\ CallSignal(d, v) = KeywordScore(d)
      BY <2>3 DEF CallSignal
    <3>2. /\ KeywordScore(e) =< KeywordScore(d) + 90
          /\ ~ (d.calls.bad > 0 /\ left.bad = 0) => KeywordScore(e) =< KeywordScore(d)
      BY <1>1, <1>2, FewerCallsScoreLess
    <3>3. QED
      BY <2>1, <3>1, <3>2
  <2>4. QED
    BY <2>2, <2>3
<1>6. Activity(e) =< Activity(d)
  <2>1. CASE d.idle = Blank
    BY <1>1, <1>2, <2>1, ActivityIsTheBand
  <2>2. CASE d.idle # Blank
    <3> DEFINE i == Idle(d)
    <3> DEFINE j == Idle(e)
    <3>1. e.idle = d.idle + 1 /\ e.idle # Blank
      BY <1>1, <1>2, <2>2 DEF Blank
    <3>2. i \in Int /\ j \in Int /\ (j = i \/ j = i + 1)
      BY <1>2, <3>1 DEF Idle
    <3>3. Activity(d) = 12 * BandScore(i) /\ Activity(e) = 12 * BandScore(j)
      BY <1>1, <1>2, <2>2, <3>1, ActivityIsTheBand
    <3> HIDE DEF i, j
    <3>4. BandScore(j) =< BandScore(i) /\ BandScore(i) \in Int /\ BandScore(j) \in Int
      <4>1. BandScore(i) \in {0, 2, 5, 10, 15, 20, 25} /\ BandScore(i + 1) =< BandScore(i)
        BY <3>2, BandIs
      <4>2. BandScore(j) \in {0, 2, 5, 10, 15, 20, 25}
        BY <3>2, BandIs
      <4>3. QED
        BY <3>2, <4>1, <4>2
    <3>5. QED
      BY <3>3, <3>4
  <2>3. QED
    BY <2>1, <2>2
<1>7. Timeline(e) =< Timeline(d)
  <2>1. CASE d.due = Blank
    BY <1>1, <1>2, <2>1, TimelineIs
  <2>2. CASE d.due # Blank
    <3>1. e.due = d.due - 1 /\ e.due # Blank
      BY <1>1, <1>2, <2>2 DEF Blank
    <3>2. Stalled(d) => Stalled(e)
      BY <1>1, <1>2 DEF Stalled, Late, Blank
    <3> DEFINE h == Horizon(d)
    <3> DEFINE k == Horizon(e)
    <3>3. k =< h
      <4>1. NearValid(e) <=> NearValid(d)
        BY <1>1 DEF NearValid
      <4>2. CASE d.due =< 0
        BY <1>2, <3>1, <4>1, <4>2 DEF Horizon
      <4>3. CASE d.due \in 1 .. 30
        <5>1. h = (IF NearValid(d) THEN 300 ELSE 180)
          BY <1>2, <4>3 DEF Horizon
        <5>2. k = (IF NearValid(e) THEN 300 ELSE 180)
          BY <1>2, <3>1, <4>3 DEF Horizon
        <5>3. QED
          BY <4>1, <5>1, <5>2
      <4>4. CASE d.due > 91
        BY <1>2, <3>1, <4>4 DEF Horizon
      <4>5. QED
        BY <1>2, <4>2, <4>3, <4>4
    <3>4. /\ h \in Int /\ 60 =< h /\ h =< 300 /\ k \in Int /\ 60 =< k /\ k =< 300
          /\ Stalled(d) => Timeline(d) = Between(h - 90, 0, Full)
          /\ ~ Stalled(d) => Timeline(d) = h
          /\ Stalled(e) => Timeline(e) = Between(k - 90, 0, Full)
          /\ ~ Stalled(e) => Timeline(e) = k
      BY <1>1, <1>2, <2>2, <3>1, TimelineIs
    <3> HIDE DEF h, k
    <3>5. QED
      BY <3>2, <3>3, <3>4 DEF Between, Full
  <2>3. QED
    BY <2>1, <2>2
<1>8. Score(e, v) \in Int /\ Score(d, v) \in Int
  BY <1>1, <1>2, ScoreIs
<1>9. CASE ~ (d.calls.bad > 0 /\ left.bad = 0)
  <2>1. Score(e, v) =< Score(d, v)
    BY <1>1, <1>2, <1>3, <1>4, <1>5, <1>6, <1>7, <1>9, LessIsNoBetter
  <2>2. QED
    BY <1>8, <1>9, <2>1 DEF e
<1>10. CASE d.calls.bad > 0 /\ left.bad = 0
  <2>1. Score(e, v) =< Score(d, v) + ((90 * Weights.call) \div 300 + 1)
    BY <1>1, <1>2, <1>3, <1>4, <1>5, <1>6, <1>7, CallsLiftLittle
  <2>2. QED
    BY <1>10, <2>1 DEF e
<1>11. QED
  BY <1>9, <1>10

\* Without a score of Salesforce's and without a call no deal reaches eighty.
LEMMA NoSignalNoCommit ==
  ASSUME NEW d \in DealRecords, NEW v, v = Blank \/ v \in 0 .. 300,
         Weights.icp + 2 * Weights.call > 41, d.icp = Blank, d.calls.n = 0
  PROVE  ~ (Score(d, v) >= 80)
<1>1. DealLike(d)
  BY DealFields
<1>2. /\ Icp(d) \in Int /\ Icp(d) =< 150 /\ StagePillar(d) \in Int /\ StagePillar(d) =< 300
      /\ Activity(d) \in Int /\ Activity(d) =< 300 /\ Timeline(d) \in Int /\ Timeline(d) =< 300
      /\ CallSignal(d, v) = 0
  BY <1>1, IcpIs, StageIs, ActivityIsTheBand, TimelineIs, CallsAre
<1> DEFINE wi == Weights.icp
<1> DEFINE ws == Weights.stage
<1> DEFINE wa == Weights.activity
<1> DEFINE wt == Weights.timeline
<1> DEFINE wc == Weights.call
<1>3. /\ wi \in Nat /\ ws \in Nat /\ wa \in Nat /\ wt \in Nat /\ wc \in Nat
      /\ wi + ws + wa + wt + wc = 100 /\ wi + 2 * wc > 41
  BY WeightsAre
<1> DEFINE a == wi * Icp(d)
<1> DEFINE b == ws * StagePillar(d)
<1> DEFINE c == wa * Activity(d)
<1> DEFINE t == wt * Timeline(d)
<1>4. WeightedSum(d, v) = a + b + c + t + wc * 0
  BY <1>2 DEF WeightedSum
<1> DEFINE s == WeightedSum(d, v)
<1> HIDE DEF wi, ws, wa, wt, wc
<1>5. a \in Int /\ a =< wi * 150
  BY <1>2, <1>3, WeightKeepsOrder
<1>6. b \in Int /\ b =< ws * 300
  BY <1>2, <1>3, WeightKeepsOrder
<1>7. c \in Int /\ c =< wa * 300
  BY <1>2, <1>3, WeightKeepsOrder
<1>8. t \in Int /\ t =< wt * 300
  BY <1>2, <1>3, WeightKeepsOrder
<1>9. Score(d, v) = RoundedScore(Between(s, 0, 30000))
  BY <1>1, ScoreIs
<1> HIDE DEF a, b, c, t, s
<1>10. s \in Int /\ s < 23850
  <2>1. wc * 0 = 0
    BY <1>3
  <2>2. s = a + b + c + t
    BY <1>4, <1>5, <1>6, <1>7, <1>8, <2>1 DEF s
  <2>3. s =< wi * 150 + ws * 300 + wa * 300 + wt * 300
    BY <1>3, <1>5, <1>6, <1>7, <1>8, <2>2
  <2>4. wi * 150 + ws * 300 + wa * 300 + wt * 300 < 23850
    BY <1>3
  <2>5. QED
    BY <1>3, <1>5, <1>6, <1>7, <1>8, <2>2, <2>3, <2>4
<1> DEFINE x == Between(s, 0, 30000)
<1>11. x \in Int /\ 0 =< x /\ x < 23850
  BY <1>10 DEF Between
<1> HIDE DEF x
<1>12. RoundedScore(x) < 80
  BY <1>11 DEF RoundedScore
<1>13. RoundedScore(x) \in Int
  BY <1>11, ScoreRounds
<1>14. QED
  BY <1>9, <1>12, <1>13 DEF x

\* ------------------------------------------------------------------
\* The forecast

Buckets == [commit : Int, best : Int, weighted : Int, count : Nat]

ForecastTypes ==
    /\ deal = NoDeal \/ deal \in Offered
    /\ verdict \in Verdicts \union {Blank}
    /\ rollup \in [Owners -> Buckets] /\ totals \in Buckets
    /\ quotaReport.risky \subseteq DOMAIN Quotas

\* A deal that is being scored is not yet counted, and comes before the report.
Counted ==
    /\ \A o \in Owners : rollup[o].count =< totals.count
    /\ totals.count =< MaxDeals
    /\ deal # NoDeal => totals.count < MaxDeals /\ ~ quotaReport.made
    /\ quotaReport.team => quotaReport.made

ForecastIInv == ForecastTypes /\ Counted /\ TotalsAreTheOwners /\ TeamRiskHasAnOwner

\* What is offered is a deal of an owner.
LEMMA OfferedAre ==
  ASSUME NEW d \in Offered
  PROVE  d \in DealRecords /\ d.owner \in Owners /\ d # NoDeal /\ d.acv \in Int
<1>1. d \in DealRecords
  BY ForecastAssumption
<1>2. d.owner \in Owners /\ d.acv \in Int
  BY <1>1, DealFields DEF DealLike
<1>3. NoDeal.owner = "none" /\ "none" \notin Owners
  BY ForecastAssumption DEF NoDeal
<1>4. QED
  BY <1>1, <1>2, <1>3

LEMMA OwnersAreFinite == IsFiniteSet(Owners)
  BY ForecastAssumption

\* What a bucket is after a deal.
LEMMA BucketGrows ==
  ASSUME NEW b \in Buckets, NEW acv \in Int, NEW score \in Int
  PROVE  LET c == Accumulated(b, acv, score)
             more == IF score >= 80 THEN acv ELSE 0
         IN /\ c \in Buckets /\ c.commit = b.commit + more
            /\ c.weighted = b.weighted + acv * Probability(score)
            /\ acv * Probability(score) \in Int /\ more \in Int
            /\ c.count = b.count + 1
<1> DEFINE c == Accumulated(b, acv, score)
<1> DEFINE more == IF score >= 80 THEN acv ELSE 0
<1> DEFINE some == IF score >= 50 THEN acv ELSE 0
<1> DEFINE worth == acv * Probability(score)
<1>1. /\ b.commit \in Int /\ b.best \in Int /\ b.weighted \in Int /\ b.count \in Nat
  BY DEF Buckets
<1>2. Probability(score) \in {3, 10, 22, 50, 80}
  <2>1. CASE score >= 80
    BY <2>1 DEF Probability
  <2>2. CASE score \in 60 .. 79
    BY <2>2 DEF Probability
  <2>3. CASE score \in 40 .. 59
    BY <2>3 DEF Probability
  <2>4. CASE score \in 20 .. 39
    BY <2>4 DEF Probability
  <2>5. CASE score < 20
    BY <2>5 DEF Probability
  <2>6. QED
    BY <2>1, <2>2, <2>3, <2>4, <2>5
<1>3. worth \in Int
  BY <1>2
<1>4. more \in Int /\ some \in Int
  OBVIOUS
<1>5. c = [commit |-> b.commit + more, best |-> b.best + some,
           weighted |-> b.weighted + worth, count |-> b.count + 1]
  BY DEF Accumulated
<1> HIDE DEF c, more, some, worth
<1>6. /\ c.commit = b.commit + more /\ c.best = b.best + some
      /\ c.weighted = b.weighted + worth /\ c.count = b.count + 1
  BY <1>5
<1>7. c \in Buckets
  BY <1>1, <1>3, <1>4, <1>5 DEF Buckets
<1>9. QED
  BY <1>3, <1>4, <1>6, <1>7 DEF c, more, worth

\* Nothing was rolled up yet.
LEMMA ForecastInitIInv == ForecastInit => ForecastIInv
<1> SUFFICES ASSUME ForecastInit PROVE ForecastIInv
  OBVIOUS
<1>1. ForecastTypes
  <2>1. EmptyBucket \in Buckets
    BY DEF EmptyBucket, Buckets
  <2>2. NoReport.risky = {}
    BY DEF NoReport
  <2>3. QED
    BY <2>1, <2>2 DEF ForecastInit, ForecastTypes
<1>2. Counted
  BY ForecastAssumption DEF ForecastInit, Counted, EmptyBucket, NoReport
<1>3. TotalsAreTheOwners
  <2>1. ASSUME NEW f \in [Owners -> Int], \A o \in Owners : f[o] = 0 PROVE Sum(f) = 0
    <3>1. DOMAIN f = Owners /\ Owners \in SUBSET Owners
      OBVIOUS
    <3>2. Sums(f)[Owners] \in Int
      BY <2>1, <3>1, OwnersAreFinite, SumsAreWhole
    <3>3. \A k \in Nat : k * Sums(f)[Owners] =< Sums(f)[Owners]
      <4>1. ASSUME NEW k \in Nat PROVE k * Sums(f)[Owners] =< Sums(f)[Owners]
        <5>1. \A o \in Owners : k * f[o] =< f[o]
          BY <2>1
        <5>2. QED
          BY <2>1, <3>1, <5>1, OwnersAreFinite, SumsAtMost
      <4>2. QED
        BY <4>1
    <3> DEFINE s == Sums(f)[Owners]
    <3>4. s \in Int /\ 0 * s =< s /\ 2 * s =< s
      BY <3>2, <3>3
    <3> HIDE DEF s
    <3>5. s = 0
      BY <3>4
    <3>6. QED
      BY <3>1, <3>5 DEF Sum, s
  <2>2. /\ [o \in Owners |-> rollup[o].weighted] \in [Owners -> Int]
        /\ [o \in Owners |-> rollup[o].commit] \in [Owners -> Int]
        /\ \A o \in Owners : rollup[o].weighted = 0 /\ rollup[o].commit = 0
        /\ totals.weighted = 0 /\ totals.commit = 0
    BY DEF ForecastInit, EmptyBucket
  <2>3. Sum([o \in Owners |-> rollup[o].weighted]) = 0
    BY <2>1, <2>2
  <2>4. Sum([o \in Owners |-> rollup[o].commit]) = 0
    BY <2>1, <2>2
  <2>5. QED
    BY <2>2, <2>3, <2>4 DEF TotalsAreTheOwners
<1>4. TeamRiskHasAnOwner
  <2>1. NoReport.team = FALSE
    BY DEF NoReport
  <2>2. QED
    BY <2>1 DEF ForecastInit, TeamRiskHasAnOwner
<1>5. QED
  BY <1>1, <1>2, <1>3, <1>4 DEF ForecastIInv

\* The next deal is taken.
LEMMA TakeKeeps == ASSUME ForecastIInv, TakeDeal PROVE ForecastIInv'
<1>1. /\ deal = NoDeal /\ totals.count < MaxDeals /\ ~ quotaReport.made
      /\ deal' \in Offered /\ verdict' \in Verdicts \union {Blank}
      /\ rollup' = rollup /\ totals' = totals /\ quotaReport' = quotaReport
  BY DEF TakeDeal
<1>2. ForecastTypes'
  BY <1>1 DEF ForecastIInv, ForecastTypes
<1>3. Counted'
  BY <1>1 DEF ForecastIInv, Counted
<1>4. TotalsAreTheOwners' /\ TeamRiskHasAnOwner'
  BY <1>1 DEF ForecastIInv, TotalsAreTheOwners, TeamRiskHasAnOwner
<1>5. QED
  BY <1>2, <1>3, <1>4 DEF ForecastIInv

\* What one owner's bucket gains is what the totals gain.
LEMMA RollUpKeeps == ASSUME ForecastIInv, RollUp PROVE ForecastIInv'
<1> DEFINE score == Score(deal, verdict)
<1> DEFINE own == deal.owner
<1> DEFINE acv == deal.acv
<1> DEFINE bucket == rollup[own]
<1> DEFINE new == Accumulated(bucket, acv, score)
<1> DEFINE all == Accumulated(totals, acv, score)
<1> DEFINE more == IF score >= 80 THEN acv ELSE 0
<1> DEFINE worth == acv * Probability(score)
<1>1. /\ deal # NoDeal /\ rollup' = [rollup EXCEPT ![own] = new] /\ totals' = all
      /\ deal' = NoDeal /\ verdict' = Blank /\ quotaReport' = quotaReport
  BY DEF RollUp
<1>2. /\ rollup \in [Owners -> Buckets] /\ totals \in Buckets
      /\ deal \in Offered /\ verdict \in Verdicts \union {Blank}
      /\ quotaReport.risky \subseteq DOMAIN Quotas
  BY <1>1 DEF ForecastIInv, ForecastTypes
<1>3. deal \in DealRecords /\ own \in Owners /\ acv \in Int
  BY <1>2, OfferedAre
<1>4. score \in Int
  <2>1. verdict = Blank \/ verdict \in 0 .. 300
    BY <1>2, ForecastAssumption
  <2>2. DealLike(deal)
    BY <1>3, DealFields
  <2>3. QED
    BY <2>1, <2>2, ScoreIs
<1> HIDE DEF score, own, acv
<1>5. bucket \in Buckets
  BY <1>2, <1>3
<1>6. /\ new \in Buckets /\ new.commit = bucket.commit + more
      /\ new.weighted = bucket.weighted + worth /\ worth \in Int /\ more \in Int
      /\ new.count = bucket.count + 1
  <2> HIDE DEF bucket
  <2>1. QED
    BY <1>3, <1>4, <1>5, BucketGrows
<1>7. /\ all \in Buckets /\ all.commit = totals.commit + more
      /\ all.weighted = totals.weighted + worth /\ all.count = totals.count + 1
  <2>1. totals \in Buckets /\ acv \in Int /\ score \in Int
    BY <1>2, <1>3, <1>4
  <2> HIDE DEF bucket, new
  <2>2. QED
    BY <2>1, BucketGrows
<1> HIDE DEF new, all, more, worth
<1>8. /\ rollup'[own] = new /\ rollup' \in [Owners -> Buckets]
      /\ \A o \in Owners \ {own} : rollup'[o] = rollup[o]
  BY <1>1, <1>2, <1>3, <1>6
<1>9. ForecastTypes'
  BY <1>1, <1>2, <1>7, <1>8 DEF ForecastTypes
<1>10. Counted'
  <2>1. /\ \A o \in Owners : rollup[o].count =< totals.count
        /\ totals.count < MaxDeals /\ ~ quotaReport.made /\ ~ quotaReport.team
    BY <1>1 DEF ForecastIInv, Counted
  <2>2. totals.count \in Nat /\ totals'.count = totals.count + 1 /\ MaxDeals \in Nat
    BY <1>1, <1>2, <1>7, ForecastAssumption DEF Buckets
  <2>3. ASSUME NEW o \in Owners
        PROVE  rollup'[o].count =< totals'.count
    <3>1. rollup[o] \in Buckets
      BY <1>2
    <3>2. rollup[o].count \in Nat /\ rollup[o].count =< totals.count
      BY <2>1, <3>1 DEF Buckets
    <3>3. CASE o = own
      BY <1>6, <1>8, <2>2, <3>2, <3>3
    <3>4. CASE o # own
      BY <1>8, <2>2, <3>2, <3>4
    <3>5. QED
      BY <3>3, <3>4
  <2>4. QED
    BY <1>1, <2>1, <2>2, <2>3 DEF Counted
<1>11. TotalsAreTheOwners'
  <2>1. \A o \in Owners : /\ rollup[o].weighted \in Int /\ rollup[o].commit \in Int
                          /\ rollup'[o].weighted \in Int /\ rollup'[o].commit \in Int
    <3>1. ASSUME NEW b \in Buckets PROVE b.weighted \in Int /\ b.commit \in Int
      BY DEF Buckets
    <3>2. QED
      BY <1>2, <1>8, <3>1
  <2>2. totals.weighted = Sum([o \in Owners |-> rollup[o].weighted])
        /\ totals.commit = Sum([o \in Owners |-> rollup[o].commit])
    BY DEF ForecastIInv, TotalsAreTheOwners
  <2>3. totals'.weighted = Sum([o \in Owners |-> rollup'[o].weighted])
    <3> DEFINE f == [o \in Owners |-> rollup[o].weighted]
    <3> DEFINE g == [o \in Owners |-> rollup'[o].weighted]
    <3>1. f \in [Owners -> Int] /\ g \in [Owners -> Int]
      BY <2>1
    <3>2. \A o \in Owners \ {own} : f[o] = g[o]
      BY <1>8
    <3>3. f[own] = bucket.weighted /\ g[own] = bucket.weighted + worth
          /\ bucket.weighted \in Int
      BY <1>3, <1>6, <1>8, <2>1
    <3>4. totals.weighted = Sum(f) /\ totals'.weighted = totals.weighted + worth
      BY <1>1, <1>7, <2>2
    <3>5. totals.weighted \in Int
      BY <1>2 DEF Buckets
    <3> HIDE DEF f, g, bucket
    <3>6. Sum(g) = Sum(f) + (g[own] - f[own])
      BY <1>3, <3>1, <3>2, OwnersAreFinite, SumChanges
    <3>7. totals'.weighted = Sum(g)
      BY <1>6, <3>3, <3>4, <3>5, <3>6
    <3>8. QED
      BY <3>7 DEF g
  <2>4. totals'.commit = Sum([o \in Owners |-> rollup'[o].commit])
    <3> DEFINE f == [o \in Owners |-> rollup[o].commit]
    <3> DEFINE g == [o \in Owners |-> rollup'[o].commit]
    <3>1. f \in [Owners -> Int] /\ g \in [Owners -> Int]
      BY <2>1
    <3>2. \A o \in Owners \ {own} : f[o] = g[o]
      BY <1>8
    <3>3. f[own] = bucket.commit /\ g[own] = bucket.commit + more
          /\ bucket.commit \in Int
      BY <1>3, <1>6, <1>8, <2>1
    <3>4. totals.commit = Sum(f) /\ totals'.commit = totals.commit + more
      BY <1>1, <1>7, <2>2
    <3>5. totals.commit \in Int
      BY <1>2 DEF Buckets
    <3> HIDE DEF f, g, bucket
    <3>6. Sum(g) = Sum(f) + (g[own] - f[own])
      BY <1>3, <3>1, <3>2, OwnersAreFinite, SumChanges
    <3>7. totals'.commit = Sum(g)
      BY <1>6, <3>3, <3>4, <3>5, <3>6
    <3>8. QED
      BY <3>7 DEF g
  <2>5. QED
    BY <2>3, <2>4 DEF TotalsAreTheOwners
<1>12. TeamRiskHasAnOwner'
  BY <1>1 DEF ForecastIInv, Counted, TeamRiskHasAnOwner
<1>13. QED
  BY <1>9, <1>10, <1>11, <1>12 DEF ForecastIInv

\* The report: were no owner short, the team could not be.
LEMMA ReportKeeps ==
  ASSUME ForecastIInv, NEW elapsed \in Nat, BuildQuotaReport(elapsed) PROVE ForecastIInv'
<1> DEFINE risky == {o \in Owners : AtRisk(QuotaOf[o], rollup[o].weighted, elapsed)}
<1>1. /\ quotaReport' = [made |-> TRUE, risky |-> risky,
                         team |-> AtRisk(Sum(QuotaOf), totals.weighted, elapsed)]
      /\ deal' = deal /\ verdict' = verdict /\ rollup' = rollup /\ totals' = totals
  BY DEF BuildQuotaReport
<1>2. QuotaOf \in [Owners -> Int] /\ \A o \in Owners : QuotaOf[o] \in Nat
  BY ForecastAssumption DEF QuotaOf
<1>3. /\ rollup \in [Owners -> Buckets] /\ totals \in Buckets
      /\ deal = NoDeal \/ deal \in Offered
      /\ verdict \in Verdicts \union {Blank}
      /\ totals.weighted = Sum([o \in Owners |-> rollup[o].weighted])
  BY DEF ForecastIInv, ForecastTypes, TotalsAreTheOwners
<1>4. ASSUME NEW o \in risky PROVE o \in DOMAIN Quotas
  <2>1. o \in Owners /\ QuotaOf[o] > 0
    BY DEF AtRisk
  <2>2. SUFFICES ASSUME o \notin DOMAIN Quotas PROVE FALSE
    OBVIOUS
  <2>3. QuotaOf[o] = 0
    BY <2>1, <2>2 DEF QuotaOf
  <2>4. QED
    BY <2>1, <2>3
<1>5. ForecastTypes'
  <2>1. quotaReport'.risky = risky
    BY <1>1
  <2> HIDE DEF risky
  <2>2. QED
    BY <1>1, <1>3, <1>4, <2>1 DEF ForecastTypes
<1>6. Counted'
  BY <1>1 DEF BuildQuotaReport, ForecastIInv, Counted
<1>7. TotalsAreTheOwners'
  BY <1>1 DEF ForecastIInv, TotalsAreTheOwners
<1>8. TeamRiskHasAnOwner'
  <2> DEFINE g == [o \in Owners |-> rollup[o].weighted]
  <2>1. SUFFICES ASSUME AtRisk(Sum(QuotaOf), totals.weighted, elapsed), risky = {},
                        \A o \in Owners : ~ (QuotaOf[o] = 0 /\ rollup[o].weighted < 0)
                 PROVE FALSE
    BY <1>1 DEF TeamRiskHasAnOwner, QuotaOf
  <2>2. g \in [Owners -> Int] /\ \A o \in Owners : g[o] = rollup[o].weighted /\ g[o] \in Int
    BY <1>3 DEF Buckets
  <2> DEFINE k == 70
  <2>3. ASSUME NEW o \in Owners PROVE k * QuotaOf[o] =< g[o]
    <3>1. ~ AtRisk(QuotaOf[o], rollup[o].weighted, elapsed)
      BY <2>1
    <3>2. elapsed > 40
      BY <2>1 DEF AtRisk
    <3>3. QuotaOf[o] \in Nat /\ g[o] \in Int /\ g[o] = rollup[o].weighted
      BY <1>2, <2>2
    <3> DEFINE q == QuotaOf[o]
    <3> DEFINE w == g[o]
    <3>4. ~ (q > 0 /\ 100 * q - w > 30 * q) /\ ~ (q = 0 /\ w < 0)
      BY <2>1, <3>1, <3>2, <3>3 DEF AtRisk
    <3>5. q \in Nat /\ w \in Int
      BY <3>3
    <3> HIDE DEF q, w
    <3>6. 70 * q =< w
      BY <3>4, <3>5
    <3>7. QED
      BY <3>6 DEF q, w
  <2>4. k \in Nat /\ Owners \in SUBSET Owners
    OBVIOUS
  <2>5. DOMAIN g = Owners /\ DOMAIN QuotaOf = Owners
    BY DEF QuotaOf
  <2>6. totals.weighted = Sum(g)
    BY <1>3
  <2> HIDE DEF k, g
  <2>7. k * Sums(QuotaOf)[Owners] =< Sums(g)[Owners]
    BY <1>2, <2>2, <2>3, <2>4, OwnersAreFinite, SumsAtMost
  <2> DEFINE team == Sums(QuotaOf)[Owners]
  <2> DEFINE sum == Sums(g)[Owners]
  <2>8. team \in Int /\ sum \in Int
    BY <1>2, <2>2, <2>4, OwnersAreFinite, SumsAreWhole
  <2>9. team = Sum(QuotaOf) /\ sum = totals.weighted
    BY <2>5, <2>6 DEF Sum
  <2>10. 100 * team - sum > 30 * team
    BY <2>1, <2>9 DEF AtRisk
  <2>11. k * team =< sum
    BY <2>7
  <2> HIDE DEF team, sum
  <2>12. 70 * team =< sum
    BY <2>11 DEF k
  <2>13. QED
    BY <2>8, <2>10, <2>12
<1>9. QED
  BY <1>5, <1>6, <1>7, <1>8 DEF ForecastIInv

LEMMA ForecastStepIInv == ForecastIInv /\ [ForecastNext]_forecastVars => ForecastIInv'
<1> SUFFICES ASSUME ForecastIInv, [ForecastNext]_forecastVars PROVE ForecastIInv'
  OBVIOUS
<1>1. CASE TakeDeal
  BY <1>1, TakeKeeps
<1>2. CASE RollUp
  BY <1>2, RollUpKeeps
<1>3. ASSUME NEW e \in Elapsed, BuildQuotaReport(e) PROVE ForecastIInv'
  <2>1. e \in Nat
    BY ForecastAssumption
  <2>2. QED
    BY <1>3, <2>1, ReportKeeps
<1>4. CASE UNCHANGED forecastVars
  BY <1>4 DEF forecastVars, ForecastIInv, ForecastTypes, Counted, TotalsAreTheOwners,
     TeamRiskHasAnOwner
<1>5. QED
  BY <1>1, <1>2, <1>3, <1>4 DEF ForecastNext

LEMMA ForecastInvHolds == ForecastIInv => ForecastInv
<1> SUFFICES ASSUME ForecastIInv PROVE ForecastInv
  OBVIOUS
<1>1. /\ deal = NoDeal \/ deal \in Offered
      /\ verdict \in Verdicts \union {Blank} /\ (verdict = Blank \/ verdict \in 0 .. 300)
  BY ForecastAssumption DEF ForecastIInv, ForecastTypes
<1>2. deal # NoDeal => deal \in DealRecords /\ deal.owner \in Owners /\ DealLike(deal)
  BY <1>1, OfferedAre, DealFields
<1>3. ForecastTypeOK
  <2>1. deal.owner \in Owners \union {"none"}
    BY <1>2 DEF NoDeal
  <2>2. QED
    BY <1>1, <2>1 DEF ForecastIInv, ForecastTypes, Counted, ForecastTypeOK
<1>4. SilenceNeverHelps
  BY <1>1, <1>2, QuietDays DEF SilenceNeverHelps
<1>5. StrongNeedsASignal
  <2>1. SUFFICES ASSUME deal # NoDeal, Score(deal, verdict) >= 80,
                        Weights.icp + 2 * Weights.call > 41, deal.icp = Blank,
                        ~ (deal.calls.n > 0)
                 PROVE  FALSE
    BY DEF StrongNeedsASignal
  <2>2. deal.calls.n = 0
    <3>1. deal.calls \in Calls
      BY <1>2, <2>1 DEF DealRecords
    <3>2. deal.calls.n \in Nat
      BY <3>1 DEF Calls
    <3>3. QED
      BY <2>1, <3>2
  <2>3. QED
    BY <1>1, <1>2, <2>1, <2>2, NoSignalNoCommit
<1>6. FlagsTellTheScore
  <2> SUFFICES ASSUME deal # NoDeal PROVE FlagsTellTheScore
    BY DEF FlagsTellTheScore
  <2> DEFINE d == deal
  <2>1. DealLike(d) /\ d.idle \in Int
    BY <1>2 DEF DealLike
  <2>2. ASSUME d.due # Blank, Timeline(d) < Horizon(d) PROVE "STAGE_MISMATCH" \in Flags(d)
    <3>1. Horizon(d) \in Int
      BY <2>1, TimelineIs
    <3>2. Stalled(d)
      BY <2>1, <2>2, <3>1, TimelineIs
    <3>3. StageMismatch(d)
      BY <3>2 DEF Stalled, StageMismatch
    <3>4. QED
      BY <3>3 DEF Flags
  <2>3. ASSUME Flags(d) \intersect {"ZOMBIE", "ENTERPRISE_STALL"} # {}
        PROVE  "NO_ENGAGEMENT" \in Flags(d)
    <3>1. SilentFor(d, 90) \/ SilentFor(d, 45)
      BY <2>3 DEF Flags
    <3>2. Idle(d) \in Int
      BY <2>1 DEF Idle
    <3>3. SilentFor(d, 30)
      BY <3>1, <3>2 DEF SilentFor
    <3>4. QED
      BY <3>3 DEF Flags
  <2>4. ASSUME "NO_ENGAGEMENT" \in Flags(d) PROVE Activity(d) =< 60
    <3>1. SilentFor(d, 30)
      BY <2>4 DEF Flags
    <3>2. Idle(d) \in Int /\ Idle(d) > 30 /\ d.idle # Blank
      BY <2>1, <3>1 DEF Idle, SilentFor
    <3> DEFINE i == Idle(d)
    <3>3. Activity(d) = 12 * BandScore(i)
      BY <2>1, <3>2, ActivityIsTheBand
    <3>4. i \in Int /\ i > 30
      BY <3>2
    <3> HIDE DEF i, d
    <3>5. BandScore(i) \in {0, 2, 5, 10, 15, 20, 25} /\ BandScore(i) =< 5
      BY <3>4, BandIs
    <3>6. QED
      BY <3>3, <3>5
  <2>5. QED
    BY <2>2, <2>3, <2>4 DEF FlagsTellTheScore
<1>7. BonusAndPenaltyAreLost
  BY <1>2, ActivityIsTheBand DEF BonusAndPenaltyAreLost
<1>8. VerdictIsATiebreak
  BY <1>1, <1>2, CallsAre DEF VerdictIsATiebreak
<1>9. TeamRiskHasAnOwner /\ TotalsAreTheOwners
  BY DEF ForecastIInv
<1>10. QED
  BY <1>3, <1>4, <1>5, <1>6, <1>7, <1>8, <1>9 DEF ForecastInv

\* A forecast keeps ForecastInv for every deal, weight, quota and verdict: the
\* scores of score_deal, the flags of compute_risk_flags, the roll-up of
\* roll_up and the report of build_quota_report.
THEOREM ForecastHolds == ForecastSpec => []ForecastInv
<1>1. ForecastInit => ForecastIInv
  BY ForecastInitIInv
<1>2. ForecastIInv /\ [ForecastNext]_forecastVars => ForecastIInv'
  BY ForecastStepIInv
<1>3. ForecastIInv => ForecastInv
  BY ForecastInvHolds
<1>4. QED
  BY <1>1, <1>2, <1>3, PTL DEF ForecastSpec
=============================================================================
