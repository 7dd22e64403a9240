--------------------------- MODULE PipelineMovers ---------------------------
(***************************************************************************)
(* agents/slt_metrics: the morning snapshot of the open pipeline           *)
(* (pipeline/fetcher.py, snapshotter.py), the diff of two snapshots        *)
(* (movers.py), and the daily and Friday briefings that tell it (jobs.py). *)
(*                                                                         *)
(* A deal has a stage, by its rank, an ACV and a close date, in units of   *)
(* the horizon.  Jobs run by hand on any day, twice, late or not at all.   *)
(* A snapshot writes its rows in one transaction; a briefing reads them,   *)
(* and tells its reader only when Slack takes it, and only the largest     *)
(* movers, by their kind and amount: what became of a deal the reader can  *)
(* then look up.  The briefing's gate is a draft's, which nothing waits    *)
(* for.                                                                    *)
(***************************************************************************)
EXTENDS Integers, FiniteSets

CONSTANTS
    Opps,
    Edited,             \* bound: the deals that anybody edits
    OpenRanks,          \* STAGE_RANK of the stages that are not closed
    Values, AcvDelta,     \* acv_delta
    CloseDates, PushBy,     \* close dates and close_date_push_days
    NextQuarterEnd,            \* the last close date of NEXT_QUARTER
    LastMorning,            \* bound
    Snappers,           \* processes that take snapshots
    Windows,            \* period_days of the briefings
    TopMovers           \* the movers that a briefing prints

ASSUME MoversAssumption == /\ Edited \subseteq Opps
                           /\ OpenRanks \subseteq 1 .. 5 /\ OpenRanks # {}
                           /\ Values \subseteq Int /\ Values # {}
                           /\ CloseDates \subseteq Nat /\ CloseDates # {}
                           /\ AcvDelta \in Int /\ PushBy \in Int
                           /\ LastMorning \in Nat \ {0} /\ Windows \subseteq Nat
                           /\ TopMovers \in Nat

VARIABLES
    deals,      \* the org
    today,
    snapshots,  \* pipeline_snapshots: date -> deal -> row
    snapper,    \* what each process has fetched, and for which date
    report,     \* the last briefing that was sent
    heard,      \* history: the stage in which a printed move last showed a deal
    cut,        \* history: the deals whose last move of stage was not printed
    late,       \* history: rows were added to a date once it was briefed
    missed      \* history: a briefing's window began after the last one's end

moversVars == <<deals, today, snapshots, snapper, report, heard, cut, late, missed>>

Won == 6
Lost == -3
Ranks == OpenRanks \union {Won, Lost}
Deals == [stage : Ranks, acv : Values, close : CloseDates]
Opened(o) == [stage |-> CHOOSE r \in OpenRanks : \A q \in OpenRanks : r =< q,
              acv |-> CHOOSE a \in Values : TRUE,
              close |-> CHOOSE c \in CloseDates : \A d \in CloseDates : c =< d]

NoRows == [o \in {} |-> 0]
AtHome == [on |-> 0, rows |-> NoRows]
NoBriefing == [date |-> 0, prev |-> 0, movers |-> {}]

MoversInit ==
    /\ deals = [o \in Opps |-> Opened(o)]
    /\ today = 1
    /\ snapshots = [d \in 1 .. LastMorning |-> NoRows]
    /\ snapper = [p \in Snappers |-> AtHome]
    /\ report = NoBriefing
    /\ heard = [o \in Opps |-> 0] /\ cut = {}
    /\ late = FALSE /\ missed = FALSE

SnapshotDates == {d \in 1 .. LastMorning : snapshots[d] # NoRows}
Latest(dates) == IF dates = {} THEN 0 ELSE CHOOSE d \in dates : \A e \in dates : e =< d

-----------------------------------------------------------------------------
(* The snapshot                                                            *)

(* fetch_open_opps: open, and closing within the horizon.                  *)
OpenOpps == {o \in Opps : deals[o].stage \in OpenRanks /\ deals[o].close =< NextQuarterEnd}

(* run_morning_snapshot: the date is read before the fetch.                *)
FetchOpps(p) ==
    /\ snapper[p] = AtHome /\ OpenOpps # {}
    /\ snapper' = [snapper EXCEPT ![p] = [on |-> today, rows |-> [o \in OpenOpps |-> deals[o]]]]
    /\ UNCHANGED <<deals, today, snapshots, report, heard, cut, late, missed>>

(* Rows that replace those of an earlier run of the day.                   *)
Merged_Replace(old, new) ==
    [o \in DOMAIN old \union DOMAIN new |-> IF o \in DOMAIN new THEN new[o] ELSE old[o]]

(* ON CONFLICT (snapshot_date, opp_id) DO NOTHING.                         *)
Merged(old, new) ==
    [o \in DOMAIN old \union DOMAIN new |-> IF o \in DOMAIN old THEN old[o] ELSE new[o]]

(* write_unscored_snapshot, one transaction.                               *)
WriteSnapshot(p) ==
    LET d == snapper[p].on
        all == Merged(snapshots[d], snapper[p].rows) IN
    /\ snapper[p] # AtHome
    /\ snapshots' = [snapshots EXCEPT ![d] = all]
    /\ late' = (late \/ (d =< report.date /\ DOMAIN all # DOMAIN snapshots[d]))
    /\ snapper' = [snapper EXCEPT ![p] = AtHome]
    /\ UNCHANGED <<deals, today, report, heard, cut, missed>>

KillSnapshot(p) ==
    /\ snapper[p] # AtHome
    /\ snapper' = [snapper EXCEPT ![p] = AtHome]
    /\ UNCHANGED <<deals, today, snapshots, report, heard, cut, late, missed>>

-----------------------------------------------------------------------------
(* diff of two snapshots                                                   *)

Size(x) == IF x < 0 THEN - x ELSE x

(* What a mover prints: its kind and, without a sign, its delta_acv.       *)
Mover(o, kind, delta) == [opp |-> o, kind |-> kind, size |-> Size(delta)]

(* _stage_mover.                                                           *)
StageKind(before, after) ==
    IF after = Won THEN "won" ELSE IF after = Lost THEN "lost"
    ELSE IF after > before THEN "advanced" ELSE "slipped"

(* _compare: the stage, the ACV and the close date, each on its own.  Only *)
(* an amount's delta is the change; the others carry the whole ACV.        *)
Compare(o, before, after) ==
    LET grown == after.acv - before.acv IN
    {Mover(o, k, after.acv) : k \in {k \in {StageKind(before.stage, after.stage)} :
                                        before.stage # after.stage}}
    \union {Mover(o, k, grown) : k \in {k \in {"amount_up"} : grown >= AcvDelta}
                                       \union {k \in {"amount_down"} : grown =< - AcvDelta}}
    \union {Mover(o, k, after.acv) : k \in {k \in {"pushed"} : after.close - before.close >= PushBy}}

(* _dropped_from_fetch: told only when its last row was closed.            *)
Dropped(o, before) ==
    IF before.stage = Won THEN {Mover(o, "won", before.acv)}
    ELSE IF before.stage = Lost THEN {Mover(o, "lost", before.acv)} ELSE {}

(* diff; without earlier rows every deal is new.                           *)
Diff(before, after) ==
    {Mover(o, "new", after[o].acv) : o \in DOMAIN after \ DOMAIN before}
    \union (UNION {Compare(o, before[o], after[o]) : o \in DOMAIN after \intersect DOMAIN before})
    \union (UNION {Dropped(o, before[o]) : o \in DOMAIN before \ DOMAIN after})

(* MoverSet.top that puts the smallest first.                              *)
Top_Smallest(shown, movers) ==
    /\ shown = movers \/ Cardinality(shown) = TopMovers
    /\ Cardinality(shown) =< TopMovers
    /\ \A m \in shown, x \in movers \ shown : m.size =< x.size

(* MoverSet.top: the largest; which goes first among equals is left open.  *)
Top(shown, movers) ==
    /\ shown = movers \/ Cardinality(shown) = TopMovers
    /\ Cardinality(shown) =< TopMovers
    /\ \A m \in shown, x \in movers \ shown : x.size =< m.size

-----------------------------------------------------------------------------
(* The briefing                                                            *)

(* _resolve_current_snapshot: today's, or the latest.                      *)
Current == Latest({d \in SnapshotDates : d =< today})

(* latest_snapshot_date that counts the date itself.                       *)
Previous_Same(date, window) ==
    LET p == Latest({d \in SnapshotDates : d =< date}) IN IF p >= date - window THEN p ELSE 0

(* The latest snapshot before it, unless it lies beyond the window.        *)
Previous(date, window) ==
    LET p == Latest({d \in SnapshotDates : d < date}) IN IF p >= date - window THEN p ELSE 0

(* The deals whose stage movers speak of.                                  *)
StageKinds == {"new", "advanced", "slipped", "won", "lost"}
Moved(movers) == {o \in Opps : \E m \in movers : m.opp = o /\ m.kind \in StageKinds}

(* Such a mover may be cut off when as many others are at least as large.  *)
Crowded(o, movers) ==
    \E m \in movers :
        /\ m.opp = o /\ m.kind \in StageKinds
        /\ \E larger \in SUBSET {x \in movers \ {m} : x.size >= m.size} :
              Cardinality(larger) = TopMovers

(* _run_briefing, and its block of movers.                                 *)
Brief(window) ==
    LET date == Current
        prev == Previous(date, window)
        movers == Diff(IF prev = 0 THEN NoRows ELSE snapshots[prev], snapshots[date]) IN
    /\ SnapshotDates # {}
    /\ report' = [date |-> date, prev |-> prev, movers |-> movers]
    /\ \E shown \in SUBSET movers :
          /\ Top(shown, movers)
          /\ heard' = [o \in Opps |-> IF o \in Moved(shown) \intersect DOMAIN snapshots[date]
                                      THEN snapshots[date][o].stage ELSE heard[o]]
          /\ cut' = (cut \ Moved(movers))
                     \union {o \in Moved(movers) \ Moved(shown) : Crowded(o, movers)}
    /\ missed' = (prev # 0 /\ (missed \/ report.date \notin {prev, date}))
    /\ late' = (late /\ prev # 0)
    /\ UNCHANGED <<deals, today, snapshots, snapper>>

-----------------------------------------------------------------------------

(* Reps move the deal, its ACV and its close date.                         *)
ChangeDeal(o, deal) ==
    /\ deals[o].stage \in OpenRanks /\ deals[o] # deal
    /\ deals' = [deals EXCEPT ![o] = deal]
    /\ UNCHANGED <<today, snapshots, snapper, report, heard, cut, late, missed>>

NextDay ==
    /\ today < LastMorning /\ today' = today + 1
    /\ UNCHANGED <<deals, snapshots, snapper, report, heard, cut, late, missed>>

MoversNext ==
    \/ \E p \in Snappers : FetchOpps(p) \/ WriteSnapshot(p) \/ KillSnapshot(p)
    \/ \E w \in Windows : Brief(w)
    \/ \E o \in Edited, deal \in Deals : ChangeDeal(o, deal)
    \/ NextDay

MoversSpec == MoversInit /\ [][MoversNext]_moversVars

-----------------------------------------------------------------------------

MoversTypeOK ==
    /\ deals \in [Opps -> Deals] /\ today \in 1 .. LastMorning
    /\ \A d \in 1 .. LastMorning : DOMAIN snapshots[d] \subseteq Opps
    /\ \A p \in Snappers : snapper[p].on \in 0 .. today
    /\ report.date \in 0 .. today /\ report.prev \in 0 .. today
    /\ heard \in [Opps -> Ranks \union {0}] /\ cut \subseteq Opps

(* Who reads every briefing was shown the last move of stage of each deal  *)
(* of the last one, over days without a snapshot, re-runs and fall-backs,  *)
(* or that move was cut off behind larger movers: it fails only after a    *)
(* briefing was left out, or rows came in after one was sent (diff,        *)
(* latest_snapshot_date, MoverSet.top, DO NOTHING on a re-run).            *)
NoMoveIsLost ==
    (~ missed /\ ~ late /\ report # NoBriefing)
        => \A o \in DOMAIN snapshots[report.date] \ cut :
              heard[o] = snapshots[report.date][o].stage

(* A briefing compares two dates, the earlier within its window, and never *)
(* calls a deal new that the earlier one holds; a push or an amount speaks *)
(* of a deal that both hold (_run_briefing).                               *)
ReportSpeaksOfBoth ==
    report.prev # 0 =>
        /\ report.prev < report.date
        /\ \A m \in report.movers :
              m.kind \in {"advanced", "slipped", "pushed", "amount_up", "amount_down"}
                => m.opp \in DOMAIN snapshots[report.prev] \intersect DOMAIN snapshots[report.date]

(* What a reader of the briefings may rely on.                             *)
MoversInv == MoversTypeOK /\ NoMoveIsLost /\ ReportSpeaksOfBoth

(* A deal that the earlier snapshot holds, the later one does not, and the *)
(* org has won, is among the later one's movers as won (movers.py, "won -  *)
(* stage moved into Closed Won").                                          *)
WonIsReported ==
    report.prev # 0 =>
        \A o \in DOMAIN snapshots[report.prev] \ DOMAIN snapshots[report.date] :
            deals[o].stage = Won => \E m \in report.movers : m.opp = o /\ m.kind = "won"
=============================================================================
