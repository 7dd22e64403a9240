----------------------------- MODULE CallGrades -----------------------------
(***************************************************************************)
(* agents/sales_reps: how a transcript becomes a grade (fireflies_adapter, *)
(* classifier, grader, rubrics), and the grades become Friday's            *)
(* leaderboard and scorecards (leaderboards.py, scorecards.py).            *)
(*                                                                         *)
(* A title is the set of the patterns it matches.  A reply of the model    *)
(* gives one score to the sections with critical items and one to the      *)
(* others, and says in which of the two it saw critical misses; so a       *)
(* rubric is what the two kinds of section weigh together, twice that of   *)
(* rubrics.py so as to be whole.  A week has three slots: up to Friday     *)
(* 16:00, the hour up to 17:00, and what is left.                          *)
(***************************************************************************)
EXTENDS Integers, Sequences, SequencesExt, FiniteSets

CONSTANTS
    Meetings,       \* the calls, by meeting_id
    Transcripts,    \* those of Transcript that the bound allows
    Replies,        \* those of Reply that the bound allows
    LastSlot        \* bound on time

VARIABLES
    gradeOf,    \* sales_reps_call_grades, by meeting_id
    slot,
    boards,     \* history: the weeks whose posted leaderboard counted a call
    cards,      \* history: the weeks whose scorecards counted a call
    regraded,   \* history: calls that were graded again
    idle        \* history: a Friday's tick did not run

callVars == <<gradeOf, slot, boards, cards, regraded, idle>>

Unread == 99        \* a score that is missing or no number

-----------------------------------------------------------------------------
(* The rubrics: what the sections with critical items and the others weigh *)

Section(crit, plain) == [critical |-> crit, plain |-> plain]

FirstCall == Section(8, 4)
SecondCall == Section(8, 4)
FollowUp == Section(4, 12)
SdrColdCall == Section(6, 4)

GradableTypes == {"first_call", "second_call", "follow_up", "sdr_cold_call"}

(* get_rubric, for the gradable types.                                     *)
Rubric(type) == CASE type = "first_call" -> FirstCall
                  [] type = "second_call" -> SecondCall
                  [] type = "follow_up" -> FollowUp
                  [] OTHER -> SdrColdCall

MaxWeighted(type) == 5 * (Rubric(type).critical + Rubric(type).plain)

(* Whether points of a maximum reach a percentage.                         *)
Reaches(points, max, pct) == 100 * points >= pct * max

(* Rubric.grade_label.                                                     *)
GradeLabel(points, max) ==
    IF Reaches(points, max, 70) THEN "pass_excellent"
    ELSE IF Reaches(points, max, 50) THEN "pass_good"
    ELSE IF Reaches(points, max, 35) THEN "fail_needs_work"
    ELSE "fail_major_gaps"

-----------------------------------------------------------------------------
(* The classifier                                                          *)

(* _TITLE_PATTERNS, the first that matches.                                *)
TitlePatterns == <<"internal", "onboarding", "cs", "pilot", "renewal", "headroom", "second_call",
                   "first_call", "follow_up", "sdr_cold_call">>

(* external: attendees from outside; short: less than ten minutes; said:   *)
(* what the small model would answer, "other" when it fails; by: whether a *)
(* rep was found among host and attendees, and their name among the        *)
(* speakers (normalize).                                                   *)
Names == {"named", "unnamed"}
Transcript == [external : 0 .. 2, title : SUBSET ToSet(TitlePatterns), short : BOOLEAN,
               said : ToSet(TitlePatterns) \union {"other"}, by : Names \union {"nobody"}]

(* classify: rules first, the small model for the rest.                    *)
Classify(t) ==
    LET matched == SelectSeq(TitlePatterns, LAMBDA p : p \in t.title) IN
    CASE t.external = 0 -> "internal"
      [] t.external > 0 /\ matched # <<>> -> Head(matched)
      [] t.external = 1 /\ matched = <<>> /\ t.short -> "sdr_cold_call"
      [] OTHER -> t.said

IsGradable(type) == type \in GradableTypes

-----------------------------------------------------------------------------
(* The grader                                                              *)

(* readable: the answer holds a JSON object with sections.                 *)
Reply == [readable : BOOLEAN, critical : {Unread} \union 0 .. 6, plain : {Unread} \union 0 .. 6,
          missed : SUBSET {"critical", "plain"}]

ASSUME GradesAssumption ==
    LastSlot \in Nat \ {0} /\ Replies \subseteq Reply /\ Transcripts \subseteq Transcript

Clamp(score) == IF score = Unread \/ score < 1 THEN 1 ELSE IF score > 5 THEN 5 ELSE score

(* _finalize, for a section of either kind: no cap where there are no      *)
(* critical items.                                                         *)
PlainScore(r) == IF r.readable THEN Clamp(r.plain) ELSE 1
CriticalScore(r) ==
    LET raw == IF r.readable THEN Clamp(r.critical) ELSE 1
    IN  IF r.readable /\ "critical" \in r.missed /\ raw > 3 THEN 3 ELSE raw

(* compute_weighted_score.                                                 *)
Weighted(type, r) ==
    Rubric(type).critical * CriticalScore(r) + Rubric(type).plain * PlainScore(r)

NoGrade == [type |-> "none", pct |-> 0, label |-> "none", missed |-> FALSE, at |-> 0,
            by |-> "nobody"]

(* The row, its percentage in tenths as round(pct, 1) leaves it.           *)
Grade(type, r, by) ==
    LET points == Weighted(type, r)
        max == MaxWeighted(type)
    IN [type |-> type, pct |-> (1000 * points + max \div 2) \div max,
        label |-> GradeLabel(points, max),
        missed |-> r.readable /\ r.missed # {}, at |-> slot, by |-> by]

HasGrade(c) == gradeOf[c] # NoGrade

(* grade_one, by the command, which grades again whatever it is given, or  *)
(* by a batch for a call that has no grade.                                *)
GradeCall(c, t, r) ==
    /\ IsGradable(Classify(t))
    /\ gradeOf' = [gradeOf EXCEPT ![c] = Grade(Classify(t), r, t.by)]
    /\ regraded' = IF HasGrade(c) THEN regraded \union {c} ELSE regraded
    /\ UNCHANGED <<slot, boards, cards, idle>>

-----------------------------------------------------------------------------
(* Fridays                                                                 *)

Week(s) == (s + 2) \div 3
PartOfWeek(s) == s - 3 * (Week(s) - 1)

(* A leaderboard that takes every grade up to the week's end.              *)
OnBoard_Running(w, name) ==
    {c \in Meetings : HasGrade(c) /\ gradeOf[c].by = name /\ Week(gradeOf[c].at) =< w}

(* _grade_stats_by_rep over iso_week_bounds(None): the rows of one name.   *)
OnBoard(w, name) ==
    {c \in Meetings : HasGrade(c) /\ gradeOf[c].by = name /\ Week(gradeOf[c].at) = w}

(* Scorecards over the calendar week.                                      *)
OnCards_Week(s) ==
    {c \in Meetings : HasGrade(c) /\ gradeOf[c].by # "nobody" /\ Week(gradeOf[c].at) = Week(s)}

(* for_rep over the last seven days, from Friday 17:00 to Friday 17:00,    *)
(* for every address that is not null.                                     *)
OnCards(s) == {c \in Meetings : HasGrade(c) /\ gradeOf[c].by # "nobody" /\ gradeOf[c].at > s - 3}

Note(history, counted) ==
    [c \in Meetings |-> IF c \in counted THEN history[c] \union {Week(slot)} ELSE history[c]]

(* Friday 16:00, leaderboard_weekly, and 17:00, scorecards_weekly, unless  *)
(* the tick does not run, or fails.  The calls are those of one rep: the   *)
(* board groups its rows by address and name and keys them by address, and *)
(* of a rep with two names the last group stands.                          *)
LeaderboardWeekly ==
    \E name \in Names :
        /\ slot < LastSlot /\ PartOfWeek(slot) = 1 /\ slot' = slot + 1
        /\ OnBoard(Week(slot), name) = {} => \A n \in Names : OnBoard(Week(slot), n) = {}
        /\ boards' = Note(boards, OnBoard(Week(slot), name))
        /\ UNCHANGED <<gradeOf, cards, regraded, idle>>

ScorecardsWeekly ==
    /\ slot < LastSlot /\ PartOfWeek(slot) = 2 /\ slot' = slot + 1
    /\ cards' = Note(cards, OnCards(slot))
    /\ UNCHANGED <<gradeOf, boards, regraded, idle>>

SkipTick ==
    /\ slot < LastSlot /\ PartOfWeek(slot) # 3 /\ slot' = slot + 1
    /\ idle' = TRUE
    /\ UNCHANGED <<gradeOf, boards, cards, regraded>>

EndWeek ==
    /\ slot < LastSlot /\ PartOfWeek(slot) = 3 /\ slot' = slot + 1
    /\ UNCHANGED <<gradeOf, boards, cards, regraded, idle>>

CallInit ==
    /\ gradeOf = [c \in Meetings |-> NoGrade] /\ slot = 1
    /\ boards = [c \in Meetings |-> {}] /\ cards = [c \in Meetings |-> {}]
    /\ regraded = {} /\ idle = FALSE

CallNext ==
    \/ \E c \in Meetings, t \in Transcripts, r \in Replies : GradeCall(c, t, r)
    \/ LeaderboardWeekly \/ ScorecardsWeekly \/ SkipTick \/ EndWeek

CallSpec == CallInit /\ [][CallNext]_callVars

-----------------------------------------------------------------------------

CallTypeOK ==
    /\ \A c \in Meetings : HasGrade(c) => IsGradable(gradeOf[c].type) /\ gradeOf[c].at \in 1 .. slot
    /\ slot \in 1 .. LastSlot /\ regraded \subseteq Meetings
    /\ boards \in [Meetings -> SUBSET (1 .. Week(LastSlot))]
    /\ cards \in [Meetings -> SUBSET (1 .. Week(LastSlot))]

(* A row's percentage, which is rounded, and its label, which is computed  *)
(* from the percentage before that, say the same of every rubric's every   *)
(* total (compute_weighted_score).                                         *)
PercentageTellsTheLabel ==
    \A c \in Meetings : HasGrade(c) => gradeOf[c].label = GradeLabel(gradeOf[c].pct, 1000)

(* No grade leaves the range from one fifth, which a reply that cannot be  *)
(* read gets and which stands as a grade, to full marks: a section is      *)
(* clamped and capped before it is weighed (_finalize).                    *)
MarksAreBounded ==
    \A c \in Meetings : HasGrade(c) => gradeOf[c].pct \in 200 .. 1000

(* A call graded once is counted by at most one posted leaderboard, that   *)
(* of its week; a second board takes a second grading, which moves the     *)
(* call out of the week it was made in (upsert_grade resets graded_at).    *)
OneBoardPerGrading ==
    \A c \in Meetings : c \notin regraded => boards[c] \subseteq {Week(gradeOf[c].at)}

(* While every Friday's tick runs, a grade of a rep is on exactly one      *)
(* week's scorecards, and by the first Friday 17:00 after it; a grade that *)
(* is nobody's is on none (rep_email IS NOT NULL).                         *)
CardsMissNothing ==
    ~ idle => \A c \in Meetings \ regraded :
        /\ Cardinality(cards[c]) =< 1
        /\ (/\ HasGrade(c) /\ gradeOf[c].by # "nobody"
            /\ \E s \in gradeOf[c].at .. slot - 1 : PartOfWeek(s) = 2) => cards[c] # {}
        /\ gradeOf[c].by = "nobody" => cards[c] = {}

(* What grading and its reports keep.                                      *)
CallsInv ==
    /\ CallTypeOK /\ PercentageTellsTheLabel /\ MarksAreBounded /\ OneBoardPerGrading
    /\ CardsMissNothing

(* A rep's call that was graded in a week that is over was on its board.   *)
BoardsMissNothing ==
    ~ idle => \A c \in Meetings \ regraded :
        (gradeOf[c].by # "nobody" /\ Week(gradeOf[c].at) < Week(slot)) => boards[c] # {}
=============================================================================
