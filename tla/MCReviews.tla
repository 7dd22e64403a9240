----------------------------- MODULE MCReviews ------------------------------
(* The computations over what was read from the org: snapshots and         *)
(* forecasts of the pipeline, their replay, grades of calls, the watch     *)
(* over open deals, the scores of prospects and customers.  They share no  *)
(* variable and are checked in one run, whose initial state chooses the    *)
(* one that moves.                                                         *)
EXTENDS PipelineMovers, DealForecast, ForecastReplay, CallGrades, DealWatch, ProspectScores

VARIABLE part

-----------------------------------------------------------------------------
(* What becomes of the deal that the briefings tell: its ACV is known once *)
(* its close date is, and then its stage moves, it is put off, or won.     *)
MCSeen == {[stage |-> r, acv |-> 10, close |-> 2] : r \in OpenRanks}
          \union {[stage |-> 1, acv |-> 0, close |-> 1], [stage |-> 1, acv |-> 10, close |-> 3],
                  [stage |-> Won, acv |-> 0, close |-> 1]}

(* The deals that are scored: each slice moves what one pillar or flag     *)
(* reads, about a deal in mid quarter.                                     *)
MCQuiet == [n |-> 0, hits |-> 0, buyers |-> 0, items |-> 0, bad |-> 0]
MCDeal == [stage |-> "Proposal", icp |-> Blank, locations |-> 50, acv |-> 100, ent |-> TRUE,
           inbound |-> TRUE, idle |-> 3, due |-> 30, inStage |-> 60, turned |-> 60,
           owner |-> "ann", contacts |-> TRUE, products |-> TRUE, calls |-> MCQuiet]
MCStages == DOMAIN StageScores \union {"Renamed"}
MCOwners == {"ann", "bob", "unassigned"}

MCOffered ==
    {[MCDeal EXCEPT !.stage = s, !.idle = i, !.inStage = t, !.turned = t] :
        s \in MCStages, i \in {Blank, -1, 3, 7, 30, 45, 60, 90, 91}, t \in {Blank, 60, 61, 91}}
    \union
    {[MCDeal EXCEPT !.stage = s, !.due = d, !.inStage = t] :
        s \in {"Demo", "Pilot", "Proposal"}, d \in {Blank, -1, 0, 30, 31, 60, 90, 91, 92},
        t \in {60, 61}}
    \union
    {[MCDeal EXCEPT !.icp = i, !.locations = l, !.acv = a, !.owner = o, !.inbound = b,
                    !.contacts = b] :
        i \in {Blank, 0, 100, 200, 1000, 1100, 9000}, l \in {0, 25}, a \in {-100, 100, 150},
        o \in MCOwners, b \in BOOLEAN}
    \union
    {[MCDeal EXCEPT !.icp = i, !.calls = [n |-> 2, hits |-> h, buyers |-> b, items |-> t,
                                          bad |-> m]] :
        i \in {Blank, 9000}, h \in {0, 3, 6}, b \in {1, 2}, t \in {0, 1}, m \in {0, 1}}

MCWeights == [icp |-> 25, stage |-> 30, activity |-> 15, timeline |-> 15, call |-> 15]
MCQuotas == [ann |-> 60, bob |-> 100]

-----------------------------------------------------------------------------
(* The calls: what the classifier and the rubrics tell apart, for one call *)
(* that is graded once; two transcripts and one grade for the weeks.       *)
MCTranscripts ==
    [external : 0 .. 2, short : BOOLEAN, said : {"other", "second_call", "sdr_cold_call"},
     by : {"named"},
     title : {{}, {"first_call"}, {"first_call", "second_call"}, {"follow_up", "internal"},
              {"follow_up"}, {"renewal", "sdr_cold_call"}}]
MCReplies ==
    [readable : {TRUE}, critical : {Unread, 0, 2, 3, 4, 5, 6}, plain : {Unread} \union 0 .. 6,
     missed : SUBSET {"critical", "plain"}]
    \union {[readable |-> FALSE, critical |-> 0, plain |-> 0, missed |-> {}]}

MCHeard == {[external |-> 1, short |-> FALSE, said |-> "other", title |-> {"first_call"},
             by |-> name] : name \in Names \union {"nobody"}}
MCAnswer == [readable |-> FALSE, critical |-> 0, plain |-> 0, missed |-> {}]

(* Of the watched deal no three of these are at once: a move, a second     *)
(* move, a contact who left, a call that names a competitor.               *)
MCWatched == Len(moves) + Cardinality({x \in {<<"contact", champion>>, <<"call", mention>>} : x[2] > 0})
             =< 2

(* Prospects and customers about the thresholds of their scores.           *)
MCLocations == {Unknown, 0, 3, 10, 50}
MCStacks == {{}, {"pos_toast"}, {"pos_toast", "pos_square", "modern_loyalty_platform"},
             {"pos_other_integrated", "modern_loyalty_platform"},
             {"pos_toast", "delivery_platform_integrated"}}
MCHealths == {Unknown, 0, 40, 60, 80, 100}
MCCaseCounts == {<<0, 0>>, <<2, 0>>, <<3, 0>>, <<1, 2>>, <<3, 2>>, <<4, 2>>}

-----------------------------------------------------------------------------

MCParts == {"movers", "forecast", "replay", "weights", "grading", "weeks", "risk", "hygiene",
            "scores"}

MCInit ==
    /\ part \in MCParts
    /\ MoversInit /\ ForecastInit /\ ReplayInit /\ CallInit /\ WatchInit /\ ScoresInit
    /\ part # "replay" => opp.acv = 5 /\ opp.close = 2
    /\ watched.close = 1 /\ (watched.amount = IF part = "risk" THEN 10 ELSE 0)
    /\ part # "hygiene" => watched.touched = 1

MCNext ==
    \/ /\ part = "movers" /\ MoversNext
       /\ \A o \in Edited : deals'[o] \in MCSeen
       /\ UNCHANGED <<part, forecastVars, replayVars, callVars, watchVars, scoreVars>>
    \/ /\ part = "forecast" /\ ForecastNext
       /\ UNCHANGED <<part, moversVars, replayVars, callVars, watchVars, scoreVars>>
    \/ /\ \/ part = "replay" /\ OrgNext
          \/ part = "weights" /\ WeightsNext
       /\ UNCHANGED <<part, moversVars, forecastVars, callVars, watchVars, scoreVars>>
    \/ /\ \/ /\ part = "grading" /\ \A c \in Meetings : ~ HasGrade(c)
             /\ \E c \in Meetings, t \in Transcripts, r \in Replies : GradeCall(c, t, r)
          \/ /\ part = "weeks"
             /\ \/ \E c \in Meetings, t \in MCHeard : GradeCall(c, t, MCAnswer)
                \/ LeaderboardWeekly \/ ScorecardsWeekly \/ SkipTick \/ EndWeek
       /\ UNCHANGED <<part, moversVars, forecastVars, replayVars, watchVars, scoreVars>>
    \/ /\ \/ part = "risk" /\ RiskNext /\ MCWatched'
          \/ part = "hygiene" /\ HygieneNext
       /\ UNCHANGED <<part, moversVars, forecastVars, replayVars, callVars, scoreVars>>
    \/ /\ part = "scores" /\ ScoresNext
       /\ UNCHANGED <<part, moversVars, forecastVars, replayVars, callVars, watchVars>>

MCSpec == MCInit /\ [][MCNext]_<<part, moversVars, forecastVars, replayVars, callVars,
                                 watchVars, scoreVars>>
=============================================================================
