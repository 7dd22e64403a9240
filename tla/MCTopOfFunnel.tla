--------------------------- MODULE MCTopOfFunnel ---------------------------
(* The parts of agents/top_of_funnel share no variable and are checked in  *)
(* one run: the initial state chooses the part that moves.                 *)
EXTENDS SuppressionCache, LeadPipeline, LeadRouting, ClayBudget, TLC

CONSTANTS d1, d2, p1, p2, s1, dflt

VARIABLE part

MCAnswers == {<<{d1}, {d1}>>, <<{d1, d2}>>, <<{}>>}
MCGrade == [d \in {d1, d2} |-> IF d = d1 THEN "primary" ELSE "explore"]
MCRotation == <<"a", "b", "c">>

MCParts == {"suppression", "leads", "routing", "clay"}

MCInit ==
    /\ part \in MCParts
    /\ SuppressionInit /\ LeadInit /\ RoutingInit /\ ClayInit
    /\ part # "leads" => apollo = <<{}>>
    /\ part # "clay" => \A c \in Caps : budget =< c

MCNext ==
    \/ /\ part = "suppression" /\ SuppressionNext
       /\ UNCHANGED <<part, leadVars, routingVars, clayVars>>
    \/ /\ part = "leads" /\ LeadNext
       /\ UNCHANGED <<part, suppressionVars, routingVars, clayVars>>
    \/ /\ part = "routing" /\ RoutingNext
       /\ UNCHANGED <<part, suppressionVars, leadVars, clayVars>>
    \/ /\ part = "clay" /\ ClayNext
       /\ UNCHANGED <<part, suppressionVars, leadVars, routingVars>>

MCSpec == MCInit /\ [][MCNext]_<<part, suppressionVars, leadVars, routingVars, clayVars>>

(* The nightly runner and the one of the command differ; the other         *)
(* processes are alike.                                                    *)
Symmetry == Permutations({p1, p2})
=============================================================================
