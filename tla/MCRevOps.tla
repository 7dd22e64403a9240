------------------------------ MODULE MCRevOps ------------------------------
(* Operations of agents/revops_support, and the caches of what the agents  *)
(* read: they share no variable and are checked in one run, whose initial  *)
(* state chooses the one that moves.                                       *)
EXTENDS RoleCanary, KnowledgeRefresh, UserAccess, ReviewTasks, ReadCaches, TLC

CONSTANTS p1, p2

VARIABLE part

(* Both objects; a changed object beside one whose describe failed.         *)
MCWritten ==
    {[named |-> {1, 2}, body |-> <<1, 1>>], [named |-> {1, 2}, body |-> <<2, 0>>]}

(* The digest and the corpus have only the canonical file in common: while *)
(* a digest stands, nothing has been ingested.                              *)
MCApart == told = 0 \/ corpus = << >>

MCObjectOf == [r1 |-> "Account", r2 |-> "Account"]

MCParts == {"canary", "knowledge", "provision", "offboard", "tasks", "caches"}

MCInit ==
    /\ part \in MCParts
    /\ CanaryInit /\ KnowledgeInit /\ AccessInit /\ ReviewInit /\ CacheInit
    /\ part = "provision" <=> status["ann"] = "absent"
    /\ part # "provision" => ownerOf["r1"] = "ann"
    /\ part \notin {"provision", "offboard"} => ownerOf["r2"] = "ann"
    /\ part # "tasks" => visible /\ \A r \in Rules : rules[r].names = {}

MCNext ==
    \/ /\ part = "canary" /\ CanaryNext
       /\ UNCHANGED <<part, knowledgeVars, accessVars, reviewVars, cacheVars>>
    \/ /\ part = "knowledge" /\ KnowledgeNext /\ MCApart'
       /\ UNCHANGED <<part, canaryVars, accessVars, reviewVars, cacheVars>>
    \/ /\ \/ part = "provision" /\ ProvisionNext
          \/ part = "offboard" /\ OffboardNext
       /\ UNCHANGED <<part, canaryVars, knowledgeVars, reviewVars, cacheVars>>
    \/ /\ part = "tasks" /\ ReviewNext
       /\ UNCHANGED <<part, canaryVars, knowledgeVars, accessVars, cacheVars>>
    \/ /\ part = "caches" /\ CacheNext
       /\ UNCHANGED <<part, canaryVars, knowledgeVars, accessVars, reviewVars>>

MCSpec == MCInit /\ [][MCNext]_<<part, canaryVars, knowledgeVars, accessVars,
                                 reviewVars, cacheVars>>

(* Stewards, jobs, polls and reads are alike.                              *)
Symmetry == Permutations({p1, p2})
=============================================================================
