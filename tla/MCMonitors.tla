----------------------------- MODULE MCMonitors -----------------------------
(* The sweeps and pollers that watch the org and speak up: they share no   *)
(* variable and are checked in one run, whose initial state chooses the    *)
(* one that moves.                                                         *)
EXTENDS SignalMonitors, IntegrationHealth, StallAlerts, MetadataDrift, TLC

CONSTANTS p1, p2

VARIABLE part

MCParts == {"signals", "health", "stalls", "drift"}

MCInit ==
    /\ part \in MCParts
    /\ MonitorInit /\ HealthInit /\ StallInit /\ DriftInit
    /\ part # "signals" => monitor = Board
    /\ part # "health" => integration = "salesforce" /\ answer = "failed" /\ shape = "row"

MCNext ==
    \/ /\ part = "signals" /\ MonitorNext
       /\ UNCHANGED <<part, healthVars, stallVars, driftVars>>
    \/ /\ part = "health" /\ HealthNext
       /\ UNCHANGED <<part, monitorVars, stallVars, driftVars>>
    \/ /\ part = "stalls" /\ StallNext
       /\ UNCHANGED <<part, monitorVars, healthVars, driftVars>>
    \/ /\ part = "drift" /\ DriftNext
       /\ UNCHANGED <<part, monitorVars, healthVars, stallVars>>

MCSpec == MCInit /\ [][MCNext]_<<part, monitorVars, healthVars, stallVars, driftVars>>

(* launchd's process and one started by hand are alike.                    *)
Symmetry == Permutations({p1, p2})
=============================================================================
