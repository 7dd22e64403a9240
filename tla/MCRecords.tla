----------------------------- MODULE MCRecords ------------------------------
(* The jobs that write records of the org, or hand an approved request on  *)
(* to it: they share no variable and are checked in one run, whose initial *)
(* state chooses the one that moves.                                       *)
EXTENDS GatedWrites, RenewalSweep, BulkUpdate, RecordDedup, TLC

CONSTANTS p1, p2

VARIABLE part

MCParts == {"gated", "renewals", "bulk", "dedup"}

MCInit ==
    /\ part \in MCParts
    /\ GatedInit /\ RenewalInit /\ BulkInit /\ DedupInit
    /\ part # "renewals" => picklist
    /\ \A n \in DOMAIN opps : opps[n].end = 3
    /\ part # "dedup" => /\ sobject = "Contact"
                         /\ \A r \in Records : found[r] = [domain |-> Nowhere, city |-> Nowhere,
                                                           weight |-> 0]

MCNext ==
    \/ /\ part = "gated" /\ GatedNext
       /\ UNCHANGED <<part, renewalVars, bulkVars, dedupVars>>
    \/ /\ part = "renewals" /\ RenewalNext
       /\ UNCHANGED <<part, gatedVars, bulkVars, dedupVars>>
    \/ /\ part = "bulk" /\ BulkNext
       /\ UNCHANGED <<part, gatedVars, renewalVars, dedupVars>>
    \/ /\ part = "dedup" /\ DedupNext
       /\ UNCHANGED <<part, gatedVars, renewalVars, bulkVars>>

MCSpec == MCInit /\ [][MCNext]_<<part, gatedVars, renewalVars, bulkVars, dedupVars>>

(* The processes are alike; the two jobs of a bulk update are numbers.     *)
Symmetry == Permutations({p1, p2})
=============================================================================
