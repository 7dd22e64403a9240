---------------------------- MODULE MCSalesJobs ----------------------------
(***************************************************************************)
(* SalesJobs on a small instance: one rep, whose name the transcript of    *)
(* the first call gives and that of the others does not, and limits of     *)
(* one use.                                                                *)
(***************************************************************************)
EXTENDS SalesJobs, TLC

CONSTANTS c1, o1, rep, slack, launchd

Limits == Grader :> 1 @@ SyncAlert :> 1
Periods == [b \in Buckets |-> 1]
Reps_ == [c \in Calls |-> rep]
Names == [c \in Calls |-> IF c = c1 THEN "named" ELSE "unnamed"]

\* Slack's processes and launchd's do the same; only the kind of a job matters.
Symmetry == Permutations(Callers)
=============================================================================
