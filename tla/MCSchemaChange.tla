--------------------------- MODULE MCSchemaChange ---------------------------
(***************************************************************************)
(* SchemaChange on small instances, of which the initial state chooses     *)
(* one: two commands that race on the change of a field, or a creation and *)
(* a deletion of it, one command at a time, with time for the cooldown.    *)
(***************************************************************************)
EXTENDS SchemaChange, TLC

CONSTANTS creation, change, deletion

VARIABLE part

OneOfEach == creation :> "create" @@ change :> "modify" @@ deletion :> "delete"

Actions == [b \in Bundles |-> OneOfEach[b]]

MCParts == {"race", "delete"}

MCInit == part \in MCParts /\ Init

RaceBound ==
  /\ \A p \in Procs : proc'[p].bundle \in {change, "none"}
  /\ lastId' <= 2 /\ clock' = 0

DeleteBound ==
  /\ \A p \in Procs : proc'[p].bundle # change
  /\ \E p \in Procs : \A q \in Procs \ {p} : proc'[q] = Idle
  /\ deploysToday' <= 1

MCNext ==
  /\ Next /\ UNCHANGED part
  /\ \/ part = "race" /\ RaceBound
     \/ part = "delete" /\ DeleteBound

MCSpec == MCInit /\ [][MCNext]_<<vars, part>>

ProcSymmetry == Permutations(Procs)
=============================================================================
