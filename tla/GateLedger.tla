---------------------------- MODULE GateLedger ----------------------------
(***************************************************************************)
(* What shared/governance.py promises of the table approval_gates, said    *)
(* without transactions, processes or a clock: a gate is requested, people *)
(* cast ballots on it, and it is settled at most once, on ballots that     *)
(* were really cast.  ApprovalGates implements this module.                *)
(***************************************************************************)
EXTENDS FiniteSets, Naturals

CONSTANTS
  Gates,     \* gate ids
  People     \* whoever may cast a ballot

Kinds == {"single", "dual", "cooldown", "confirm"}
Outcomes == {"none", "open", "granted", "cooling", "refused"}
Ballots == [approver : People, approved : BOOLEAN]

VARIABLES
  kind,      \* what a gate's tier asks for
  about,     \* the gate a confirmation gate confirms, else 0
  ballots,   \* the ballots cast on each gate
  outcome

ledgerVars == <<kind, about, ballots, outcome>>

Init ==
  /\ kind = [g \in Gates |-> "single"]
  /\ about = [g \in Gates |-> 0]
  /\ ballots = [g \in Gates |-> {}]
  /\ outcome = [g \in Gates |-> "none"]

\* A gate is opened; a confirmation only for a gate whose approval is cooling.
Request(g, k, subject) ==
  /\ outcome[g] = "none"
  /\ IF k = "confirm" THEN subject \in Gates /\ outcome[subject] = "cooling"
     ELSE subject = 0
  /\ kind' = [kind EXCEPT ![g] = k]
  /\ about' = [about EXCEPT ![g] = subject]
  /\ outcome' = [outcome EXCEPT ![g] = "open"]
  /\ UNCHANGED ballots

Cast(g, b) ==
  /\ outcome[g] # "none"
  /\ ballots' = [ballots EXCEPT ![g] = @ \cup {b}]
  /\ UNCHANGED <<kind, about, outcome>>

Yes(g) == {p \in People : [approver |-> p, approved |-> TRUE] \in ballots[g]}
No(g) == {p \in People : [approver |-> p, approved |-> FALSE] \in ballots[g]}

\* The outcomes the ballots cast on an open gate justify.
Justified(g) ==
  {o \in {"granted", "cooling", "refused"} :
     \/ o = "refused" /\ No(g) # {}
     \/ o = "cooling" /\ kind[g] = "cooldown" /\ Yes(g) # {}
     \/ o = "granted" /\ kind[g] \in {"single", "confirm"} /\ Yes(g) # {}
     \/ o = "granted" /\ kind[g] = "dual"
          /\ \E p, q \in Yes(g) : p # q}

Settle(g) ==
  /\ outcome[g] = "open"
  /\ \E o \in Justified(g) : outcome' = [outcome EXCEPT ![g] = o]
  /\ UNCHANGED <<kind, about, ballots>>

Next ==
  \E g \in Gates :
    \/ \E k \in Kinds, s \in Gates \cup {0} : Request(g, k, s)
    \/ \E b \in Ballots : Cast(g, b)
    \/ Settle(g)

Spec == Init /\ [][Next]_ledgerVars
=============================================================================
