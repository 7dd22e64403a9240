---------------------------- MODULE RenewalSweep ----------------------------
(***************************************************************************)
(* agents/cs/renewal/pipeline.py: the daily sweep that opens a Renewal     *)
(* opportunity 120 days before a contract ends, with its stage fallback    *)
(* and its guards against doing so twice.                                  *)
(*                                                                         *)
(* The org's SOQL pre-check, the create and the row in cs_renewal_state    *)
(* are three steps; other sweeps, people who edit opportunities, and a     *)
(* crash come in between.  An account has one contract; the self-approved  *)
(* gate of the create is the one ClosedWonPoller models.                   *)
(***************************************************************************)
EXTENDS Naturals, Sequences, FiniteSets

CONSTANTS
    Customers,      \* accounts
    Cleaners,       \* processes that run the sweep
    Ends,           \* contract end dates
    WindowAhead,    \* WINDOW_DAYS, on the scale of Ends
    Tolerance,      \* WINDOW_TOLERANCE
    LastSweepDay,   \* bound of the clock
    MaxOpps,        \* bound on opportunities
    MaxDied         \* bound on sweeps that die or fail behind the create

ASSUME RenewalAssumption == /\ Ends \subseteq Nat /\ WindowAhead \in Nat
                            /\ Tolerance \in 0 .. WindowAhead /\ LastSweepDay \in Nat
                            /\ MaxOpps \in Nat /\ IsFiniteSet(Customers)

VARIABLES
    opps,       \* the org: opportunities, in the order they were created
    picklist,   \* the org: whether StageName has "Renewal Outreach"
    states,     \* cs_renewal_state: opportunity -> its row
    stageTask,  \* whether the task that asks for the value is open
    renewer,    \* what each sweep is doing
    crossed,    \* history: <<customer, end>> two sweeps worked on at once
    died,       \* history: opportunities whose sweep died or failed behind the create
    sweepDay

renewalVars == <<opps, picklist, states, stageTask, renewer, crossed, died, sweepDay>>

NoRow == [provisional |-> FALSE, there |-> FALSE]
NoSweep == [step |-> "idle", fallback |-> FALSE, todo |-> {}, at |-> <<>>, made |-> 0]

(* Every customer has the open opportunity of its contract.                *)
RenewalInit ==
    /\ opps \in {s \in [1 .. Cardinality(Customers) ->
                          [customer : Customers, end : Ends, renewal : {FALSE},
                           open : {TRUE}, fallback : {FALSE}]] :
                    \A m, n \in DOMAIN s : s[m].customer = s[n].customer => m = n}
    /\ picklist \in BOOLEAN
    /\ states = [n \in 1 .. MaxOpps |-> NoRow]
    /\ stageTask = FALSE
    /\ renewer = [p \in Cleaners |-> NoSweep]
    /\ crossed = {} /\ died = {}
    /\ sweepDay = 0

-----------------------------------------------------------------------------

(* _find_due_opps: any open opportunity whose contract ends in the window, *)
(* by what the loop uses of it.                                            *)
Due == {<<opps[n].customer, opps[n].end>> : n \in
            {m \in DOMAIN opps : /\ opps[m].open
                                 /\ opps[m].end >= sweepDay + WindowAhead - Tolerance
                                 /\ opps[m].end =< sweepDay + WindowAhead + Tolerance}}

(* A pre-check that only counts open renewals.                             *)
Existing_Open(c, end) == {n \in DOMAIN opps : /\ opps[n].customer = c /\ opps[n].renewal
                                              /\ opps[n].end = end /\ opps[n].open}

(* _existing_renewal: closed ones count.                                   *)
Existing(c, end) == {n \in DOMAIN opps : /\ opps[n].customer = c /\ opps[n].renewal
                                         /\ opps[n].end = end}

(* _find_renewal_stage with _open_stage_task, and the query.  The describe *)
(* may fail, and then the preferred stage is taken on trust.               *)
StartRenewals(p, describes) ==
    /\ renewer[p].step = "idle"
    /\ stageTask' = (stageTask \/ (describes /\ ~ picklist))
    /\ renewer' = [renewer EXCEPT ![p] = [NoSweep EXCEPT !.step = "next",
                                              !.fallback = describes /\ ~ picklist,
                                              !.todo = Due]]
    /\ UNCHANGED <<opps, picklist, states, crossed, died, sweepDay>>

(* The pre-check; the end date is the one the query saw.  A renewal that   *)
(* is there gets its row, if it has none (INSERT OR IGNORE).               *)
CheckExisting(p, due) ==
    LET found == Existing(due[1], due[2])
        busy == {q \in Cleaners \ {p} : renewer[q].step \in {"create", "persist"}
                                        /\ renewer[q].at = due}
    IN
    /\ renewer[p].step = "next" /\ due \in renewer[p].todo
    /\ \/ /\ found = {}
          /\ renewer' = [renewer EXCEPT ![p].step = "create", ![p].at = due,
                                        ![p].todo = @ \ {due}]
          /\ UNCHANGED states
       \/ \E n \in found :
          /\ states' = IF states[n].there THEN states
                       ELSE [states EXCEPT ![n] = [there |-> TRUE,
                                                   provisional |-> renewer[p].fallback]]
          /\ renewer' = [renewer EXCEPT ![p].todo = @ \ {due}]
    /\ crossed' = IF busy # {} THEN crossed \union {due} ELSE crossed
    /\ UNCHANGED <<opps, picklist, stageTask, died, sweepDay>>

NextDue(p) == renewer' = [renewer EXCEPT ![p].step = "next", ![p].at = <<>>, ![p].made = 0]

(* The create.  It may fail (an unknown picklist value, a network error:   *)
(* the loop's except goes on), or fail behind the org's back.              *)
CreateRenewal(p, outcome) ==
    /\ renewer[p].step = "create"
    /\ outcome = "unanswered" => Cardinality(died) < MaxDied
    /\ IF outcome = "refused"
       THEN UNCHANGED <<opps, died>>
       ELSE /\ Len(opps) < MaxOpps
            /\ opps' = Append(opps, [customer |-> renewer[p].at[1], end |-> renewer[p].at[2],
                                     renewal |-> TRUE, open |-> TRUE,
                                     fallback |-> renewer[p].fallback])
            /\ died' = IF outcome = "unanswered" THEN died \union {Len(opps) + 1} ELSE died
    /\ IF outcome = "created"
       THEN renewer' = [renewer EXCEPT ![p].step = "persist", ![p].made = Len(opps) + 1]
       ELSE NextDue(p)
    /\ UNCHANGED <<picklist, states, stageTask, crossed, sweepDay>>

(* A row that asks the picklist again.                                     *)
StateRow_Fresh(p) == [there |-> TRUE, provisional |-> ~ picklist]

(* The row of _persist_state.                                              *)
StateRow(p) == [there |-> TRUE, provisional |-> renewer[p].fallback]

(* _state_exists, then _persist_state.                                     *)
PersistState(p) ==
    LET n == renewer[p].made IN
    /\ renewer[p].step = "persist"
    /\ states' = IF states[n].there THEN states ELSE [states EXCEPT ![n] = StateRow(p)]
    /\ NextDue(p)
    /\ UNCHANGED <<opps, picklist, stageTask, crossed, died, sweepDay>>

FinishSweep(p) ==
    /\ renewer[p].step = "next" /\ renewer[p].todo = {}
    /\ renewer' = [renewer EXCEPT ![p] = NoSweep]
    /\ UNCHANGED <<opps, picklist, states, stageTask, crossed, died, sweepDay>>

KillRenewer(p) ==
    /\ renewer[p].step # "idle"
    /\ renewer[p].step = "persist" => Cardinality(died) < MaxDied
    /\ died' = IF renewer[p].step = "persist" THEN died \union {renewer[p].made} ELSE died
    /\ renewer' = [renewer EXCEPT ![p] = NoSweep]
    /\ UNCHANGED <<opps, picklist, states, stageTask, crossed, sweepDay>>

-----------------------------------------------------------------------------
(* People and the org                                                      *)

Close(n) ==
    /\ opps[n].open
    /\ opps' = [opps EXCEPT ![n].open = FALSE]
    /\ UNCHANGED <<picklist, states, stageTask, renewer, crossed, died, sweepDay>>

(* The contract is extended: its own opportunity has a later end date.     *)
MoveEnd(n, end) ==
    /\ ~ opps[n].renewal /\ opps[n].end < end
    /\ opps' = [opps EXCEPT ![n].end = end]
    /\ UNCHANGED <<picklist, states, stageTask, renewer, crossed, died, sweepDay>>

AddPicklistValue ==
    /\ ~ picklist
    /\ picklist' = TRUE /\ stageTask' = FALSE
    /\ UNCHANGED <<opps, states, renewer, crossed, died, sweepDay>>

NextSweepDay ==
    /\ sweepDay < LastSweepDay
    /\ sweepDay' = sweepDay + 1
    /\ UNCHANGED <<opps, picklist, states, stageTask, renewer, crossed, died>>

RenewalNext ==
    \/ \E p \in Cleaners :
        \/ PersistState(p) \/ FinishSweep(p) \/ KillRenewer(p)
        \/ \E describes \in BOOLEAN : StartRenewals(p, describes)
        \/ \E due \in renewer[p].todo : CheckExisting(p, due)
        \/ \E outcome \in {"created", "refused", "unanswered"} : CreateRenewal(p, outcome)
    \/ \E n \in DOMAIN opps :
        \/ Close(n)
        \/ \E end \in Ends : MoveEnd(n, end)
    \/ AddPicklistValue
    \/ NextSweepDay

RenewalSpec == RenewalInit /\ [][RenewalNext]_renewalVars

-----------------------------------------------------------------------------

RenewalTypeOK ==
    /\ \A n \in DOMAIN opps : opps[n].customer \in Customers /\ opps[n].end \in Ends
    /\ \A p \in Cleaners : /\ renewer[p].step \in {"idle", "next", "create", "persist"}
                           /\ renewer[p].todo \subseteq Customers \X Ends
                           /\ renewer[p].made \in 0 .. Len(opps)
    /\ sweepDay \in 0 .. LastSweepDay

Created == {n \in DOMAIN opps : opps[n].renewal}

(* A contract end is renewed once: sweeps that die behind the create, that *)
(* are not answered, that run again the same day or on any day of the      *)
(* window, and renewals closed in the meantime make no second opportunity  *)
(* with the same end date, unless two sweeps are at work on it at once     *)
(* (_existing_renewal, _create_renewal_opp).                               *)
RenewedOnce ==
    \A m, n \in Created :
        m # n => \/ opps[m].customer # opps[n].customer \/ opps[m].end # opps[n].end
                 \/ <<opps[m].customer, opps[m].end>> \in crossed

(* A renewal under a stage it should not have is provisional in            *)
(* cs_renewal_state, for CS to reconcile it later; only one whose sweep    *)
(* died or was not answered may be rowed by a later sweep that sees        *)
(* another picklist, or by a sweep that worked beside it.                  *)
FallbackIsProvisional ==
    \A n \in Created \ died :
        (<<opps[n].customer, opps[n].end>> \notin crossed /\ states[n].there) =>
            states[n].provisional = opps[n].fallback

(* What the renewal sweep keeps: one renewal for a contract's end, known   *)
(* as provisional where its stage is (pipeline.py).                        *)
RenewalInv == RenewalTypeOK /\ RenewedOnce /\ FallbackIsProvisional
=============================================================================
