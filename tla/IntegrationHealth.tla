------------------------- MODULE IntegrationHealth --------------------------
(***************************************************************************)
(* The two integration health pollers, agents/oo/integration_health.py and *)
(* agents/cs/integration_health.py: what each probe makes of an answer,    *)
(* the row in integration_health, and what a change of status sets off (a  *)
(* DM of O's poller, a task of CS's).  Integrations share nothing but the  *)
(* poll that goes through them, so a behaviour follows one of them.        *)
(***************************************************************************)
EXTENDS Naturals, FiniteSets

CONSTANTS
    Pollers,        \* processes that poll
    CountShapes     \* how the org answers SELECT COUNT(Id) c, see Total

ASSUME ShapesAssumption == CountShapes \subseteq {"total", "row"} /\ CountShapes # {}

VARIABLES
    integration,    \* the integration followed
    shape,          \* how this org answers a count
    answer,         \* the world: what a probe would meet now
    health,         \* integration_health: the status of the latest row
    poller,         \* what each poll is doing
    openTask,       \* whether an open task of CS names the integration
    told,           \* history: the status that a task or DM last spoke of
    bornBad,        \* history: unhealthy since its very first row
    unheard         \* history: a poll died behind its row, or two overlapped

healthVars == <<integration, shape, answer, health, poller, openTask, told, bornBad, unheard>>

OOIntegrations == {"salesforce", "fireflies", "slack", "momentum", "vitally", "clay"}
CSIntegrations == {"cs_vitally", "cs_momentum_sync", "cs_nps_freshness"}
Integrations == OOIntegrations \union CSIntegrations

Statuses == {"healthy", "degraded", "down"}

Answers(n) ==
    CASE n \in {"momentum", "cs_momentum_sync"} -> {"failed", "zero", "some", "closed"}
      [] n = "salesforce" -> {"failed", "zero", "some"}
      [] n = "cs_nps_freshness" -> {"no accounts", "few", "many"}
      [] n \in {"fireflies", "cs_vitally"} -> {"no key", "failed", "ok"}
      [] n = "slack" -> {"no key", "failed", "not ok", "ok"}
      [] n = "clay" -> {"no key", "failed", "auth", "other", "ok"}
      [] n = "vitally" -> {"no key", "failed", "auth", "other", "unreadable", "stale", "ok"}

-----------------------------------------------------------------------------
(* The probes                                                              *)

(* SELECT COUNT(Id) c: totalSize is the count, or one row holds it.        *)
Total(a) == IF shape = "row" THEN 1 ELSE IF a = "zero" THEN 0 ELSE 2

ClassifyResponse(a) == CASE a = "ok" -> "healthy" [] a = "auth" -> "down" [] OTHER -> "degraded"

CheckSalesforce(a) ==
    CASE a = "failed" -> "down"
      [] a # "failed" /\ Total(a) # 0 -> "healthy"
      [] OTHER -> "degraded"

(* A probe with a status of its own for a missing key.                     *)
CheckKeyed_Unknown(a) ==
    CASE a = "no key" -> "unknown" [] a = "ok" -> "healthy" [] OTHER -> "down"

CheckKeyed(a) ==
    CASE a = "no key" -> "degraded" [] a = "ok" -> "healthy" [] OTHER -> "down"

(* Nooks and Apollo alike.                                                 *)
CheckClay(a) ==
    CASE a = "no key" -> "degraded" [] a = "failed" -> "down" [] OTHER -> ClassifyResponse(a)

CheckVitally(a) ==
    CASE a \in {"stale", "unreadable"} -> "degraded" [] OTHER -> CheckClay(a)

CheckMomentum(a) ==
    CASE a = "closed" -> "healthy"
      [] a = "failed" -> "degraded"
      [] a \in {"zero", "some"} -> IF Total(a) = 0 THEN "down" ELSE "healthy"

CheckMomentumSync(a) ==
    CASE a = "failed" -> "degraded"
      [] a # "failed" /\ Total(a) # 0 -> "healthy"
      [] OTHER -> "down"

CheckNpsFreshness(a) == IF a = "many" THEN "healthy" ELSE "degraded"

StatusOf(n, a) ==
    CASE n = "salesforce" -> CheckSalesforce(a)
      [] n \in {"fireflies", "slack", "cs_vitally"} -> CheckKeyed(a)
      [] n = "momentum" -> CheckMomentum(a)
      [] n = "vitally" -> CheckVitally(a)
      [] n = "clay" -> CheckClay(a)
      [] n = "cs_momentum_sync" -> CheckMomentumSync(a)
      [] n = "cs_nps_freshness" -> CheckNpsFreshness(a)

-----------------------------------------------------------------------------

NoPoll == [step |-> "idle", met |-> "none", status |-> "healthy", prior |-> "none"]

HealthInit ==
    /\ integration \in Integrations
    /\ shape \in CountShapes
    /\ answer \in Answers(integration)
    /\ health = "none"
    /\ poller = [p \in Pollers |-> NoPoll]
    /\ openTask = FALSE
    /\ told = "none"
    /\ bornBad = FALSE /\ unheard = FALSE

Busy == {p \in Pollers : poller[p].step # "idle"}

Probe(p) ==
    /\ poller[p].step = "idle"
    /\ poller' = [poller EXCEPT ![p] = [NoPoll EXCEPT !.step = "read", !.met = answer,
                                            !.status = StatusOf(integration, answer)]]
    /\ unheard' = (unheard \/ Busy # {})
    /\ UNCHANGED <<integration, shape, answer, health, openTask, told, bornBad>>

(* The SELECT of _record.                                                  *)
ReadPrior(p) ==
    /\ poller[p].step = "read"
    /\ poller' = [poller EXCEPT ![p].step = "write", ![p].prior = health]
    /\ UNCHANGED <<integration, shape, answer, health, openTask, told, bornBad, unheard>>

(* A change from healthy alone.                                            *)
Changed_FromHealthy(p) == poller[p].prior = "healthy" /\ poller[p].status # "healthy"

Changed(p) == poller[p].prior \notin {"none", poller[p].status}

(* Its INSERT, which O's poller leaves out when nothing changed.  What     *)
(* follows is decided by the row that was read.                            *)
RecordHealth(p) ==
    /\ poller[p].step = "write"
    /\ health' = poller[p].status
    /\ poller' = [poller EXCEPT ![p] =
                    IF Changed(p) /\ poller[p].status # "healthy"
                    THEN [poller[p] EXCEPT !.step = "tell"] ELSE NoPoll]
    /\ bornBad' = IF poller[p].prior = "none" THEN poller[p].status # "healthy"
                  ELSE bornBad /\ health = poller[p].status
    /\ told' = IF poller[p].status = "healthy" THEN "none" ELSE told
    /\ UNCHANGED <<integration, shape, answer, openTask, unheard>>

(* _alert_o_dm, whose failure is logged only; or _open_task, which leaves  *)
(* an open task as it is.                                                  *)
TellO(p, sent) ==
    /\ poller[p].step = "tell" /\ integration \in OOIntegrations
    /\ told' = IF sent THEN poller[p].status ELSE told
    /\ unheard' = (unheard \/ ~ sent)
    /\ poller' = [poller EXCEPT ![p] = NoPoll]
    /\ UNCHANGED <<integration, shape, answer, health, openTask, bornBad>>

OpenTask(p) ==
    /\ poller[p].step = "tell" /\ integration \in CSIntegrations
    /\ openTask' = TRUE
    /\ told' = poller[p].status
    /\ poller' = [poller EXCEPT ![p] = NoPoll]
    /\ UNCHANGED <<integration, shape, answer, health, bornBad, unheard>>

KillPoll(p) ==
    /\ poller[p].step # "idle"
    /\ poller' = [poller EXCEPT ![p] = NoPoll]
    /\ unheard' = (unheard \/ poller[p].step = "tell")
    /\ UNCHANGED <<integration, shape, answer, health, openTask, told, bornBad>>

CompleteHealthTask ==
    /\ openTask
    /\ openTask' = FALSE
    /\ UNCHANGED <<integration, shape, answer, health, poller, told, bornBad, unheard>>

WorldChanges(a) ==
    /\ a # answer
    /\ answer' = a
    /\ UNCHANGED <<integration, shape, health, poller, openTask, told, bornBad, unheard>>

HealthNext ==
    \/ \E p \in Pollers :
        \/ Probe(p) \/ ReadPrior(p) \/ RecordHealth(p) \/ OpenTask(p) \/ KillPoll(p)
        \/ \E sent \in BOOLEAN : TellO(p, sent)
    \/ CompleteHealthTask
    \/ \E a \in Answers(integration) : WorldChanges(a)

HealthSpec == HealthInit /\ [][HealthNext]_healthVars

-----------------------------------------------------------------------------

HealthTypeOK ==
    /\ integration \in Integrations /\ answer \in Answers(integration)
    /\ health \in Statuses \union {"none"} /\ told \in Statuses \union {"none"}
    /\ \A p \in Pollers : /\ poller[p].step \in {"idle", "read", "write", "tell"}
                          /\ poller[p].status \in Statuses

(* An unhealthy row was spoken of: O had a DM that names its status, or a  *)
(* task of CS was opened in this spell or was open still.  What goes by    *)
(* unheard is an integration that was unhealthy at its very first poll,    *)
(* and the change whose poll died, whose DM failed, or that two polls saw  *)
(* at once (_record, poll).                                                *)
UnhealthyIsTold ==
    \/ health \in {"none", "healthy"} \/ bornBad \/ unheard \/ Busy # {}
    \/ /\ told # "none"
       /\ integration \in OOIntegrations => told = health

(* "silent-break detector": a poll that met no Momentum task in its window *)
(* does not take the sync for healthy (_check_momentum_sync).              *)
SilentBreakIsSeen ==
    \A p \in Pollers :
        integration = "cs_momentum_sync" /\ poller[p].met = "zero"
            => poller[p].status = "down"

(* What the health pollers keep: an integration that turned bad is spoken  *)
(* of (_record, poll).                                                     *)
HealthInv == HealthTypeOK /\ UnhealthyIsTold
=============================================================================
