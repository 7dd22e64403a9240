---------------------------- MODULE LeadPipeline ----------------------------
(***************************************************************************)
(* Top of Funnel's night and morning: enrichment/pipeline.py with          *)
(* sf_lead_writer.create_lead, which finds accounts, checks, scores,       *)
(* routes, buffers and writes them, and daily_briefing.py, which tells the *)
(* SDRs what the latest run left in the buffer.                            *)
(*                                                                         *)
(* A runner is the nightly cron or `@oo tof enrich <domain>`, a briefer    *)
(* the morning cron or `@oo tof daily`.  They are processes: they overlap  *)
(* and may be killed.  Three answers the run asks for come from elsewhere  *)
(* and may be any: whether an address is suppressed (SuppressionCache),    *)
(* which grade the score gives (ProspectScores), and which SDR the         *)
(* rotation has come to (LeadRouting).                                     *)
(***************************************************************************)
EXTENDS Naturals, Sequences, FiniteSets

CONSTANTS
    Domains,        \* accounts Apollo may return
    Addressed,      \* those whose decision maker has an address
    Runners,        \* processes that call run_pipeline
    Nightly,        \* the runner cron starts
    Briefers,
    Grade,          \* account -> "primary" (A, B), "explore" (C or D from
                    \*   _EXPLORATION_MIN_SCORE up) or "low"
    Sdrs,           \* members of the rotations, fresh in the user cache
    Fallback,       \* default_owner_id
    Nobody,         \* a row without an SDR
    Reachable,      \* SDRs with a Slack id in territory.yaml
    NightHour,      \* hour of the day of the nightly cron
    DayHours,
    StaleHours,     \* stale_threshold_hours
    SmallGate,      \* _SMALL_GATE_THRESHOLD
    PerSdr,         \* _EXPLORATION_MAX
    Answers,        \* bound: what Apollo may return, run after run
    MaxClock, MaxLeads, MaxKills, MaxTold  \* bounds

ASSUME AnswersAssumption == Answers \subseteq Seq(SUBSET Domains) /\ \E a \in Answers : a # <<>>
ASSUME AddressedAssumption == Addressed \subseteq Domains
ASSUME SdrAssumption == Reachable \subseteq Sdrs /\ Fallback \notin Sdrs
ASSUME NightlyAssumption == Nightly \in Runners
ASSUME LeadBounds == MaxClock \in Nat /\ MaxLeads \in Nat

VARIABLES
    apollo,     \* what each search will return
    runs,       \* tof_enrichment_runs, in the order of their ids
    rows,       \* tof_lead_candidates: <<run, account>> -> row
    leads,      \* the org: account -> number of Leads with its address
    pipe,       \* what each runner is doing
    brief,      \* what each briefer is doing
    told,       \* history: <<run, account>> -> DMs that named it
    barred,     \* history: rows the check of their run called suppressed
    excused,    \* history: rows whose second DM the code cannot exclude
    unprobed,   \* history: addresses written without a duplicate probe
    kills,
    clock       \* hours

leadVars == <<apollo, runs, rows, leads, pipe, brief, told, barred, excused, unprobed,
              kills, clock>>

Runs == UNION {DOMAIN a : a \in Answers}
Keys == Runs \X Domains
Owners == Sdrs \union {Fallback}
Outcomes == {"ready", "suppressed", "error"}
RunRow == [status : {"running", "success", "partial", "error"}, done : 0 .. MaxClock]
Candidate == [status : {"absent", "ready", "suppressed", "briefed"},
              failed : BOOLEAN, sdr : Owners \union {Nobody}, lead : BOOLEAN]
NoCandidate == [status |-> "absent", failed |-> FALSE, sdr |-> Nobody, lead |-> FALSE]
IdlePipe == [step |-> "idle", run |-> 1, todo |-> {}, found |-> {}, outcome |-> <<>>,
             dry |-> TRUE, injected |-> FALSE, errors |-> FALSE, tier |-> "none",
             at |-> "none"]
IdleBrief == [step |-> "idle", run |-> 1, share |-> <<>>, todo |-> {}, mark |-> {}]

LeadInit ==
    /\ apollo \in Answers
    /\ runs = <<>>
    /\ rows = [k \in Keys |-> NoCandidate]
    /\ leads = [d \in Domains |-> 0]
    /\ pipe = [p \in Runners |-> IdlePipe]
    /\ brief = [b \in Briefers |-> IdleBrief]
    /\ told = [k \in Keys |-> 0]
    /\ barred = {}
    /\ excused = {}
    /\ unprobed = {}
    /\ kills = 0
    /\ clock = 0

-----------------------------------------------------------------------------
(* run_pipeline                                                            *)

RowsOf(r, status) == {d \in Domains : rows[<<r, d>>].status = status}

(* _open_run and the Apollo search; an empty answer closes the run.  The   *)
(* command passes one domain and never writes; the cron writes.  Only the  *)
(* integration tests and scripts hand in a create_fn of their own.         *)
StartRun(p, injected) ==
    LET r == Len(runs) + 1
        found == apollo[r]
        dry == p # Nightly IN
    /\ pipe[p].step = "idle" /\ r \in DOMAIN apollo
    /\ p = Nightly => clock % DayHours = NightHour
    /\ dry => Cardinality(found) =< 1 /\ ~ injected
    /\ runs' = Append(runs, [status |-> "running", done |-> 0])
    /\ pipe' = [pipe EXCEPT ![p] =
                  [IdlePipe EXCEPT !.step = IF found = {} THEN "close" ELSE "enrich",
                                   !.run = r, !.found = found,
                                   !.outcome = [d \in found |-> "error"],
                                   !.dry = dry, !.injected = injected]]
    /\ UNCHANGED <<apollo, rows, leads, brief, told, barred, excused, unprobed, kills, clock>>

(* _enrich_one_account for all of them: an exception makes an account an   *)
(* error, one without an address is not checked for suppression.           *)
Gather(p) ==
    /\ pipe[p].step = "enrich"
    /\ \E outcome \in [pipe[p].found -> Outcomes] :
        /\ \A d \in pipe[p].found \ Addressed : outcome[d] # "suppressed"
        /\ pipe' = [pipe EXCEPT ![p].step = "buffer", ![p].outcome = outcome,
                      ![p].errors = \E d \in pipe[p].found : outcome[d] = "error"]
    /\ UNCHANGED <<apollo, runs, rows, leads, brief, told, barred, excused, unprobed, kills, clock>>

(* A buffer that keeps every candidate.                                    *)
CandidateRow_KeepsAll(outcome, owner) ==
    [status |-> "ready", failed |-> outcome = "error", sdr |-> owner, lead |-> FALSE]

(* assign_owner for what is neither suppressed nor an error, which may     *)
(* raise, and _buffer_candidate for all: errors are buffered as ready.     *)
CandidateRow(outcome, owner) ==
    [status |-> IF outcome = "suppressed" THEN "suppressed" ELSE "ready",
     failed |-> outcome = "error", sdr |-> owner, lead |-> FALSE]

(* Row after row; an exception leaves the rows so far, and the run fails.  *)
Buffer(p) ==
    LET c == pipe[p] IN
    /\ c.step = "buffer"
    /\ \E owner \in [c.found -> Owners \union {Nobody}], done \in SUBSET c.found :
        /\ \A d \in c.found : /\ c.outcome[d] # "ready" => owner[d] = Nobody
                              /\ owner[d] = Fallback => Sdrs = {}
        /\ rows' = [k \in Keys |-> IF k[1] = c.run /\ k[2] \in done
                                   THEN CandidateRow(c.outcome[k[2]], owner[k[2]])
                                   ELSE rows[k]]
        /\ barred' = barred \union {<<c.run, d>> : d \in {e \in done : c.outcome[e] = "suppressed"}}
        /\ pipe' = [pipe EXCEPT ![p].step = IF done = c.found THEN "gate" ELSE "failed"]
    /\ UNCHANGED <<apollo, runs, leads, brief, told, excused, unprobed, kills, clock>>

(* _create_run_gate: nothing to approve for a single row.                  *)
GateTier(n) == IF n < 2 THEN "none"
               ELSE IF n < SmallGate THEN "bulk_update_small" ELSE "bulk_update_large"

Writable(r) == {d \in RowsOf(r, "ready") : ~ rows[<<r, d>>].lead}

OpenGate(p) ==
    /\ pipe[p].step = "gate"
    /\ pipe' = [pipe EXCEPT
                  ![p].step = IF pipe[p].dry THEN "close" ELSE "write",
                  ![p].errors = pipe[p].errors /\ ~ pipe[p].dry,
                  ![p].tier = IF pipe[p].dry THEN "none"
                              ELSE GateTier(Cardinality(Writable(pipe[p].run))),
                  ![p].todo = IF pipe[p].dry THEN {} ELSE Writable(pipe[p].run)]
    /\ UNCHANGED <<apollo, runs, rows, leads, brief, told, barred, excused,
                   unprobed, kills, clock>>

(* A probe for Contacts only.                                              *)
Duplicate_Contacts(p, d) == FALSE

(* check_duplicate on the address, unless the run has no sf_query of its   *)
(* own (skip_dedup) or the probe raises: both let the write through.  A    *)
(* Lead without an address is never found.                                 *)
Duplicate(p, d) == pipe[p].injected /\ d \in Addressed /\ leads[d] > 0

(* create_record demands an approved single_record_update gate.            *)
Accepted(p) == pipe[p].injected \/ pipe[p].tier = "single_record_update"

(* create_lead: a duplicate is marked (_mark_dedup); a refusal, an error   *)
(* of the org or a call that times out after it worked is an error; a Lead *)
(* that was made is marked in the next transaction.                        *)
CreateLead(p, d) ==
    /\ pipe[p].step = "write" /\ d \in pipe[p].todo
    /\ \E raises \in BOOLEAN :
        \/ /\ Duplicate(p, d) /\ ~ raises
           /\ rows' = [rows EXCEPT ![<<pipe[p].run, d>>].status = "suppressed"]
           /\ pipe' = [pipe EXCEPT ![p].todo = pipe[p].todo \ {d}]
           /\ UNCHANGED <<leads, unprobed>>
        \/ /\ raises \/ ~ Duplicate(p, d)
           /\ pipe' = [pipe EXCEPT ![p].todo = pipe[p].todo \ {d}, ![p].errors = TRUE]
           /\ UNCHANGED <<rows, leads, unprobed>>
        \/ /\ raises \/ ~ Duplicate(p, d)
           /\ Accepted(p) /\ leads[d] < MaxLeads
           /\ leads' = [leads EXCEPT ![d] = @ + 1]
           /\ unprobed' = IF raises THEN unprobed \union {d} ELSE unprobed
           /\ \/ pipe' = [pipe EXCEPT ![p].todo = pipe[p].todo \ {d}, ![p].errors = TRUE]
              \/ pipe' = [pipe EXCEPT ![p].todo = pipe[p].todo \ {d}, ![p].step = "mark", ![p].at = d]
           /\ UNCHANGED rows
    /\ UNCHANGED <<apollo, runs, brief, told, barred, excused, kills, clock>>

(* _mark_written: the row of the Lead just made is 'briefed'.              *)
MarkWritten(p) ==
    /\ pipe[p].step = "mark"
    /\ rows' = [rows EXCEPT ![<<pipe[p].run, pipe[p].at>>] =
                               [@ EXCEPT !.status = "briefed", !.lead = TRUE]]
    /\ pipe' = [pipe EXCEPT ![p].step = "write"]
    /\ UNCHANGED <<apollo, runs, leads, brief, told, barred, excused, unprobed, kills, clock>>

(* _close_run, after the writes, a dry run or an empty search, or in the   *)
(* handler of an exception anywhere before.                                *)
CloseRun(p) ==
    \E failed \in BOOLEAN :
        /\ IF failed THEN pipe[p].step \in {"failed", "write", "mark"}
                     ELSE \/ pipe[p].step = "close"
                          \/ pipe[p].step = "write" /\ pipe[p].todo = {}
        /\ runs' = [runs EXCEPT ![pipe[p].run] =
                      [status |-> IF failed THEN "error"
                                  ELSE IF pipe[p].errors THEN "partial" ELSE "success",
                       done |-> clock]]
        /\ pipe' = [pipe EXCEPT ![p] = IdlePipe]
        /\ UNCHANGED <<apollo, rows, leads, brief, told, barred, excused, unprobed, kills, clock>>

-----------------------------------------------------------------------------
(* send_daily_briefing                                                     *)

Stale(r) == runs[r].status = "running" \/ clock - runs[r].done > StaleHours

(* A query that does not ask for the status of a row.                      *)
PrimaryOf_Again(r, s) ==
    {d \in Domains : /\ rows[<<r, d>>].status # "absent"
                     /\ Grade[d] = "primary" /\ ~ rows[<<r, d>>].failed
                     /\ rows[<<r, d>>].sdr = s}

(* _group_by_sdr: A and B rows by their SDR; the exploration pool is       *)
(* shared, and only among SDRs who have rows of the first kind.            *)
PrimaryOf(r, s) ==
    {d \in RowsOf(r, "ready") : /\ Grade[d] = "primary" /\ ~ rows[<<r, d>>].failed
                                /\ rows[<<r, d>>].sdr = s}
BriefedSdrs(r) == {s \in Owners : PrimaryOf(r, s) # {}}
Exploration(r) == {d \in RowsOf(r, "ready") : Grade[d] = "explore" /\ ~ rows[<<r, d>>].failed}

(* _allocate_exploration: one SDR each, at most PerSdr for anybody; the    *)
(* rest stays in the pool.                                                 *)
Allocations(r) ==
    {a \in [Exploration(r) -> BriefedSdrs(r) \union {Nobody}] :
        \A s \in BriefedSdrs(r) : Cardinality({d \in Exploration(r) : a[d] = s}) =< PerSdr}

(* The accounts of all SDRs, and those that briefings of a run now hold.   *)
Shared(share) == UNION {share[s] : s \in DOMAIN share}
Held(r) == UNION {Shared(brief[o].share) :
                  o \in {o \in Briefers : brief[o].step # "idle" /\ brief[o].run = r}}

(* The latest run by id, whatever kind it was; the guard; the SELECT.      *)
StartBrief(b) ==
    LET r == Len(runs) IN
    /\ brief[b].step = "idle" /\ r > 0 /\ ~ Stale(r)
    /\ \E a \in Allocations(r) :
        LET share == [s \in BriefedSdrs(r) |->
                        PrimaryOf(r, s) \union {d \in Exploration(r) : a[d] = s}] IN
        /\ brief' = [brief EXCEPT ![b] =
                        [step |-> "send", run |-> r, share |-> share,
                         todo |-> BriefedSdrs(r), mark |-> {}]]
        /\ excused' = excused \union {<<r, d>> : d \in Shared(share) \intersect Held(r)}
    /\ UNCHANGED <<apollo, runs, rows, leads, pipe, told, barred, unprobed, kills, clock>>

Tell(b, s) == [k \in Keys |-> IF k[1] = brief[b].run /\ k[2] \in brief[b].share[s]
                              THEN told[k] + 1 ELSE told[k]]

(* One SDR: no Slack id and the rows are marked unsent; a DM whose thread  *)
(* fails was sent and is not marked; a DM that fails is neither.           *)
Send(b, s) ==
    LET keys == {<<brief[b].run, d>> : d \in brief[b].share[s]} IN
    /\ brief[b].step = "send" /\ s \in brief[b].todo
    /\ \/ /\ s \notin Reachable
          /\ brief' = [brief EXCEPT ![b].todo = @ \ {s}, ![b].mark = @ \union brief[b].share[s]]
          /\ UNCHANGED <<told, excused>>
       \/ /\ s \in Reachable
          /\ brief' = [brief EXCEPT ![b].todo = @ \ {s}, ![b].mark = @ \union brief[b].share[s]]
          /\ told' = Tell(b, s)
          /\ UNCHANGED excused
       \/ /\ s \in Reachable
          /\ brief' = [brief EXCEPT ![b].todo = @ \ {s}]
          /\ \/ told' = Tell(b, s) /\ excused' = excused \union keys
             \/ UNCHANGED <<told, excused>>
    /\ \A k \in keys : told[k] < MaxTold
    /\ UNCHANGED <<apollo, runs, rows, leads, pipe, barred, unprobed, kills, clock>>

(* _mark_briefed, once, after the DMs and the summary.                     *)
MarkBriefed(b) ==
    /\ brief[b].step = "send" /\ brief[b].todo = {}
    /\ rows' = [k \in Keys |-> IF k[1] = brief[b].run /\ k[2] \in brief[b].mark
                               THEN [rows[k] EXCEPT !.status = "briefed"] ELSE rows[k]]
    /\ brief' = [brief EXCEPT ![b] = IdleBrief]
    /\ UNCHANGED <<apollo, runs, leads, pipe, told, barred, excused, unprobed, kills, clock>>

-----------------------------------------------------------------------------
(* A killed process: a run stays 'running', told rows stay 'ready'.        *)

KillRunner(p) ==
    /\ kills < MaxKills /\ pipe[p].step # "idle"
    /\ kills' = kills + 1
    /\ pipe' = [pipe EXCEPT ![p] = IdlePipe]
    /\ UNCHANGED <<apollo, runs, rows, leads, brief, told, barred, excused, unprobed, clock>>

KillBriefer(b) ==
    /\ kills < MaxKills /\ brief[b].step = "send"
    /\ kills' = kills + 1
    /\ excused' = excused \union {<<brief[b].run, d>> : d \in Shared(brief[b].share)}
    /\ brief' = [brief EXCEPT ![b] = IdleBrief]
    /\ UNCHANGED <<apollo, runs, rows, leads, pipe, told, barred, unprobed, clock>>

HourPasses ==
    /\ clock < MaxClock
    /\ clock' = clock + 1
    /\ UNCHANGED <<apollo, runs, rows, leads, pipe, brief, told, barred, excused, unprobed, kills>>

LeadNext ==
    \/ HourPasses
    \/ \E p \in Runners :
        \/ \E injected \in BOOLEAN : StartRun(p, injected)
        \/ \E d \in Domains : CreateLead(p, d)
        \/ MarkWritten(p) \/ Gather(p) \/ Buffer(p) \/ OpenGate(p) \/ CloseRun(p) \/ KillRunner(p)
    \/ \E b \in Briefers :
        \/ StartBrief(b) \/ MarkBriefed(b) \/ KillBriefer(b)
        \/ \E s \in Owners : Send(b, s)

LeadSpec == LeadInit /\ [][LeadNext]_leadVars

-----------------------------------------------------------------------------
(* Properties                                                              *)

LeadTypeOK ==
    /\ apollo \in Answers
    /\ runs \in Seq(RunRow) /\ Len(runs) =< Len(apollo)
    /\ rows \in [Keys -> Candidate]
    /\ leads \in [Domains -> 0 .. MaxLeads]
    /\ \A p \in Runners :
        /\ pipe[p].step \in {"idle", "enrich", "buffer", "gate", "write", "mark", "failed", "close"}
        /\ pipe[p].run \in Runs /\ pipe[p].todo \subseteq pipe[p].found
        /\ pipe[p].outcome \in [pipe[p].found -> Outcomes]
    /\ \A b \in Briefers :
        /\ brief[b].todo \subseteq DOMAIN brief[b].share
        /\ brief[b].mark \subseteq Domains
    /\ told \in [Keys -> Nat]
    /\ barred \subseteq Keys /\ excused \subseteq Keys /\ unprobed \subseteq Domains
    /\ clock \in 0 .. MaxClock

(* An SDR is told of a row once, however often the briefing runs: a second *)
(* DM takes two briefings that overlap, a kill between DM and mark, or a   *)
(* thread that broke off (daily_briefing.py, "rerun-safe").                *)
BriefedOnce == \A k \in Keys : told[k] > 1 => k \in excused

(* What the check of a run called suppressed reaches nobody from that run: *)
(* no SDR is told of it and it becomes no Lead, through buffer, gate,      *)
(* write loop and briefing (_buffer_candidate, _writable_candidates,       *)
(* _load_candidates).                                                      *)
SuppressedStaysOut == \A k \in barred : told[k] = 0 /\ ~ rows[k].lead

(* The nightly writer makes one Lead for an address over any number of     *)
(* nights, kills and calls that time out, as long as it can ask whether    *)
(* there is one (sf_lead_writer.check_duplicate).                          *)
OneLeadPerAddress == \A d \in Addressed \ unprobed : leads[d] =< 1

(* What the night and the morning keep: no candidate is told twice, nobody *)
(* who is suppressed is written or told, and no address becomes two Leads  *)
(* (run_pipeline, send_daily_briefing, create_lead).                       *)
LeadInv == LeadTypeOK /\ BriefedOnce /\ SuppressedStaysOut /\ OneLeadPerAddress
=============================================================================
