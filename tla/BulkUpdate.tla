----------------------------- MODULE BulkUpdate -----------------------------
(***************************************************************************)
(* agents/revops_support/data_quality/bulk_updater.py, with its caller     *)
(* bad_conversions.repair: gate, rate limit and snapshot, then for each    *)
(* chunk an audit row with the values before it and the composite PATCH.   *)
(* Revert works from the audit rows, so what they hold has to be what the  *)
(* records held.                                                           *)
(*                                                                         *)
(* The gate is decided elsewhere (ApprovalGates): here those of some sizes *)
(* are approved and open to every job, for a gate is not used up.          *)
(***************************************************************************)
EXTENDS Naturals, Sequences, FiniteSets

CONSTANTS
    Rows,           \* records of one object, numbered as in the input
    Absent,         \* ids in the input that the org does not have
    Signed,         \* sizes a gate is approved for
    Jobs,           \* processes that run a bulk update
    Chunk,          \* COMPOSITE_CHUNK
    SmallBelow,     \* classify_bulk_update: from here on an update is large
    DailyCap,       \* revops_bulk_update_daily
    MaxAudits,      \* bound
    Edited          \* the value people write, distinct from the jobs'

ASSUME BulkAssumption == /\ Rows \union Absent \subseteq Nat
                         /\ Chunk \in Nat \ {0} /\ SmallBelow \in Nat \ {0}
                         /\ DailyCap \in Nat /\ MaxAudits \in Nat /\ Jobs \subseteq Nat \ {0}
                         /\ Edited \in Nat \ Jobs /\ Edited # 0

VARIABLES
    values,         \* the org: row -> value; a job writes its own number
    job,            \* what each job is doing
    batches,        \* rate_limits: count of the bucket today
    snapshots,      \* audit_log: the rows of sf_bulk_update
    held,           \* history: <<job, row>> -> the value it overwrote; 0 initially
    wrote,          \* history: <<job, row>> that reached the org
    raced           \* history: <<job, row>> changed by another behind the snapshot

bulkVars == <<values, job, batches, snapshots, held, wrote, raced>>

Ids == Rows \union Absent
NoJob == [step |-> "idle", todo |-> {}, now |-> {}, before |-> [r \in Ids |-> 0]]

(* classify_bulk_update.                                                   *)
ClassifyBulkUpdate(n) ==
    CASE n =< 1 -> "single_record_update"
      [] n > 1 /\ n < SmallBelow -> "bulk_update_small"
      [] OTHER -> "bulk_update_large"

BulkInit ==
    /\ values = [r \in Rows |-> 0]
    /\ job = [j \in Jobs |-> NoJob]
    /\ batches = 0
    /\ snapshots = <<>>
    /\ held = [k \in Jobs \X Rows |-> 0]
    /\ wrote = {} /\ raced = {}

-----------------------------------------------------------------------------

(* run, down to the rate limit: what it refuses leaves nothing behind.     *)
StartJob(j, ids) ==
    /\ job[j].step = "idle"
    /\ ids # {}
    /\ ClassifyBulkUpdate(Cardinality(ids)) \in Signed
    /\ batches < DailyCap
    /\ batches' = batches + 1
    /\ job' = [job EXCEPT ![j] = [NoJob EXCEPT !.step = "snapshot", !.todo = ids]]
    /\ UNCHANGED <<values, snapshots, held, wrote, raced>>

(* _fetch_before_snapshot.                                                 *)
Snapshot(j, dryRun) ==
    /\ job[j].step = "snapshot"
    /\ job' = [job EXCEPT ![j].step = IF dryRun THEN "done" ELSE "audit",
                          ![j].before = [r \in Ids |-> IF r \in Rows \intersect job[j].todo
                                                       THEN values[r] ELSE 0]]
    /\ UNCHANGED <<values, batches, snapshots, held, wrote, raced>>

(* The first COMPOSITE_CHUNK of what is left.                              *)
FirstOf(S) == {r \in S : Cardinality({o \in S : o < r}) < Chunk}

(* An audit row with what the chunk is going to hold.                      *)
AuditRow_After(j, chunk) == [job |-> j, rows |-> chunk, before |-> [r \in Ids |-> j]]

(* A row that covers the first record of the chunk only.                   *)
AuditRow_First(j, chunk) == [job |-> j, rows |-> {CHOOSE r \in chunk : TRUE},
                             before |-> job[j].before]

AuditRow(j, chunk) == [job |-> j, rows |-> chunk, before |-> job[j].before]

WriteAudit(j) ==
    LET chunk == FirstOf(job[j].todo) IN
    /\ job[j].step = "audit" /\ Len(snapshots) < MaxAudits
    /\ snapshots' = Append(snapshots, AuditRow(j, chunk))
    /\ job' = [job EXCEPT ![j].step = "patch", ![j].now = chunk, ![j].todo = @ \ chunk]
    /\ UNCHANGED <<values, batches, held, wrote, raced>>

(* _composite_patch, allOrNone = false: the org takes some of the records. *)
(* An answer that is lost or refused ends the run with an exception, the   *)
(* records may have been taken all the same.                               *)
Patch(j, taken, answered) ==
    /\ job[j].step = "patch"
    /\ values' = [r \in Rows |-> IF r \in taken THEN j ELSE values[r]]
    /\ held' = [k \in Jobs \X Rows |-> IF k[1] = j /\ k[2] \in taken THEN values[k[2]]
                                       ELSE held[k]]
    /\ wrote' = wrote \union {<<j, r>> : r \in taken}
    /\ raced' = raced \union {k \in (Jobs \ {j}) \X taken : job[k[1]].step \in {"audit", "patch"}}
    /\ job' = [job EXCEPT ![j] =
                 IF answered /\ job[j].todo # {}
                 THEN [job[j] EXCEPT !.step = "audit", !.now = {}]
                 ELSE [NoJob EXCEPT !.step = "done"]]
    /\ UNCHANGED <<batches, snapshots>>

KillJob(j) ==
    /\ job[j].step \notin {"idle", "done"}
    /\ job' = [job EXCEPT ![j] = [NoJob EXCEPT !.step = "done"]]
    /\ UNCHANGED <<values, batches, snapshots, held, wrote, raced>>

(* Somebody edits a record in the org.                                     *)
Edit(r) ==
    /\ values[r] # Edited
    /\ values' = [values EXCEPT ![r] = Edited]
    /\ raced' = raced \union {<<o, r>> : o \in {q \in Jobs : job[q].step \in {"audit", "patch"}}}
    /\ UNCHANGED <<job, batches, snapshots, held, wrote>>

BulkNext ==
    \/ \E j \in Jobs :
        \/ \E ids \in SUBSET Ids : StartJob(j, ids)
        \/ \E dryRun \in BOOLEAN : Snapshot(j, dryRun)
        \/ WriteAudit(j)
        \/ \E taken \in SUBSET (job[j].now \intersect Rows), answered \in BOOLEAN :
                Patch(j, taken, answered)
        \/ KillJob(j)
    \/ \E r \in Rows : Edit(r)

BulkSpec == BulkInit /\ [][BulkNext]_bulkVars

-----------------------------------------------------------------------------

BulkTypeOK ==
    /\ values \in [Rows -> Jobs \union {0, Edited}]
    /\ batches \in 0 .. DailyCap
    /\ \A j \in Jobs : /\ job[j].step \in {"idle", "snapshot", "audit", "patch", "done"}
                       /\ job[j].now \union job[j].todo \subseteq Ids

(* Whatever a bulk update wrote, to the last record of the chunk that      *)
(* failed, an audit row of its own holds the value the record had, so that *)
(* it can be put back; only what somebody else wrote between the one       *)
(* snapshot of the run and its chunk is not in it (run).                   *)
RevertibleFromAudit ==
    \A k \in wrote \ raced :
        \E n \in DOMAIN snapshots :
            /\ snapshots[n].job = k[1] /\ k[2] \in snapshots[n].rows
            /\ snapshots[n].before[k[2]] = held[k]

(* "hard, 500 rows/day": the records written in a day are within the cap.  *)
RowsWithinCap == Cardinality(wrote) =< DailyCap

(* What a bulk update keeps: the way back (run).                           *)
BulkInv == BulkTypeOK /\ RevertibleFromAudit
=============================================================================
