----------------------------- MODULE RateLimits -----------------------------
(***************************************************************************)
(* The table rate_limits and the two functions that count in it:           *)
(* shared/governance.py's check_rate_limit and sales_reps/rate_gates.py's  *)
(* check, which is the same code over its own limits.  A check reads the   *)
(* row of the current window and then, in a second statement, writes one   *)
(* more than it read, or inserts the row; another process may check in     *)
(* between.  The callers are the processes that run one check at a time.   *)
(***************************************************************************)
EXTENDS Naturals, FiniteSets

CONSTANTS
  Callers,     \* processes that check a limit
  Buckets,     \* the keys of RATE_LIMITS and _LIMITS
  NoBucket,
  LimitOf,     \* their values
  Soft,        \* SOFT_LIMIT_BUCKETS
  PeriodOf,    \* the length of a bucket's window: an hour, a day, a week
  MaxClock     \* bounds time, in hours from the start of a week

ASSUME LimitAssumption == LimitOf \in [Buckets -> Nat \ {0}]
ASSUME PeriodAssumption == PeriodOf \in [Buckets -> Nat \ {0}]
ASSUME BucketAssumption == Soft \subseteq Buckets /\ NoBucket \notin Buckets
ASSUME ClockAssumption == MaxClock \in Nat

VARIABLES
  counts,    \* the count of each bucket's window in rate_limits; 0: no row yet
  clock,
  check,     \* per caller: the check it is in
  granted,   \* how many checks each bucket's window has really let through
  raced      \* bucket and window of which two callers have held a read count

rateVars == <<counts, clock, check, granted, raced>>

Windows == 0 .. MaxClock

\* The start of the window at time t.  Time is counted from a Monday, so that
\* weeks start at multiples of their length too.
WindowStart(b, t) == t - (t % PeriodOf[b])

\* bucket, window and seen are what a check goes by between its statements.
Check ==
  [pc : {"idle", "write", "answered"}, bucket : Buckets \cup {NoBucket},
   window : Windows, seen : Nat, answer : {"none", "granted", "refused", "error"}]

Check_(pc, bucket, window, seen, answer) ==
  [pc |-> pc, bucket |-> bucket, window |-> window, seen |-> seen, answer |-> answer]

NoCheck == Check_("idle", NoBucket, 0, 0, "none")

RateTypeOK ==
  /\ counts \in [Buckets -> [Windows -> Nat]]
  /\ clock \in Windows
  /\ check \in [Callers -> Check]
  /\ \A p \in Callers : check[p].pc # "idle" => check[p].bucket # NoBucket
  /\ granted \in [Buckets -> [Windows -> Nat]]
  /\ raced \subseteq Buckets \X Windows

RateInit ==
  /\ counts = [b \in Buckets |-> [w \in Windows |-> 0]]
  /\ clock = 0
  /\ check = [p \in Callers |-> NoCheck]
  /\ granted = [b \in Buckets |-> [w \in Windows |-> 0]]
  /\ raced = {}

Writing(p, b, w) ==
  check[p].pc = "write" /\ check[p].bucket = b /\ check[p].window = w

\* A bug the comparison could have: the last use of a window is refused.
Exceeds_OffByOne(b, count) == count + 1 >= LimitOf[b]

\* A bug the comparison could have: it compares the count before this use.
Exceeds_TooLate(b, count) == count # 0 /\ count > LimitOf[b]

\* One more would be over the limit; a row that is not there yet is not compared.
Exceeds(b, count) == count # 0 /\ count + 1 > LimitOf[b]

\* The SELECT, for the window that is current; a hard limit raises here.
RateSelect(p, b) ==
  LET w == WindowStart(b, clock)
      count == counts[b][w]
      refused == Exceeds(b, count) /\ b \notin Soft
  IN
  /\ check[p].pc = "idle"
  /\ check' = [check EXCEPT ![p] =
       IF refused THEN Check_("answered", b, w, count, "refused")
       ELSE Check_("write", b, w, count, "none")]
  /\ raced' = IF ~refused /\ \E q \in Callers \ {p} : Writing(q, b, w)
              THEN raced \cup {<<b, w>>} ELSE raced
  /\ UNCHANGED <<counts, clock, granted>>

\* The UPDATE of the row to one more than was read, or the INSERT of a first
\* row, which raises IntegrityError if there is one by now: UNIQUE(bucket,
\* window_start).
RateWrite(p) ==
  LET b == check[p].bucket
      w == check[p].window
      seen == check[p].seen
      clash == seen = 0 /\ counts[b][w] # 0
  IN
  /\ check[p].pc = "write"
  /\ IF clash
     THEN UNCHANGED <<counts, granted>>
     ELSE /\ counts' = [counts EXCEPT ![b] = [counts[b] EXCEPT ![w] = seen + 1]]
          /\ granted' = [granted EXCEPT ![b] = [granted[b] EXCEPT ![w] = granted[b][w] + 1]]
  /\ check' = [check EXCEPT ![p] =
       Check_("answered", b, w, seen, IF clash THEN "error" ELSE "granted")]
  /\ UNCHANGED <<clock, raced>>

\* The caller has its answer, or dies.
RateEnd(p) ==
  /\ check' = [check EXCEPT ![p] = NoCheck]
  /\ UNCHANGED <<counts, clock, granted, raced>>

RateTick ==
  /\ clock < MaxClock
  /\ clock' = clock + 1
  /\ UNCHANGED <<counts, check, granted, raced>>

RateNext ==
  \/ \E p \in Callers :
       (\E b \in Buckets : RateSelect(p, b)) \/ RateWrite(p) \/ RateEnd(p)
  \/ RateTick

RateSpec == RateInit /\ [][RateNext]_rateVars

-----------------------------------------------------------------------------
(* Properties *)

\* A hard limit is one: unless two processes have held a read count of the same
\* window at the same time, the window lets through what it counts, and no more
\* than the limit, whoever is killed between the SELECT and the UPDATE.
CappedUnlessRaced ==
  \A b \in Buckets, w \in Windows :
    <<b, w>> \notin raced =>
      /\ granted[b][w] = counts[b][w]
      /\ b \notin Soft => granted[b][w] <= LimitOf[b]

\* Nobody is refused a use that is left: whatever increments overlapping checks
\* have lost, a refusal means the window has let through its limit.
NeverRefusedEarly ==
  \A p \in Callers :
    check[p].answer = "refused" =>
      granted[check[p].bucket][check[p].window] >= LimitOf[check[p].bucket]
=============================================================================
