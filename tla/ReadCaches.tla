----------------------------- MODULE ReadCaches -----------------------------
(***************************************************************************)
(* The two caches in front of paid or slow reads: descriptions of          *)
(* Salesforce objects (revops_support/query/describe_cache.py) and Apollo  *)
(* queries (top_of_funnel/enrichment/apollo_client.py).                    *)
(*                                                                         *)
(* One object, described by two orgs, and one query.  A read looks the row *)
(* up, fetches, and stores, with other reads, deploys and clean-ups in     *)
(* between.  What an org describes is the number of its deploys.           *)
(***************************************************************************)
EXTENDS Integers, FiniteSets

CONSTANTS
    Readers,        \* reads, each made once
    DescribeTtl,    \* _TTL, in hours of the model
    StaleAfter,     \* _STALE_AFTER
    ApolloTtl,      \* _DEFAULT_CACHE_TTL_MIN
    MaxDeploys,     \* bound on an org's deploys
    LastHour        \* bound on time

ASSUME CacheAssumption ==
    {DescribeTtl, StaleAfter, ApolloTtl, MaxDeploys, LastHour} \subseteq Nat

VARIABLES
    schema,     \* org -> the number of its deploys
    describes,  \* describe_cache: alias -> row
    reads,      \* reader -> its read; history: what it may not miss
    found,     \* apollo_query_cache: the query's row
    bills,      \* history: the calls that Apollo charged, with their hours
    shared,     \* history: two look-ups of the query overlapped, or a row broke
    floor,      \* history: the deploys a bust has made known
    raced,      \* history: a bust met a fetch of its org under way
    hour

cacheVars == <<schema, describes, reads, found, bills, shared, floor, raced, hour>>

Orgs == {"read", "sandbox"}
NoRow == [deploy |-> 0, at |-> 0]
NoRead == [kind |-> "none", phase |-> "ready", alias |-> "read", deploy |-> 0, floor |-> 0]
NoAnswer == [at |-> 0, good |-> TRUE]

CacheInit ==
    /\ schema = [o \in Orgs |-> 1] /\ describes = [o \in Orgs |-> NoRow]
    /\ reads = [r \in Readers |-> NoRead]
    /\ found = NoAnswer /\ bills = {} /\ shared = FALSE
    /\ floor = [o \in Orgs |-> 0] /\ raced = FALSE /\ hour = 1

Apollo == <<found, bills, shared>>
Describing == <<schema, describes, floor, raced>>

-----------------------------------------------------------------------------
(* describe_cache.py                                                       *)

Deploy(o) ==
    /\ schema[o] =< MaxDeploys /\ schema' = [schema EXCEPT ![o] = @ + 1]
    /\ UNCHANGED <<describes, reads, floor, raced, hour, Apollo>>

Fresh(row) == row.at > 0 /\ hour - row.at < DescribeTtl

(* get: a hit is the answer, a miss goes on to fetch.                      *)
Get(r, alias) ==
    /\ reads[r] = NoRead
    /\ reads' = [reads EXCEPT ![r] =
           [kind |-> "describe", phase |-> IF Fresh(describes[alias]) THEN "done" ELSE "missed",
            alias |-> alias,
            deploy |-> IF Fresh(describes[alias]) THEN describes[alias].deploy ELSE 0,
            floor |-> floor[alias]]]
    /\ UNCHANGED <<Describing, Apollo, hour>>

(* check_rate_limit may refuse, and the call may fail: nothing is stored.  *)
GetFails(r) ==
    /\ reads[r].kind = "describe" /\ reads[r].phase = "missed"
    /\ reads' = [reads EXCEPT ![r].phase = "failed"]
    /\ UNCHANGED <<Describing, Apollo, hour>>

(* describe_sobject, which asks the read org whatever the alias.           *)
Fetched(r) ==
    /\ reads[r].kind = "describe" /\ reads[r].phase = "missed"
    /\ reads' = [reads EXCEPT ![r].phase = "fetched", ![r].deploy = schema["read"]]
    /\ UNCHANGED <<Describing, Apollo, hour>>

Upsert(r) ==
    /\ reads[r].kind = "describe" /\ reads[r].phase = "fetched"
    /\ describes' = [describes EXCEPT ![reads[r].alias] = [deploy |-> reads[r].deploy, at |-> hour]]
    /\ reads' = [reads EXCEPT ![r].phase = "done"]
    /\ UNCHANGED <<schema, floor, raced, hour, Apollo>>

(* A bust that expires the rows of the other alias.                        *)
Bust_Other(rows, alias) == [o \in Orgs |-> IF o = alias THEN rows[o] ELSE NoRow]

(* The rows a bust leaves.                                                 *)
Bust(rows, alias) == [rows EXCEPT ![alias] = NoRow]

(* After a deploy somebody busts the org's rows.                           *)
BustAlias(alias) ==
    /\ describes' = Bust(describes, alias)
    /\ floor' = [floor EXCEPT ![alias] = schema[alias]]
    /\ raced' = (raced \/ \E r \in Readers : reads[r].phase = "fetched" /\ reads[r].alias = alias)
    /\ floor' # floor
    /\ UNCHANGED <<schema, reads, hour, Apollo>>

VacuumStale ==
    /\ \E o \in Orgs : describes[o].at > 0 /\ hour - describes[o].at > StaleAfter
    /\ describes' = [o \in Orgs |-> IF hour - describes[o].at > StaleAfter THEN NoRow
                                     ELSE describes[o]]
    /\ UNCHANGED <<schema, reads, floor, raced, hour, Apollo>>

-----------------------------------------------------------------------------
(* apollo_client.py                                                        *)

(* A look-up that finds a row expired an hour early.                       *)
Hit_Early == found.at > 0 /\ found.good /\ hour - found.at < ApolloTtl

(* _cache_lookup: a row that cannot be parsed is a miss.                   *)
Hit == found.at > 0 /\ found.good /\ hour - found.at =< ApolloTtl

Searching(r) == reads[r].kind = "search" /\ reads[r].phase \in {"missed", "charged"}

Search(r) ==
    /\ reads[r] = NoRead
    /\ reads' = [reads EXCEPT ![r] = [NoRead EXCEPT !.kind = "search",
                                                    !.phase = IF Hit THEN "done" ELSE "missed"]]
    /\ shared' = (shared \/ \E q \in Readers : Searching(q))
    /\ UNCHANGED <<Describing, found, bills, hour>>

(* _post: an answer is charged.  A call that times out, or whose answer    *)
(* cannot be decoded, stores nothing, and may be charged all the same.     *)
PostSearch(r, answered, charged) ==
    /\ reads[r].kind = "search" /\ reads[r].phase = "missed" /\ (answered => charged)
    /\ reads' = [reads EXCEPT ![r].phase = IF answered THEN "charged" ELSE "failed"]
    /\ bills' = IF charged THEN bills \union {[at |-> hour, by |-> r, answered |-> answered]}
                ELSE bills
    /\ UNCHANGED <<Describing, found, shared, hour>>

(* _cache_write, new or over the old row.                                  *)
CacheWrite(r) ==
    /\ reads[r].kind = "search" /\ reads[r].phase = "charged"
    /\ found' = [at |-> hour, good |-> TRUE]
    /\ reads' = [reads EXCEPT ![r].phase = "done"]
    /\ UNCHANGED <<Describing, bills, shared, hour>>

KillRead(r) ==
    /\ reads[r].phase = "charged" /\ reads' = [reads EXCEPT ![r].phase = "killed"]
    /\ shared' = TRUE
    /\ UNCHANGED <<Describing, found, bills, hour>>

Corrupt ==
    /\ found.at > 0 /\ found.good /\ found' = [found EXCEPT !.good = FALSE]
    /\ shared' = TRUE
    /\ UNCHANGED <<Describing, reads, bills, hour>>

ClearExpired ==
    /\ found.at > 0 /\ hour - found.at > ApolloTtl /\ found' = NoAnswer
    /\ UNCHANGED <<Describing, reads, bills, shared, hour>>

-----------------------------------------------------------------------------

EndHour ==
    /\ hour < LastHour /\ hour' = hour + 1
    /\ UNCHANGED <<Describing, Apollo, reads>>

CacheNext ==
    \/ \E o \in Orgs : Deploy(o) \/ BustAlias(o)
    \/ \E r \in Readers :
          \/ \E o \in Orgs : Get(r, o)
          \/ GetFails(r) \/ Fetched(r) \/ Upsert(r)
          \/ Search(r) \/ CacheWrite(r) \/ KillRead(r)
          \/ \E answered, charged \in BOOLEAN : PostSearch(r, answered, charged)
    \/ VacuumStale \/ Corrupt \/ ClearExpired \/ EndHour

CacheSpec == CacheInit /\ [][CacheNext]_cacheVars

-----------------------------------------------------------------------------

CacheTypeOK ==
    /\ \A o \in Orgs : describes[o].at =< hour /\ describes[o].deploy =< schema["read"]
    /\ found.at =< hour /\ \A b \in bills : b.at =< hour
    /\ \A r \in Readers :
          reads[r].phase \in {"ready", "missed", "fetched", "charged", "done", "failed", "killed"}

(* A get of the read org that began after a bust is answered with what the *)
(* bust made known, or newer, unless the bust met a fetch that was not yet *)
(* stored: that one puts the old description back for a whole time to live *)
(* (bust, "the next describe hits SF fresh").                              *)
BustIsFollowed ==
    ~ raced => \A r \in Readers :
        (reads[r].kind = "describe" /\ reads[r].alias = "read" /\ reads[r].phase = "done") =>
            reads[r].deploy >= reads[r].floor

(* What Apollo has answered it does not charge for again within the time   *)
(* to live, however often calls that it did not answer were charged before *)
(* that, unless two runs overlap, one is killed before it has stored its   *)
(* answer, or the row breaks (apollo_client.py, "shouldn't double-bill").  *)
BilledOnce ==
    ~ shared => \A a, b \in bills :
        (a # b /\ a.answered /\ a.at =< b.at /\ b.at - a.at =< ApolloTtl) =>
            a.at = b.at /\ ~ b.answered

(* What the caches keep.                                                   *)
CachesInv == CacheTypeOK /\ BustIsFollowed /\ BilledOnce

(* A description cached for an org is that org's (_active_alias, "doesn't  *)
(* accidentally serve stale cross-org describes").                         *)
OwnOrgIsServed ==
    \A r \in Readers : (reads[r].kind = "describe" /\ reads[r].phase = "done") =>
        reads[r].deploy =< schema[reads[r].alias]
=============================================================================
