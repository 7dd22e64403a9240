---------------------------- MODULE RecordDedup -----------------------------
(***************************************************************************)
(* agents/revops_support/data_quality/dedup_accounts.py and                *)
(* dedup_contacts.py: the poll that clusters duplicates, files a review    *)
(* task per cluster and, with an approved gate, merges them by twos.       *)
(*                                                                         *)
(* The accounts followed share their normalised name (clusters never cross *)
(* names); website domain and billing city with state are one value each.  *)
(* A contact has its email in place of the domain and no place.  A record  *)
(* is its position in the answer of the query.                             *)
(***************************************************************************)
EXTENDS Naturals, FiniteSets, SequencesExt

CONSTANTS
    Domains,        \* website domains, or emails
    Cities,         \* <<city, state>>
    Nowhere,        \* the empty string of either
    Weights,        \* opportunities, or whether a contact has an account
    Records,        \* 1 .. number of records
    Dedupers        \* processes that poll

ASSUME DedupAssumption ==
    Weights \subseteq Nat /\ IsFiniteSet(Records) /\ Records = 1 .. Cardinality(Records)

VARIABLES
    sobject,    \* "Account" or "Contact"
    found,      \* the org: record -> its fields
    alive,      \* the org: records not merged away
    deduper,    \* what each poll is doing
    reviews,    \* tasks: <<name of the master, duplicates>>, all pending
    mergedInto, \* history: record -> the record it was merged into, 0 for none
    linkedThen  \* history: <<record, record>> in one cluster at some scan

dedupVars == <<sobject, found, alive, deduper, reviews, mergedInto, linkedThen>>

NoPoller == [step |-> "idle", proposals |-> <<>>]

DedupInit ==
    /\ sobject \in {"Account", "Contact"}
    /\ found \in [Records -> [domain : Domains \union {Nowhere}, city : Cities \union {Nowhere},
                              weight : Weights]]
    /\ sobject = "Contact" => \A r \in Records : found[r].city = Nowhere
    /\ alive = Records
    /\ deduper = [p \in Dedupers |-> NoPoller]
    /\ reviews = {}
    /\ mergedInto = [r \in Records |-> 0]
    /\ linkedThen = {}

-----------------------------------------------------------------------------
(* cluster_accounts, scan_clusters                                         *)

(* Sharing either of them only counts when both have both.                 *)
Shares_Both(r, s) == found[r].domain = found[s].domain \/ found[r].city = found[s].city

Shares(r, s) == \/ found[r].domain # Nowhere /\ found[r].domain = found[s].domain
                \/ found[r].city # Nowhere /\ found[r].city = found[s].city

(* S in the order of a relation.                                           *)
InOrder(S, before) ==
    [n \in 1 .. Cardinality(S) |->
        CHOOSE r \in S : Cardinality({s \in S : <<s, r>> \in before}) = n - 1]
Earlier == {pair \in Nat \X Nat : pair[1] < pair[2]}

Alike(r) == {s \in alive : found[s].domain = found[r].domain /\ found[s].city = found[r].city}
Least(S) == CHOOSE r \in S : \A s \in S : r =< s

(* A sub-cluster joins the first cluster that has a record it shares with. *)
Place(clusters, r) ==
    LET hits == {n \in DOMAIN clusters : \E s \in clusters[n] : Shares(s, r)} IN
    IF hits = {} THEN Append(clusters, Alike(r))
    ELSE [clusters EXCEPT ![Least(hits)] = @ \union Alike(r)]

Placed(subs) ==
    LET merged[n \in 0 .. Len(subs)] == IF n = 0 THEN <<>> ELSE Place(merged[n - 1], subs[n])
    IN  merged[Len(subs)]

(* The clusters of more than one record.                                   *)
Several(clusters) ==
    LET kept == InOrder({n \in DOMAIN clusters : Cardinality(clusters[n]) > 1}, Earlier)
    IN  [n \in DOMAIN kept |-> clusters[kept[n]]]

ClusterAccounts == Several(Placed(InOrder({Least(Alike(r)) : r \in alive}, Earlier)))

ScanClusters ==
    LET emails == {found[r].domain : r \in alive} \ {Nowhere} IN
    Several(SetToSeq({{r \in alive : found[r].domain = e} : e \in emails}))

(* _score_master_candidate and propose_merges; activity and creation date  *)
(* break ties in the order of the answer.                                  *)
Outranks ==
    {pair \in Records \X Records :
        LET r == pair[1]
            s == pair[2]
        IN  \/ found[r].weight > found[s].weight
            \/ found[r].weight = found[s].weight /\ r < s}
Proposal(c) == LET ranked == InOrder(c, Outranks)
               IN  [master |-> Head(ranked), duplicates |-> Tail(ranked)]
ProposeMerges(clusters) == [n \in DOMAIN clusters |-> Proposal(clusters[n])]

-----------------------------------------------------------------------------

(* The scan and what poll computes from it.                                *)
Scan(p) ==
    LET clusters == IF sobject = "Account" THEN ClusterAccounts ELSE ScanClusters IN
    /\ deduper[p].step = "idle"
    /\ deduper' = [deduper EXCEPT ![p] = [step |-> "file", proposals |-> ProposeMerges(clusters)]]
    /\ linkedThen' = linkedThen \union UNION {clusters[n] \X clusters[n] : n \in DOMAIN clusters}
    /\ UNCHANGED <<sobject, found, alive, reviews, mergedInto>>

(* _task_for_review.  A title is the master's name, the same for all here, *)
(* or the email, and the number of duplicates.                             *)
FileReviews(p, merges) ==
    LET title(q) == <<IF sobject = "Contact" THEN found[q.master].domain ELSE Nowhere,
                      Len(q.duplicates)>>
    IN
    /\ deduper[p].step = "file"
    /\ reviews' = reviews \union {title(deduper[p].proposals[n]) :
                                  n \in DOMAIN deduper[p].proposals}
    /\ deduper' = IF merges /\ deduper[p].proposals # <<>>
                  THEN [deduper EXCEPT ![p].step = "merge"]
                  ELSE [deduper EXCEPT ![p] = NoPoller]
    /\ UNCHANGED <<sobject, found, alive, mergedInto, linkedThen>>

(* apply_merge, by twos; the org refuses a record that is gone, and the    *)
(* exception ends the poll.                                                *)
MergeBatch(p) ==
    LET todo == deduper[p].proposals
        master == Head(todo).master
        dupes == Head(todo).duplicates
        batch == {dupes[n] : n \in DOMAIN dupes \intersect {1, 2}}
        rest == [n \in 1 .. (IF Len(dupes) > 2 THEN Len(dupes) - 2 ELSE 0) |-> dupes[n + 2]]
    IN
    /\ deduper[p].step = "merge"
    /\ IF batch \union {master} \subseteq alive
       THEN /\ alive' = alive \ batch
            /\ mergedInto' = [r \in Records |-> IF r \in batch THEN master ELSE mergedInto[r]]
            /\ deduper' = IF rest = <<>> /\ Len(todo) = 1 THEN [deduper EXCEPT ![p] = NoPoller]
                          ELSE [deduper EXCEPT ![p].proposals =
                                  IF rest = <<>> THEN Tail(todo)
                                  ELSE <<[master |-> master, duplicates |-> rest]>> \o Tail(todo)]
       ELSE /\ deduper' = [deduper EXCEPT ![p] = NoPoller]
            /\ UNCHANGED <<alive, mergedInto>>
    /\ UNCHANGED <<sobject, found, reviews, linkedThen>>

(* People work in the org: an opportunity is added.                        *)
Reweigh(r, w) ==
    /\ r \in alive /\ w > found[r].weight
    /\ found' = [found EXCEPT ![r].weight = w]
    /\ UNCHANGED <<sobject, alive, deduper, reviews, mergedInto, linkedThen>>

DedupNext ==
    \/ \E p \in Dedupers :
        \/ Scan(p) \/ MergeBatch(p)
        \/ \E merges \in BOOLEAN : FileReviews(p, merges)
    \/ \E r \in Records, w \in Weights : Reweigh(r, w)

DedupSpec == DedupInit /\ [][DedupNext]_dedupVars

-----------------------------------------------------------------------------

DedupTypeOK ==
    /\ alive \subseteq Records /\ mergedInto \in [Records -> Records \union {0}]
    /\ \A p \in Dedupers : deduper[p].step \in {"idle", "file", "merge"}

(* r and s are linked by records that share, one by one.                   *)
Chained(r, s, shares(_, _)) ==
    \E within \in SUBSET Records :
        /\ {r, s} \subseteq within
        /\ \A part \in (SUBSET within) \ {{}, within} :
            \E a \in part, b \in within \ part : shares(a, b)

Matches(r, s) == \/ found[r].domain = found[s].domain /\ found[r].domain # Nowhere
                 \/ found[r].city = found[s].city /\ found[r].city # Nowhere

Linked(r, s) == \/ Matches(r, s)
                \/ found[r].domain = found[s].domain /\ found[r].city = found[s].city

(* A merge takes away only what hangs together: the record that is gone    *)
(* was in a cluster with its master at some scan, the two are linked by    *)
(* records that share a domain, a city or an email or do not differ in     *)
(* them, and one of those is alive: no cluster is merged away as a whole,  *)
(* even when two polls rank the same cluster differently (cluster_accounts,*)
(* propose_merges, apply_merge).                                           *)
MergesHangTogether ==
    \A r \in Records \ alive :
        /\ <<r, mergedInto[r]>> \in linkedThen
        /\ Chained(r, mergedInto[r], Linked)
        /\ \E s \in alive : Chained(r, s, Linked)

(* "Two Accounts cluster together only if normalized_name matches AND      *)
(* (domain matches OR both share BillingState+BillingCity)": the           *)
(* accounts a proposal would merge are linked by such matches.             *)
OnlyDuplicatesCluster ==
    sobject = "Account" =>
        \A p \in Dedupers : \A n \in DOMAIN deduper[p].proposals :
            LET q == deduper[p].proposals[n] IN
            \A d \in DOMAIN q.duplicates : Chained(q.master, q.duplicates[d], Matches)

(* What dedup keeps: merges stay within what hangs together                *)
(* (cluster_accounts, apply_merge).                                        *)
DedupInv == DedupTypeOK /\ MergesHangTogether
=============================================================================
