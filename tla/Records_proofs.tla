------------------------- MODULE Records_proofs --------------------------
(***************************************************************************)
(* What the writers of records keep for any accounts, leads, customers,    *)
(* records, processes and bounds, whichever of them is killed: the gated   *)
(* handlers (GatedInv, ChurnNeedsBoth), the renewal sweep (RenewalInv),    *)
(* the bulk updater (BulkInv) and the merges of duplicates (DedupInv).     *)
(* Each has an inductive invariant, lemmas for its actions, and a theorem. *)
(***************************************************************************)
EXTENDS GatedWrites, RenewalSweep, BulkUpdate, RecordDedup, FiniteSetTheorems,
        WellFoundedInduction, TLAPS

-----------------------------------------------------------------------------
(* The gated handlers *)

Steps == {"idle", "confirm", "link", "churn", "audit", "enroll"}
Actions == {"none", "csm_reassigned", "marked_churned", "churn_outreach_posted"}
Job == [step : Steps, gate : Nat, action : Actions, todo : SUBSET Leads, at : Nat,
        double : BOOLEAN]

GatedTypes ==
    /\ GatedTypeOK
    /\ worker \in [Workers -> Job]
    /\ \A l \in Leads : enrolled[l] =< rows[l]

(* The confirmations that name this request and are not rejected.          *)
ClaimsOn(g) == {b \in DOMAIN gates : gates[b].claims = g /\ gates[b].status # "rejected"}

(* Between look and link for this request.                                 *)
Confirming(w, g) == worker[w].step \in {"confirm", "link"} /\ worker[w].gate = g

(* A gate that names a request is a later confirmation, linked to that     *)
(* request or to none.                                                     *)
ClaimsPointBack ==
    \A b \in DOMAIN gates :
        gates[b].claims # 0 =>
            /\ gates[b].tier = "mark_churned_confirm" /\ gates[b].claims < b
            /\ gates[b].parent \in {0, gates[b].claims}

(* A handler that still has to link knows its two gates.                   *)
LinksKnown ==
    \A w \in Workers :
        /\ worker[w].step \in {"confirm", "link"} => worker[w].gate \in DOMAIN gates
        /\ worker[w].step = "link" => /\ worker[w].at \in DOMAIN gates
                                      /\ gates[worker[w].at].claims = worker[w].gate

(* A confirmation without its link is about to get it, or its handler died. *)
UnlinkedKnown ==
    \A b \in DOMAIN gates :
        (gates[b].claims # 0 /\ gates[b].parent = 0) =>
            \/ <<"link", gates[b].claims>> \in lost
            \/ \E w \in Workers : /\ worker[w].step = "link" /\ worker[w].at = b
                                  /\ worker[w].gate = gates[b].claims

Sound(g) == g \notin doubled /\ <<"link", g>> \notin lost

(* One handler at a time works on the confirmation of a request, and finds *)
(* none when it creates one.                                               *)
OneHandler ==
    \A g \in DOMAIN gates : Sound(g) =>
        \A v, w \in Workers : Confirming(v, g) /\ Confirming(w, g) => v = w
NothingThere ==
    \A w \in Workers :
        (worker[w].step = "confirm" /\ Sound(worker[w].gate)) => ClaimsOn(worker[w].gate) = {}
AtMostOne ==
    \A g \in DOMAIN gates : Sound(g) => \A b, c \in ClaimsOn(g) : b = c

ConfirmInv == /\ ClaimsPointBack /\ LinksKnown /\ UnlinkedKnown
              /\ OneHandler /\ NothingThere /\ AtMostOne

(* What a handler of finalize_mark_churned has read of its two gates: the  *)
(* confirmation stays approved, the request may have been rolled back.     *)
OverBoth(b) ==
    /\ Approved(b, "mark_churned_confirm")
    /\ gates[b].claims \in 1 .. b - 1
    /\ gates[gates[b].claims].item = gates[b].item
    /\ gates[gates[b].claims].tier = "mark_churned_request"
    /\ gates[gates[b].claims].status = "approved" \/ gates[b].claims \in withdrawn
ChecksKnown ==
    \A w \in Workers :
        worker[w].step = "churn" => worker[w].gate \in DOMAIN gates /\ OverBoth(worker[w].gate)

GatedIInv == GatedTypes /\ ConfirmInv /\ CarriedOutIsAudited /\ ChecksKnown

-----------------------------------------------------------------------------
(* Types *)

LEMMA GateFacts ==
  ASSUME GatedTypes
  PROVE  /\ Len(gates) \in Nat /\ DOMAIN gates = 1 .. Len(gates)
         /\ gates \in [1 .. Len(gates) -> Gate] /\ Len(gates) =< MaxGates
         /\ \A b \in DOMAIN gates : gates[b] \in Gate
  BY DEF GatedTypes, GatedTypeOK

LEMMA RestedType == Rested \in Job /\ Rested.step = "idle"
  BY DEF Rested, Job, Steps, Actions

LEMMA RestedFields == /\ Rested.step = "idle" /\ Rested.gate = 0 /\ Rested.todo = {}
                      /\ Rested.action = "none"
  BY DEF Rested

(* A handler that looks for the confirmation of a request.                 *)
LEMMA LookingType ==
  ASSUME NEW g \in Nat
  PROVE  LET work == [Rested EXCEPT !.step = "confirm", !.gate = g]
         IN  work \in Job /\ work.gate = g /\ work.step = "confirm" /\ work.todo = {}
<1>1. Rested \in Job /\ Rested.todo = {}
  BY RestedType, RestedFields
<1>2. QED
  BY <1>1 DEF Job, Steps

LEMMA InitTypes == GatedInit => GatedTypes
  BY RestedType, LimitAssumption, BoundAssumption
  DEF GatedInit, GatedTypes, GatedTypeOK, Gate, Rested

(* A new gate.                                                             *)
LEMMA AppendTypes ==
  ASSUME GatedTypes, NEW new \in Gate, gates' = Append(gates, new), Len(gates) < MaxGates
  PROVE  /\ gates' \in Seq(Gate) /\ Len(gates') =< MaxGates /\ Len(gates') = Len(gates) + 1
         /\ \A b \in DOMAIN gates : gates'[b] = gates[b]
         /\ gates'[Len(gates) + 1] = new
         /\ DOMAIN gates' = DOMAIN gates \union {Len(gates) + 1}
         /\ Len(gates) + 1 \notin DOMAIN gates
<1>1. Len(gates) \in Nat /\ DOMAIN gates = 1 .. Len(gates)
  BY GateFacts
<1>2. gates \in Seq(Gate)
  BY DEF GatedTypes, GatedTypeOK
<1>3. QED
  BY <1>1, <1>2, BoundAssumption

(* A gate is given another status or parent.                               *)
LEMMA SetTypes ==
  ASSUME GatedTypes, NEW g \in DOMAIN gates, NEW new \in Gate,
         gates' = [gates EXCEPT ![g] = new]
  PROVE  /\ gates' \in Seq(Gate) /\ Len(gates') = Len(gates) /\ Len(gates') =< MaxGates
         /\ DOMAIN gates' = DOMAIN gates
         /\ \A b \in DOMAIN gates : gates'[b] = IF b = g THEN new ELSE gates[b]
<1>1. gates \in [1 .. Len(gates) -> Gate] /\ Len(gates) \in Nat
  BY GateFacts
<1>2. gates' \in [1 .. Len(gates) -> Gate]
  BY <1>1
<1>3. QED
  BY <1>1, <1>2, GateFacts

(* A handler goes on with another work.                                     *)
LEMMA WorkerTypes ==
  ASSUME GatedTypes, NEW w \in Workers, NEW work \in Job, worker' = [worker EXCEPT ![w] = work]
  PROVE  /\ worker' \in [Workers -> Job] /\ worker'[w] = work
         /\ \A v \in Workers \ {w} : worker'[v] = worker[v]
  BY DEF GatedTypes

LEMMA RequestTypes ==
  ASSUME GatedTypes, NEW r \in Requests, NEW a \in Accounts, Request(r, a)
  PROVE  GatedTypes' /\ worker' = worker
<1> DEFINE new == [tier |-> r[1], agent |-> r[2], item |-> a,
                   status |-> "pending", parent |-> 0, claims |-> 0]
<1>1. new \in Gate
  BY BoundAssumption DEF Gate, Requests, Tiers, Agents
<1>2. gates' = Append(gates, new) /\ Len(gates) < MaxGates
  BY DEF Request
<1>3. gates' \in Seq(Gate) /\ Len(gates') =< MaxGates /\ Len(gates') = Len(gates) + 1
  BY <1>1, <1>2, AppendTypes
<1>4. Len(gates) \in Nat
  BY GateFacts
<1>5. UNCHANGED <<worker, owned, churned, enrolled, slots, rows>>
  BY DEF Request, Org, Log
<1>6. QED
  BY <1>3, <1>4, <1>5 DEF GatedTypes, GatedTypeOK

LEMMA DecideTypes ==
  ASSUME GatedTypes, NEW g \in DOMAIN gates, NEW status \in {"approved", "rejected"},
         gates' = [gates EXCEPT ![g].status = status], UNCHANGED <<worker, Org, slots, rows>>
  PROVE  /\ GatedTypes'
         /\ DOMAIN gates' = DOMAIN gates
         /\ \A b \in DOMAIN gates :
               gates'[b] = IF b = g THEN [gates[g] EXCEPT !.status = status] ELSE gates[b]
<1> DEFINE new == [gates[g] EXCEPT !.status = status]
<1>1. new \in Gate /\ gates' = [gates EXCEPT ![g] = new]
  BY GateFacts DEF Gate
<1>2. /\ gates' \in Seq(Gate) /\ Len(gates') = Len(gates) /\ Len(gates') =< MaxGates
      /\ DOMAIN gates' = DOMAIN gates
      /\ \A b \in DOMAIN gates : gates'[b] = IF b = g THEN new ELSE gates[b]
  BY <1>1, SetTypes
<1>3. UNCHANGED <<worker, owned, churned, enrolled, slots, rows>>
  BY DEF Org
<1>4. QED
  BY <1>2, <1>3 DEF GatedTypes, GatedTypeOK

LEMMA LookTypes ==
  ASSUME GatedTypes, NEW w \in Workers, NEW g \in DOMAIN gates, LookForConfirm(w, g)
  PROVE  GatedTypes'
<1> DEFINE work == [Rested EXCEPT !.step = "confirm", !.gate = g]
<1>1. work \in Job /\ work.gate = g /\ work.step = "confirm" /\ work.todo = {}
  <2>1. g \in Nat
    BY GateFacts
  <2>2. QED
    BY <2>1, LookingType
<1>2. /\ worker' \in [Workers -> Job] /\ worker'[w] = work
      /\ \A v \in Workers \ {w} : worker'[v] = worker[v]
  BY <1>1, WorkerTypes DEF LookForConfirm
<1>3. UNCHANGED <<gates, owned, churned, enrolled, slots, rows>>
  BY DEF LookForConfirm, Org
<1>4. g \in 0 .. Len(gates)
  BY GateFacts
<1>5. QED
  BY <1>1, <1>2, <1>3, <1>4 DEF GatedTypes, GatedTypeOK, Steps

LEMMA CreateTypes ==
  ASSUME GatedTypes, LinksKnown, NEW w \in Workers, CreateConfirm(w)
  PROVE  GatedTypes'
<1> DEFINE g == worker[w].gate
           new == [tier |-> "mark_churned_confirm", agent |-> "cs", item |-> gates[g].item,
                   status |-> "pending", parent |-> 0, claims |-> g]
           work == [worker[w] EXCEPT !.step = "link", !.at = Len(gates) + 1]
<1>1. g \in DOMAIN gates /\ worker[w] \in Job /\ worker[w].step = "confirm"
  BY DEF CreateConfirm, LinksKnown, GatedTypes
<1>2. g \in 0 .. MaxGates /\ gates[g] \in Gate /\ Len(gates) \in Nat
  BY <1>1, GateFacts, BoundAssumption
<1>3. new \in Gate
  BY <1>2, BoundAssumption DEF Gate, Tiers, Agents
<1>4. gates' = Append(gates, new) /\ Len(gates) < MaxGates
  BY DEF CreateConfirm
<1>5. gates' \in Seq(Gate) /\ Len(gates') =< MaxGates /\ Len(gates') = Len(gates) + 1
  BY <1>3, <1>4, AppendTypes
<1>6. work \in Job /\ worker' = [worker EXCEPT ![w] = work] /\ work.gate = g /\ work.todo = worker[w].todo
      /\ work.step = "link"
  <2>1. Len(gates) + 1 \in Nat
    BY <1>2
  <2>2. work \in Job /\ work.gate = g /\ work.todo = worker[w].todo /\ work.step = "link"
    BY <1>1, <2>1 DEF Job, Steps
  <2>3. worker' = [worker EXCEPT ![w] = work]
    BY <1>1 DEF CreateConfirm, GatedTypes
  <2>4. QED
    BY <2>2, <2>3
<1>7. /\ worker' \in [Workers -> Job] /\ worker'[w] = work
      /\ \A v \in Workers \ {w} : worker'[v] = worker[v]
  BY <1>6, WorkerTypes
<1>8. UNCHANGED <<owned, churned, enrolled, slots, rows>>
  BY DEF CreateConfirm, Org, Log
<1>9. QED
  BY <1>2, <1>5, <1>6, <1>7, <1>8 DEF GatedTypes, GatedTypeOK

LEMMA LinkTypes ==
  ASSUME GatedTypes, LinksKnown, NEW w \in Workers, LinkConfirm(w)
  PROVE  GatedTypes'
<1> DEFINE b == worker[w].at
           new == [gates[b] EXCEPT !.parent = worker[w].gate]
<1>1. b \in DOMAIN gates /\ worker[w].gate \in DOMAIN gates
  BY DEF LinkConfirm, LinksKnown
<1>2. worker[w].gate \in 0 .. MaxGates /\ gates[b] \in Gate
  BY <1>1, GateFacts, BoundAssumption
<1>3. new \in Gate /\ gates' = [gates EXCEPT ![b] = new]
  BY <1>1, <1>2 DEF Gate, LinkConfirm
<1>4. gates' \in Seq(Gate) /\ Len(gates') = Len(gates) /\ Len(gates') =< MaxGates
  BY <1>1, <1>3, SetTypes
<1>5. /\ worker' \in [Workers -> Job] /\ worker'[w] = Rested
      /\ \A v \in Workers \ {w} : worker'[v] = worker[v]
  BY RestedType, WorkerTypes DEF LinkConfirm
<1>6. UNCHANGED <<owned, churned, enrolled, slots, rows>>
  BY DEF LinkConfirm, Org, Log
<1>7. 0 \in 0 .. Len(gates) /\ Rested.gate = 0 /\ Rested.todo = {} /\ Rested.step = "idle"
  BY GateFacts DEF Rested
<1>8. QED
  BY <1>4, <1>5, <1>6, <1>7 DEF GatedTypes, GatedTypeOK

(* A handler rests or goes to audit what it has written.                   *)
LEMMA CalmTypes ==
  ASSUME GatedTypes, NEW w \in Workers, NEW work \in Job, worker' = [worker EXCEPT ![w] = work],
         work.gate \in 0 .. Len(gates), gates' = gates,
         owned' \subseteq Accounts, churned' \subseteq Accounts,
         UNCHANGED <<enrolled, slots, rows>>
  PROVE  GatedTypes'
<1>1. /\ worker' \in [Workers -> Job] /\ worker'[w] = work
      /\ \A v \in Workers \ {w} : worker'[v] = worker[v]
  BY WorkerTypes
<1>2. work.step \in Steps /\ work.todo \subseteq Leads
  BY DEF Job
<1>3. QED
  BY <1>1, <1>2 DEF GatedTypes, GatedTypeOK, Steps

(* A handler that has written goes to its audit.                           *)
LEMMA AuditingType ==
  ASSUME GatedTypes, NEW g \in DOMAIN gates, NEW action \in Actions
  PROVE  LET work == [Rested EXCEPT !.step = "audit", !.gate = g, !.action = action]
         IN  work \in Job /\ work.gate = g /\ work.step = "audit" /\ work.action = action
<1>1. g \in Nat
  BY GateFacts
<1>2. Rested \in Job
  BY RestedType
<1>3. QED
  BY <1>1, <1>2 DEF Job, Steps

LEMMA ReassignTypes ==
  ASSUME GatedTypes, NEW w \in Workers, NEW g \in DOMAIN gates, NEW agent, NEW double,
         FinalizeReassignment(w, g, agent, double)
  PROVE  GatedTypes'
<1> DEFINE next == owned' = owned \union {gates[g].item} /\ UNCHANGED <<churned, enrolled>>
<1>1. "csm_reassigned" \in Actions
  BY DEF Actions
<1>2. /\ UNCHANGED <<gates, slots, rows>>
      /\ \E work \in Job : /\ worker' = [worker EXCEPT ![w] = work]
                            /\ work.gate \in {0, g}
      /\ next \/ UNCHANGED Org
  <2> DEFINE work == [Rested EXCEPT !.step = "audit", !.gate = g, !.action = "csm_reassigned"]
  <2>1. work \in Job /\ work.gate = g
    BY <1>1, AuditingType
  <2>2. QED
    BY <2>1, RestedType, RestedFields DEF FinalizeReassignment, Carry
<1>3. gates[g].item \in Accounts /\ g \in 0 .. Len(gates) /\ 0 \in 0 .. Len(gates)
  BY GateFacts DEF Gate
<1>4. owned' \subseteq Accounts /\ churned' \subseteq Accounts /\ enrolled' = enrolled
  BY <1>2, <1>3 DEF GatedTypes, GatedTypeOK, Org
<1>5. QED
  BY <1>2, <1>3, <1>4, CalmTypes

(* A handler that has read the two gates of a churn.                       *)
LEMMA CheckTypes ==
  ASSUME GatedTypes, NEW w \in Workers, NEW g \in DOMAIN gates, NEW double \in BOOLEAN,
         CheckChurned(w, g, double)
  PROVE  GatedTypes'
<1> DEFINE work == [Rested EXCEPT !.step = "churn", !.gate = g, !.double = double]
<1>1. g \in Nat /\ g \in 0 .. Len(gates)
  BY GateFacts
<1>2. Rested \in Job
  BY RestedType
<1>3. work \in Job /\ work.gate = g
  BY <1>1, <1>2 DEF Job, Steps
<1>4. worker' = [worker EXCEPT ![w] = work]
  BY DEF CheckChurned
<1>5. owned' \subseteq Accounts /\ churned' \subseteq Accounts
  BY DEF CheckChurned, Org, GatedTypes, GatedTypeOK
<1>6. UNCHANGED <<gates, enrolled, slots, rows>>
  BY DEF CheckChurned, Org, Log
<1>7. QED
  BY <1>1, <1>3, <1>4, <1>5, <1>6, CalmTypes

LEMMA ChurnTypes ==
  ASSUME GatedTypes, ChecksKnown, NEW w \in Workers, FinalizeChurned(w)
  PROVE  GatedTypes'
<1>0. PICK g \in DOMAIN gates : g = worker[w].gate
  BY DEF ChecksKnown, FinalizeChurned
<1> DEFINE next == churned' = churned \union {gates[g].item} /\ UNCHANGED <<owned, enrolled>>
<1>1. "marked_churned" \in Actions
  BY DEF Actions
<1>2. /\ UNCHANGED <<gates, slots, rows>>
      /\ \E work \in Job : /\ worker' = [worker EXCEPT ![w] = work]
                            /\ work.gate \in {0, g}
      /\ next \/ UNCHANGED Org
  <2> DEFINE work == [Rested EXCEPT !.step = "audit", !.gate = g, !.action = "marked_churned"]
  <2>1. work \in Job /\ work.gate = g
    BY <1>1, AuditingType
  <2>2. QED
    BY <1>0, <2>1, RestedType, RestedFields DEF FinalizeChurned, Carry
<1>3. gates[g].item \in Accounts /\ g \in 0 .. Len(gates) /\ 0 \in 0 .. Len(gates)
  BY <1>0, GateFacts DEF Gate
<1>4. owned' \subseteq Accounts /\ churned' \subseteq Accounts /\ enrolled' = enrolled
  BY <1>2, <1>3 DEF GatedTypes, GatedTypeOK, Org
<1>5. QED
  BY <1>2, <1>3, <1>4, CalmTypes

LEMMA OutreachTypes ==
  ASSUME GatedTypes, NEW w \in Workers, NEW g \in DOMAIN gates, FinalizeOutreach(w, g)
  PROVE  GatedTypes'
<1> DEFINE work == [Rested EXCEPT !.step = "audit", !.gate = g,
                                 !.action = "churn_outreach_posted"]
<1>1. g \in Nat /\ g \in 0 .. Len(gates)
  BY GateFacts
<1>2. Rested \in Job
  BY RestedType
<1>3. work \in Job /\ work.gate = g
  BY <1>1, <1>2 DEF Job, Steps, Actions
<1>4. worker' = [worker EXCEPT ![w] = work]
  BY DEF FinalizeOutreach
<1>5. owned' \subseteq Accounts /\ churned' \subseteq Accounts
  BY DEF FinalizeOutreach, Org, GatedTypes, GatedTypeOK
<1>6. UNCHANGED <<gates, enrolled, slots, rows>>
  BY DEF FinalizeOutreach, Org
<1>7. QED
  BY <1>1, <1>3, <1>4, <1>5, <1>6, CalmTypes

LEMMA BatchTypes ==
  ASSUME GatedTypes, NEW w \in Workers, NEW g \in DOMAIN gates, NEW double \in BOOLEAN,
         EnrollBatch(w, g, double)
  PROVE  GatedTypes'
<1> DEFINE work == [Rested EXCEPT !.step = "enroll", !.gate = g, !.todo = Leads,
                                 !.double = double]
<1>1. g \in Nat /\ g \in 0 .. Len(gates)
  BY GateFacts
<1>2. Rested \in Job
  BY RestedType
<1>3. work \in Job /\ work.gate = g
  BY <1>1, <1>2 DEF Job, Steps
<1>4. worker' = [worker EXCEPT ![w] = work]
  BY DEF EnrollBatch
<1>5. owned' \subseteq Accounts /\ churned' \subseteq Accounts
  BY DEF EnrollBatch, Org, GatedTypes, GatedTypeOK
<1>6. UNCHANGED <<gates, enrolled, slots, rows>>
  BY DEF EnrollBatch, Org, Log
<1>7. QED
  BY <1>1, <1>3, <1>4, <1>5, <1>6, CalmTypes

(* What is written to a lead, and its row.                                 *)
LEMMA LeadTypes ==
  ASSUME GatedTypes, NEW w \in Workers, NEW l \in Leads, EnrollLead(w, l)
  PROVE  GatedTypes'
<1>0. worker[w] \in Job /\ worker[w].gate \in 0 .. Len(gates)
  BY DEF GatedTypes, GatedTypeOK
<1>1. \E work \in Job : worker' = [worker EXCEPT ![w] = work] /\ work.gate \in 0 .. Len(gates)
  <2>1. CASE worker' = [worker EXCEPT ![w] = Rested]
    <3>1. 0 \in 0 .. Len(gates)
      BY GateFacts
    <3>2. QED
      BY <2>1, <3>1, RestedType, RestedFields
  <2>2. CASE worker' = [worker EXCEPT ![w] = [worker[w] EXCEPT !.todo = @ \ {l}]]
    <3> DEFINE work == [worker[w] EXCEPT !.todo = @ \ {l}]
    <3>1. work \in Job /\ work.gate = worker[w].gate
      BY <1>0 DEF Job
    <3>2. QED
      BY <1>0, <2>2, <3>1
  <2>3. QED
    BY <2>1, <2>2 DEF EnrollLead
<1>2. PICK work \in Job : worker' = [worker EXCEPT ![w] = work] /\ work.gate \in 0 .. Len(gates)
  BY <1>1
<1>3. /\ worker' \in [Workers -> Job] /\ worker'[w] = work
      /\ \A v \in Workers \ {w} : worker'[v] = worker[v]
  BY <1>2, WorkerTypes
<1>4. work.step \in Steps /\ work.todo \subseteq Leads
  BY DEF Job
<1>5. /\ rows[l] < MaxWrites /\ rows[l] \in Nat /\ enrolled[l] \in Nat /\ enrolled[l] =< rows[l]
      /\ rows' = [rows EXCEPT ![l] = @ + 1]
      /\ enrolled' = enrolled \/ enrolled' = [enrolled EXCEPT ![l] = @ + 1]
      /\ UNCHANGED <<gates, owned, churned>>
  BY BoundAssumption DEF EnrollLead, GatedTypes, GatedTypeOK
<1>6. slots' \in 0 .. DailyLimit
  BY LimitAssumption DEF EnrollLead, Exhausted, GatedTypes, GatedTypeOK
<1>7. /\ rows' \in [Leads -> 0 .. MaxWrites] /\ enrolled' \in [Leads -> 0 .. MaxWrites]
      /\ \A k \in Leads : enrolled'[k] =< rows'[k]
  <2>1. rows \in [Leads -> 0 .. MaxWrites] /\ enrolled \in [Leads -> 0 .. MaxWrites]
    BY DEF GatedTypes, GatedTypeOK
  <2>2. \A k \in Leads : rows'[k] = IF k = l THEN rows[l] + 1 ELSE rows[k]
    BY <1>5, <2>1
  <2>3. \A k \in Leads : /\ enrolled'[k] \in Nat /\ enrolled'[k] >= 0
                         /\ k # l => enrolled'[k] = enrolled[k]
                         /\ k = l => enrolled'[k] =< enrolled[l] + 1
    BY <1>5, <2>1, BoundAssumption
  <2>4. \A k \in Leads : enrolled[k] =< rows[k] /\ enrolled[k] \in Nat /\ rows[k] \in Nat
    BY <2>1, BoundAssumption DEF GatedTypes
  <2>5. rows' \in [Leads -> 0 .. MaxWrites]
    BY <1>5, <2>1, BoundAssumption
  <2>6. \A k \in Leads : enrolled'[k] =< rows'[k]
    BY <1>5, <2>2, <2>3, <2>4
  <2>7. enrolled' \in [Leads -> 0 .. MaxWrites]
    <3>1. enrolled' \in [Leads -> Nat]
      BY <1>5, <2>1, BoundAssumption
    <3>2. \A k \in Leads : rows'[k] =< MaxWrites /\ rows'[k] \in Nat
      BY <2>5, BoundAssumption
    <3>3. \A k \in Leads : enrolled'[k] \in 0 .. MaxWrites
      BY <3>1, <3>2, <2>6, BoundAssumption
    <3>4. QED
      BY <3>1, <3>3
  <2>8. QED
    BY <2>5, <2>6, <2>7
<1>8. QED
  BY <1>2, <1>3, <1>4, <1>5, <1>6, <1>7 DEF GatedTypes, GatedTypeOK, Steps

LEMMA RestTypes ==
  ASSUME GatedTypes, NEW w \in Workers, Audit(w) \/ KillWorker(w)
  PROVE  GatedTypes'
<1>1. worker' = [worker EXCEPT ![w] = Rested]
  BY DEF Audit, KillWorker
<1>2. Rested \in Job /\ Rested.gate \in 0 .. Len(gates)
  BY RestedType, RestedFields, GateFacts
<1>3. owned' \subseteq Accounts /\ churned' \subseteq Accounts
  BY DEF Audit, KillWorker, Org, GatedTypes, GatedTypeOK
<1>4. UNCHANGED <<gates, enrolled, slots, rows>>
  BY DEF Audit, KillWorker, Org
<1>5. QED
  BY <1>1, <1>2, <1>3, <1>4, CalmTypes

-----------------------------------------------------------------------------
(* Confirmations *)

(* What does not concern confirmations leaves their invariant alone.       *)
LEMMA CalmConfirm ==
  ASSUME ConfirmInv, UNCHANGED <<gates, doubled>>, lost \subseteq lost',
         \A w \in Workers : \/ worker'[w] = worker[w]
                            \/ /\ worker[w].step \notin {"confirm", "link"}
                               /\ worker'[w].step \notin {"confirm", "link"}
  PROVE  ConfirmInv'
<1>1. ClaimsPointBack'
  BY DEF ConfirmInv, ClaimsPointBack
<1>2. LinksKnown'
  BY DEF ConfirmInv, LinksKnown
<1>3. UnlinkedKnown'
  BY DEF ConfirmInv, UnlinkedKnown
<1>4. \A g : Sound(g)' => Sound(g)
  BY DEF Sound
<1>5. \A w \in Workers : \A g : Confirming(w, g)' => Confirming(w, g)
  BY DEF Confirming
<1>6. OneHandler'
  BY <1>4, <1>5 DEF ConfirmInv, OneHandler
<1>7. \A g : ClaimsOn(g)' = ClaimsOn(g)
  BY DEF ClaimsOn
<1>8. NothingThere'
  BY <1>4, <1>7 DEF ConfirmInv, NothingThere, Sound
<1>9. AtMostOne'
  BY <1>4, <1>7 DEF ConfirmInv, AtMostOne
<1>10. QED
  BY <1>1, <1>2, <1>3, <1>6, <1>8, <1>9 DEF ConfirmInv

(* A decision takes a confirmation away or leaves it where it is.          *)
LEMMA DecidedConfirm ==
  ASSUME ConfirmInv, UNCHANGED <<worker, doubled, lost>>, DOMAIN gates' = DOMAIN gates,
         \A b \in DOMAIN gates :
            /\ gates'[b].claims = gates[b].claims /\ gates'[b].parent = gates[b].parent
            /\ gates'[b].tier = gates[b].tier
            /\ gates[b].status = "rejected" => gates'[b].status = "rejected"
  PROVE  ConfirmInv'
<1>1. ClaimsPointBack'
  BY DEF ConfirmInv, ClaimsPointBack
<1>2. LinksKnown'
  BY DEF ConfirmInv, LinksKnown
<1>3. UnlinkedKnown'
  BY DEF ConfirmInv, UnlinkedKnown
<1>4. \A g : Sound(g)' = Sound(g)
  BY DEF Sound
<1>5. OneHandler'
  BY <1>4 DEF ConfirmInv, OneHandler, Confirming
<1>6. \A g : ClaimsOn(g)' \subseteq ClaimsOn(g)
  BY DEF ClaimsOn
<1>7. NothingThere'
  BY <1>4, <1>6 DEF ConfirmInv, NothingThere
<1>8. AtMostOne'
  BY <1>4, <1>6 DEF ConfirmInv, AtMostOne
<1>9. QED
  BY <1>1, <1>2, <1>3, <1>5, <1>7, <1>8 DEF ConfirmInv

LEMMA RequestConfirm ==
  ASSUME GatedTypes, ConfirmInv, NEW r \in Requests, NEW a \in Accounts, Request(r, a)
  PROVE  ConfirmInv'
<1> DEFINE new == [tier |-> r[1], agent |-> r[2], item |-> a,
                   status |-> "pending", parent |-> 0, claims |-> 0]
           n == Len(gates) + 1
<1>1. new \in Gate /\ new.claims = 0
  BY BoundAssumption DEF Gate, Requests, Tiers, Agents
<1>2. gates' = Append(gates, new) /\ Len(gates) < MaxGates
  BY DEF Request
<1>3. /\ \A b \in DOMAIN gates : gates'[b] = gates[b]
      /\ gates'[n] = new /\ DOMAIN gates' = DOMAIN gates \union {n} /\ n \notin DOMAIN gates
  BY <1>1, <1>2, AppendTypes
<1>4. UNCHANGED <<worker, lost, doubled>>
  BY DEF Request, Log
<1>5. Len(gates) \in Nat /\ DOMAIN gates = 1 .. Len(gates)
  BY GateFacts
<1>6. ClaimsPointBack'
  BY <1>1, <1>3 DEF ConfirmInv, ClaimsPointBack
<1>7. LinksKnown'
  BY <1>3, <1>4 DEF ConfirmInv, LinksKnown
<1>8. UnlinkedKnown'
  BY <1>1, <1>3, <1>4 DEF ConfirmInv, UnlinkedKnown
<1>9. \A g \in DOMAIN gates' : ClaimsOn(g)' = ClaimsOn(g)
  <2>1. \A g \in DOMAIN gates' : g # 0
    BY <1>3, <1>5
  <2>2. QED
    BY <1>1, <1>3, <2>1 DEF ClaimsOn
<1>10. ClaimsOn(n) = {} /\ \A w \in Workers : ~ Confirming(w, n)
  <2>1. \A b \in DOMAIN gates : gates[b].claims # n
    <3> SUFFICES ASSUME NEW b \in DOMAIN gates, gates[b].claims = n PROVE FALSE
      OBVIOUS
    <3>1. gates[b].claims < b /\ b =< Len(gates)
      BY <1>5 DEF ConfirmInv, ClaimsPointBack
    <3>2. QED
      BY <1>5, <3>1
  <2>2. QED
    BY <1>3, <2>1 DEF ClaimsOn, ConfirmInv, LinksKnown, Confirming
<1>11. \A g : Sound(g)' = Sound(g)
  BY <1>4 DEF Sound
<1>12. OneHandler'
  BY <1>3, <1>4, <1>10, <1>11 DEF ConfirmInv, OneHandler, Confirming
<1>13. NothingThere'
  BY <1>3, <1>4, <1>9, <1>11 DEF ConfirmInv, NothingThere, LinksKnown
<1>14. AtMostOne'
  BY <1>3, <1>9, <1>10, <1>11 DEF ConfirmInv, AtMostOne
<1>15. QED
  BY <1>6, <1>7, <1>8, <1>12, <1>13, <1>14 DEF ConfirmInv

(* The look: an unlinked confirmation would have shown another handler.    *)
LEMMA LookConfirm ==
  ASSUME GatedTypes, ConfirmInv, NEW w \in Workers, NEW g \in DOMAIN gates, LookForConfirm(w, g)
  PROVE  ConfirmInv'
<1> DEFINE work == [Rested EXCEPT !.step = "confirm", !.gate = g]
<1>1. work.gate = g /\ work.step = "confirm" /\ work \in Job
  <2>1. g \in Nat
    BY GateFacts
  <2>2. QED
    BY <2>1, LookingType
<1>2. worker'[w] = work /\ \A v \in Workers \ {w} : worker'[v] = worker[v]
  BY <1>1, WorkerTypes DEF LookForConfirm
<1>3. /\ UNCHANGED <<gates, lost>> /\ worker[w].step = "idle"
      /\ gates[g].tier = "mark_churned_request" /\ Confirmations(g) = {}
      /\ doubled \subseteq doubled'
      /\ (\E o \in Workers \ {w} : Confirming(o, g)) => g \in doubled'
  BY DEF LookForConfirm, Confirming
<1>4. ClaimsPointBack'
  BY <1>3 DEF ConfirmInv, ClaimsPointBack
<1>5. LinksKnown'
  BY <1>1, <1>2, <1>3 DEF ConfirmInv, LinksKnown
<1>6. UnlinkedKnown'
  BY <1>2, <1>3 DEF ConfirmInv, UnlinkedKnown
<1>7. \A h : Sound(h)' => Sound(h)
  BY <1>3 DEF Sound
<1>8. \A h : ClaimsOn(h)' = ClaimsOn(h)
  BY <1>3 DEF ClaimsOn
<1>9. OneHandler'
  <2> SUFFICES ASSUME NEW h \in DOMAIN gates, Sound(h)', NEW u \in Workers, NEW v \in Workers,
                      Confirming(u, h)', Confirming(v, h)'
               PROVE  u = v
    BY <1>3 DEF OneHandler
  <2>1. \A o \in Workers \ {w} : Confirming(o, h)' => Confirming(o, h)
    BY <1>2 DEF Confirming
  <2>2. Confirming(w, h)' => h = g
    BY <1>1, <1>2 DEF Confirming
  <2>3. h = g => ~ \E o \in Workers \ {w} : Confirming(o, h)
    BY <1>3 DEF Sound
  <2>4. Sound(h)
    BY <1>7
  <2>5. CASE u = w \/ v = w
    BY <2>1, <2>2, <2>3, <2>5
  <2>6. CASE u # w /\ v # w
    BY <2>1, <2>4, <2>6 DEF ConfirmInv, OneHandler
  <2>7. QED
    BY <2>5, <2>6
<1>10. Sound(g)' => ClaimsOn(g) = {}
  <2> SUFFICES ASSUME Sound(g)', NEW b \in ClaimsOn(g) PROVE FALSE
    OBVIOUS
  <2>1. b \in DOMAIN gates /\ gates[b].claims = g /\ gates[b].status # "rejected" /\ g # 0
    BY GateFacts DEF ClaimsOn
  <2>2. gates[b].tier = "mark_churned_confirm" /\ gates[b].parent \in {0, g}
    BY <2>1 DEF ConfirmInv, ClaimsPointBack
  <2>3. gates[b].parent = 0
    BY <1>3, <2>1, <2>2 DEF Confirmations
  <2>4. PICK o \in Workers : worker[o].step = "link" /\ worker[o].gate = g
    BY <1>3, <2>1, <2>3 DEF ConfirmInv, UnlinkedKnown, Sound
  <2>5. QED
    BY <1>3, <2>4 DEF Confirming, Sound
<1>11. NothingThere'
  BY <1>1, <1>2, <1>7, <1>8, <1>10 DEF ConfirmInv, NothingThere
<1>12. AtMostOne'
  BY <1>3, <1>7, <1>8 DEF ConfirmInv, AtMostOne
<1>13. QED
  BY <1>4, <1>5, <1>6, <1>9, <1>11, <1>12 DEF ConfirmInv

(* The INSERT: there was none, and nobody else is at it.                   *)
LEMMA CreateConfirmInv ==
  ASSUME GatedTypes, ConfirmInv, NEW w \in Workers, CreateConfirm(w)
  PROVE  ConfirmInv'
<1>1. PICK g \in DOMAIN gates : /\ g = worker[w].gate /\ worker[w].step = "confirm"
                                 /\ worker[w] \in Job
  BY DEF CreateConfirm, ConfirmInv, LinksKnown, GatedTypes
<1> DEFINE n == Len(gates) + 1
           new == [tier |-> "mark_churned_confirm", agent |-> "cs", item |-> gates[g].item,
                   status |-> "pending", parent |-> 0, claims |-> g]
<1>2. Len(gates) \in Nat /\ DOMAIN gates = 1 .. Len(gates)
  BY GateFacts
<1>3. new \in Gate
  <2>1. g \in 0 .. MaxGates /\ gates[g] \in Gate
    BY <1>1, GateFacts, BoundAssumption
  <2>2. QED
    BY <2>1, BoundAssumption DEF Gate, Tiers, Agents
<1>4. gates' = Append(gates, new) /\ Len(gates) < MaxGates
  BY <1>1 DEF CreateConfirm
<1>5. /\ \A b \in DOMAIN gates : gates'[b] = gates[b]
      /\ gates'[n] = new /\ DOMAIN gates' = DOMAIN gates \union {n} /\ n \notin DOMAIN gates
  BY <1>3, <1>4, AppendTypes
<1>6. /\ worker'[w].step = "link" /\ worker'[w].gate = g /\ worker'[w].at = n
      /\ \A v \in Workers \ {w} : worker'[v] = worker[v]
      /\ UNCHANGED <<lost, doubled>>
  BY <1>1 DEF CreateConfirm, Log, GatedTypes, Job
<1>7. ClaimsPointBack'
  <2>1. g < n
    BY <1>1, <1>2
  <2>2. QED
    BY <1>5, <2>1 DEF ConfirmInv, ClaimsPointBack
<1>8. LinksKnown'
  BY <1>1, <1>5, <1>6 DEF ConfirmInv, LinksKnown
<1>9. UnlinkedKnown'
  <2>1. \A v \in Workers : worker[v].step = "link" => worker'[v] = worker[v]
    BY <1>1, <1>6
  <2>2. ASSUME NEW b \in DOMAIN gates, gates[b].claims # 0, gates[b].parent = 0
        PROVE  \/ <<"link", gates[b].claims>> \in lost'
               \/ \E v \in Workers : /\ worker'[v].step = "link" /\ worker'[v].at = b
                                     /\ worker'[v].gate = gates[b].claims
    BY <1>6, <2>1, <2>2 DEF ConfirmInv, UnlinkedKnown
  <2>3. QED
    BY <1>5, <1>6, <2>2 DEF UnlinkedKnown
<1>10. \A h : Sound(h)' = Sound(h)
  BY <1>6 DEF Sound
<1>11. \A v \in Workers : \A h : Confirming(v, h)' = Confirming(v, h)
  BY <1>1, <1>6 DEF Confirming
<1>12. ClaimsOn(n) = {} /\ \A v \in Workers : ~ Confirming(v, n)
  <2>1. \A b \in DOMAIN gates : gates[b].claims # n
    <3> SUFFICES ASSUME NEW b \in DOMAIN gates, gates[b].claims = n PROVE FALSE
      OBVIOUS
    <3>1. gates[b].claims < b /\ b =< Len(gates)
      BY <1>2 DEF ConfirmInv, ClaimsPointBack
    <3>2. QED
      BY <1>2, <3>1
  <2>2. QED
    BY <1>5, <2>1 DEF ClaimsOn, ConfirmInv, LinksKnown, Confirming
<1>13. OneHandler'
  BY <1>5, <1>10, <1>11, <1>12 DEF ConfirmInv, OneHandler
<1>14. ClaimsOn(g)' = ClaimsOn(g) \union {n} /\ \A h : h # g => ClaimsOn(h)' = ClaimsOn(h)
  <2>1. gates'[n].claims = g /\ gates'[n].status = "pending"
    BY <1>5
  <2>2. \A b \in DOMAIN gates : gates'[b] = gates[b]
    BY <1>5
  <2>3. DOMAIN gates' = DOMAIN gates \union {n}
    BY <1>5
  <2> HIDE DEF n, new
  <2>4. QED
    BY <2>1, <2>2, <2>3 DEF ClaimsOn
<1>15. Sound(g) => ClaimsOn(g) = {}
  BY <1>1 DEF ConfirmInv, NothingThere
<1>16. NothingThere'
  <2> SUFFICES ASSUME NEW v \in Workers, NEW h, h = worker'[v].gate,
                      worker'[v].step = "confirm", Sound(h)'
               PROVE  ClaimsOn(h)' = {}
    BY DEF NothingThere, Sound, ClaimsOn
  <2>1. v # w /\ worker'[v] = worker[v]
    BY <1>6
  <2>2. Sound(h)
    BY <1>10
  <2>3. h # g
    BY <1>1, <2>1, <2>2 DEF ConfirmInv, OneHandler, Confirming
  <2>4. ClaimsOn(h) = {}
    BY <2>1, <2>2 DEF ConfirmInv, NothingThere
  <2>5. QED
    BY <1>14, <2>3, <2>4
<1>17. AtMostOne'
  <2>1. ASSUME NEW h, Sound(h)', h = g
        PROVE  \A b, c \in ClaimsOn(h)' : b = c
    <3>1. ClaimsOn(g) = {}
      BY <1>10, <1>15, <2>1
    <3>2. ClaimsOn(h)' = {n}
      BY <1>14, <2>1, <3>1
    <3>3. QED
      BY <3>2
  <2>2. ASSUME NEW h \in DOMAIN gates', Sound(h)', h # g
        PROVE  \A b, c \in ClaimsOn(h)' : b = c
    <3>1. ClaimsOn(h)' = ClaimsOn(h) /\ Sound(h)
      BY <1>10, <1>14, <2>2
    <3>2. h \in DOMAIN gates \/ ClaimsOn(h) = {}
      BY <1>5, <1>12
    <3>3. QED
      BY <3>1, <3>2 DEF ConfirmInv, AtMostOne
  <2>3. QED
    BY <2>1, <2>2 DEF AtMostOne
<1>18. QED
  BY <1>7, <1>8, <1>9, <1>13, <1>16, <1>17 DEF ConfirmInv

LEMMA LinkConfirmInv ==
  ASSUME GatedTypes, ConfirmInv, NEW w \in Workers, LinkConfirm(w)
  PROVE  ConfirmInv'
<1> DEFINE n == worker[w].at
           g == worker[w].gate
           new == [gates[n] EXCEPT !.parent = g]
<1>1. n \in DOMAIN gates /\ g \in DOMAIN gates /\ gates[n].claims = g /\ worker[w].step = "link"
  BY DEF LinkConfirm, ConfirmInv, LinksKnown
<1>2. gates[n] \in Gate /\ g \in 0 .. MaxGates
  BY <1>1, GateFacts, BoundAssumption
<1>3. /\ new \in Gate /\ gates' = [gates EXCEPT ![n] = new]
      /\ new.parent = g /\ new.claims = gates[n].claims /\ new.tier = gates[n].tier
      /\ new.status = gates[n].status
  BY <1>1, <1>2 DEF Gate, LinkConfirm
<1>4. /\ DOMAIN gates' = DOMAIN gates
      /\ \A b \in DOMAIN gates : gates'[b] = IF b = n THEN new ELSE gates[b]
  BY <1>1, <1>3, SetTypes
<1>5. /\ worker'[w] = Rested /\ \A v \in Workers \ {w} : worker'[v] = worker[v]
      /\ UNCHANGED <<lost, doubled>>
  BY DEF LinkConfirm, Log, GatedTypes
<1>6. ClaimsPointBack'
  BY <1>1, <1>3, <1>4 DEF ConfirmInv, ClaimsPointBack
<1>7. LinksKnown'
  BY <1>3, <1>4, <1>5, RestedFields DEF ConfirmInv, LinksKnown
<1>8. UnlinkedKnown'
  <2> SUFFICES ASSUME NEW b \in DOMAIN gates, gates'[b].claims # 0, gates'[b].parent = 0
               PROVE  \/ <<"link", gates'[b].claims>> \in lost'
                      \/ \E v \in Workers : /\ worker'[v].step = "link" /\ worker'[v].at = b
                                            /\ worker'[v].gate = gates'[b].claims
    BY <1>4 DEF UnlinkedKnown
  <2>1. g # 0
    BY <1>1, GateFacts
  <2>2. b # n /\ gates'[b] = gates[b]
    BY <1>3, <1>4, <2>1
  <2>3. \/ <<"link", gates[b].claims>> \in lost
        \/ \E v \in Workers : /\ worker[v].step = "link" /\ worker[v].at = b
                              /\ worker[v].gate = gates[b].claims
    BY <2>2 DEF ConfirmInv, UnlinkedKnown
  <2>4. QED
    BY <1>5, <2>2, <2>3
<1>9. \A h : Sound(h)' = Sound(h)
  BY <1>5 DEF Sound
<1>10. \A v \in Workers : \A h : Confirming(v, h)' => Confirming(v, h)
  BY <1>5, RestedFields DEF Confirming
<1>11. \A h : ClaimsOn(h)' = ClaimsOn(h)
  BY <1>3, <1>4 DEF ClaimsOn
<1>12. OneHandler'
  BY <1>4, <1>9, <1>10 DEF ConfirmInv, OneHandler
<1>13. NothingThere'
  BY <1>5, <1>9, <1>11, RestedFields DEF ConfirmInv, NothingThere
<1>14. AtMostOne'
  BY <1>4, <1>9, <1>11 DEF ConfirmInv, AtMostOne
<1>15. QED
  BY <1>6, <1>7, <1>8, <1>12, <1>13, <1>14 DEF ConfirmInv

(* A handler that dies before its link leaves the request's count open.    *)
LEMMA KillConfirm ==
  ASSUME GatedTypes, ConfirmInv, NEW w \in Workers, KillWorker(w)
  PROVE  ConfirmInv'
<1>1. /\ worker'[w] = Rested /\ \A v \in Workers \ {w} : worker'[v] = worker[v]
      /\ UNCHANGED <<gates, doubled>> /\ lost \subseteq lost'
      /\ worker[w].step = "link" => <<"link", worker[w].gate>> \in lost'
  BY DEF KillWorker, GatedTypes
<1>2. ClaimsPointBack'
  BY <1>1 DEF ConfirmInv, ClaimsPointBack
<1>3. LinksKnown'
  BY <1>1, RestedFields DEF ConfirmInv, LinksKnown
<1>4. UnlinkedKnown'
  BY <1>1 DEF ConfirmInv, UnlinkedKnown
<1>5. \A h : Sound(h)' => Sound(h)
  BY <1>1 DEF Sound
<1>6. \A v \in Workers : \A h : Confirming(v, h)' => Confirming(v, h)
  BY <1>1, RestedFields DEF Confirming
<1>7. \A h : ClaimsOn(h)' = ClaimsOn(h)
  BY <1>1 DEF ClaimsOn
<1>8. OneHandler'
  BY <1>1, <1>5, <1>6 DEF ConfirmInv, OneHandler
<1>9. NothingThere'
  BY <1>1, <1>5, <1>7, RestedFields DEF ConfirmInv, NothingThere, Sound
<1>10. AtMostOne'
  BY <1>1, <1>5, <1>7 DEF ConfirmInv, AtMostOne
<1>11. QED
  BY <1>2, <1>3, <1>4, <1>8, <1>9, <1>10 DEF ConfirmInv
-----------------------------------------------------------------------------
(* What the handler of a churn has read *)

(* An approved gate stays so, but for a request that is rolled back: that  *)
(* is withdrawn when a handler has read it and not yet written.            *)
LEMMA CalmChecks ==
  ASSUME GatedTypes, ChecksKnown, withdrawn \subseteq withdrawn', DOMAIN gates \subseteq DOMAIN gates',
         \A w \in Workers : worker'[w] = worker[w] \/ worker'[w].step # "churn",
         \A b \in DOMAIN gates :
            /\ gates'[b].tier = gates[b].tier /\ gates'[b].item = gates[b].item
            /\ gates'[b].claims = gates[b].claims
            /\ gates[b].status = "approved" =>
                  \/ gates'[b].status = "approved"
                  \/ /\ gates[b].tier = "mark_churned_request"
                     /\ Overtakes(b) => b \in withdrawn'
  PROVE  ChecksKnown'
<1> SUFFICES ASSUME NEW w \in Workers, worker'[w].step = "churn"
             PROVE  (worker[w].gate \in DOMAIN gates /\ OverBoth(worker[w].gate))'
  BY DEF ChecksKnown
<1>1. PICK b \in DOMAIN gates : b = worker[w].gate /\ b = worker'[w].gate /\ OverBoth(b)
  BY DEF ChecksKnown
<1>2. DOMAIN gates = 1 .. Len(gates) /\ Len(gates) \in Nat
  BY GateFacts
<1>3. PICK g \in 1 .. b - 1 : g = gates[b].claims /\ g \in DOMAIN gates
  BY <1>1, <1>2 DEF OverBoth
<1>4. Overtakes(g)
  BY <1>1, <1>3 DEF Overtakes
<1>5. gates'[b].claims = g /\ gates'[b].item = gates[b].item /\ Approved(b, "mark_churned_confirm")'
  BY <1>1, <1>3 DEF OverBoth, Approved
<1>6. /\ gates'[g].item = gates[g].item /\ gates'[g].tier = gates[g].tier
      /\ gates'[g].status = "approved" \/ g \in withdrawn'
      /\ gates[g].item = gates[b].item /\ gates[g].tier = "mark_churned_request"
  BY <1>1, <1>3, <1>4 DEF OverBoth
<1>7. OverBoth(b)'
  BY <1>1, <1>3, <1>5, <1>6 DEF OverBoth
<1>8. QED
  BY <1>1, <1>7 DEF OverBoth, Approved

(* The reads of finalize_mark_churned.                                     *)
LEMMA ReadBoth ==
  ASSUME GatedTypes, ConfirmInv, NEW b \in DOMAIN gates, MayChurn(b)
  PROVE  OverBoth(b)
<1>1. gates[b].claims < b /\ gates[b] \in Gate /\ b \in Nat
  BY GateFacts DEF ConfirmInv, ClaimsPointBack, MayChurn
<1>2. gates[b].claims \in 1 .. b - 1
  BY <1>1, BoundAssumption DEF MayChurn, Gate
<1>3. QED
  BY <1>2 DEF MayChurn, OverBoth, Approved

-----------------------------------------------------------------------------
(* Audits *)

(* A step that carries nothing out and forgets nothing that waits.         *)
LEMMA CalmAudit ==
  ASSUME CarriedOutIsAudited, done' = done, audits \subseteq audits', lost \subseteq lost',
         \A w \in Workers : worker[w].step = "audit" => worker'[w] = worker[w]
  PROVE  CarriedOutIsAudited'
  BY DEF CarriedOutIsAudited

(* A write leaves a handler that audits it, or is lost.                    *)
LEMMA WrittenAudit ==
  ASSUME CarriedOutIsAudited, NEW w \in Workers, NEW d, worker[w].step # "audit",
         done' = done \union {d}, audits' = audits, lost \subseteq lost',
         \A v \in Workers \ {w} : worker'[v] = worker[v],
         \/ worker'[w].step = "audit" /\ <<worker'[w].action, worker'[w].gate>> = d
         \/ d \in lost'
  PROVE  CarriedOutIsAudited'
<1> SUFFICES ASSUME NEW e \in done' \ lost'
             PROVE  e \in audits' \/ \E v \in Workers :
                                        /\ worker'[v].step = "audit"
                                        /\ <<worker'[v].action, worker'[v].gate>> = e
  BY DEF CarriedOutIsAudited
<1>1. CASE e = d
  BY <1>1
<1>2. CASE e # d
  <2>1. e \in audits \/ \E v \in Workers : /\ worker[v].step = "audit"
                                           /\ <<worker[v].action, worker[v].gate>> = e
    BY <1>2 DEF CarriedOutIsAudited
  <2>2. QED
    BY <2>1
<1>3. QED
  BY <1>1, <1>2

LEMMA AuditAudit ==
  ASSUME GatedTypes, CarriedOutIsAudited, NEW w \in Workers, Audit(w)
  PROVE  CarriedOutIsAudited'
<1>1. /\ done' = done /\ lost' = lost
      /\ audits' = audits \union {<<worker[w].action, worker[w].gate>>}
      /\ \A v \in Workers \ {w} : worker'[v] = worker[v]
  BY DEF Audit, GatedTypes
<1>2. QED
  BY <1>1 DEF CarriedOutIsAudited

LEMMA KillAudit ==
  ASSUME GatedTypes, CarriedOutIsAudited, NEW w \in Workers, KillWorker(w)
  PROVE  CarriedOutIsAudited'
<1>1. /\ done' = done /\ audits' = audits /\ lost \subseteq lost'
      /\ worker[w].step = "audit" => <<worker[w].action, worker[w].gate>> \in lost'
      /\ \A v \in Workers \ {w} : worker'[v] = worker[v]
  BY DEF KillWorker, GatedTypes
<1>2. QED
  BY <1>1 DEF CarriedOutIsAudited

-----------------------------------------------------------------------------
(* The steps *)

LEMMA RequestStep ==
  ASSUME GatedIInv, NEW r \in Requests, NEW a \in Accounts, Request(r, a)
  PROVE  GatedIInv'
<1> DEFINE new == [tier |-> r[1], agent |-> r[2], item |-> a,
                   status |-> "pending", parent |-> 0, claims |-> 0]
<1>1. GatedTypes'
  BY RequestTypes DEF GatedIInv
<1>2. ConfirmInv'
  BY RequestConfirm DEF GatedIInv
<1>3. CarriedOutIsAudited'
  BY CalmAudit DEF GatedIInv, Request, Log
<1>4. new \in Gate /\ gates' = Append(gates, new) /\ Len(gates) < MaxGates
  BY BoundAssumption DEF Gate, Requests, Tiers, Agents, Request
<1>5. DOMAIN gates \subseteq DOMAIN gates' /\ \A b \in DOMAIN gates : gates'[b] = gates[b]
  BY <1>4, AppendTypes DEF GatedIInv
<1>6. ChecksKnown'
  BY <1>5, CalmChecks DEF GatedIInv, Request, Log
<1>7. QED
  BY <1>1, <1>2, <1>3, <1>6 DEF GatedIInv

(* The button, and a roll-back, which is a rejection.                      *)
LEMMA DecideStep ==
  ASSUME GatedIInv, NEW g \in DOMAIN gates, NEW status \in {"approved", "rejected"},
         gates[g].status = "rejected" => status = "rejected",
         gates[g].status = "approved" => /\ gates[g].tier = "mark_churned_request"
                                         /\ Overtakes(g) => g \in withdrawn',
         gates' = [gates EXCEPT ![g].status = status], withdrawn \subseteq withdrawn',
         UNCHANGED <<worker, Org, slots, rows, audits, refused, done, lost, doubled>>
  PROVE  GatedIInv'
<1>1. /\ GatedTypes' /\ DOMAIN gates' = DOMAIN gates
      /\ \A b \in DOMAIN gates :
            gates'[b] = IF b = g THEN [gates[g] EXCEPT !.status = status] ELSE gates[b]
  BY DecideTypes DEF GatedIInv
<1>2. gates[g] \in Gate
  BY GateFacts DEF GatedIInv
<1>3. \A b \in DOMAIN gates :
         /\ gates'[b].claims = gates[b].claims /\ gates'[b].parent = gates[b].parent
         /\ gates'[b].tier = gates[b].tier /\ gates'[b].item = gates[b].item
         /\ gates[b].status = "rejected" => gates'[b].status = "rejected"
  BY <1>1, <1>2 DEF Gate
<1>4. ConfirmInv'
  BY <1>1, <1>3, DecidedConfirm DEF GatedIInv
<1>5. CarriedOutIsAudited'
  BY CalmAudit DEF GatedIInv
<1>6. \A b \in DOMAIN gates :
         gates[b].status = "approved" =>
            \/ gates'[b].status = "approved"
            \/ /\ gates[b].tier = "mark_churned_request"
               /\ Overtakes(b) => b \in withdrawn'
  BY <1>1
<1>7. ChecksKnown'
  BY <1>1, <1>3, <1>6, CalmChecks DEF GatedIInv
<1>8. QED
  BY <1>1, <1>4, <1>5, <1>7 DEF GatedIInv

LEMMA LookStep ==
  ASSUME GatedIInv, NEW w \in Workers, NEW g \in DOMAIN gates, LookForConfirm(w, g)
  PROVE  GatedIInv'
<1> DEFINE work == [Rested EXCEPT !.step = "confirm", !.gate = g]
<1>1. GatedTypes'
  BY LookTypes DEF GatedIInv
<1>2. ConfirmInv'
  BY LookConfirm DEF GatedIInv
<1>3. /\ UNCHANGED <<gates, done, audits, lost, withdrawn>> /\ worker[w].step = "idle"
      /\ worker' = [worker EXCEPT ![w] = work]
  BY DEF LookForConfirm
<1>4. work.step = "confirm"
  BY DEF Rested
<1> HIDE DEF work
<1>5. worker'[w] = work /\ \A v \in Workers \ {w} : worker'[v] = worker[v]
  BY <1>3 DEF GatedIInv, GatedTypes
<1>6. CarriedOutIsAudited'
  BY <1>3, <1>5, CalmAudit DEF GatedIInv
<1>7. ChecksKnown'
  BY <1>3, <1>4, <1>5, CalmChecks DEF GatedIInv
<1>8. QED
  BY <1>1, <1>2, <1>6, <1>7 DEF GatedIInv

LEMMA CreateStep ==
  ASSUME GatedIInv, NEW w \in Workers, CreateConfirm(w)
  PROVE  GatedIInv'
<1> DEFINE g == worker[w].gate
           new == [tier |-> "mark_churned_confirm", agent |-> "cs", item |-> gates[g].item,
                   status |-> "pending", parent |-> 0, claims |-> g]
<1>1. GatedTypes'
  BY CreateTypes DEF GatedIInv, ConfirmInv
<1>2. ConfirmInv'
  BY CreateConfirmInv DEF GatedIInv
<1>3. /\ UNCHANGED <<done, audits, lost, withdrawn>> /\ worker[w].step = "confirm"
      /\ worker'[w].step = "link"
      /\ \A v \in Workers \ {w} : worker'[v] = worker[v]
  BY DEF CreateConfirm, GatedIInv, GatedTypes, Log, Job
<1>4. CarriedOutIsAudited'
  BY <1>3, CalmAudit DEF GatedIInv
<1>5. g \in DOMAIN gates /\ g \in 0 .. MaxGates /\ gates[g] \in Gate
  BY GateFacts, BoundAssumption DEF CreateConfirm, GatedIInv, ConfirmInv, LinksKnown
<1>6. new \in Gate /\ gates' = Append(gates, new) /\ Len(gates) < MaxGates
  BY <1>5, BoundAssumption DEF Gate, Tiers, Agents, CreateConfirm
<1>7. DOMAIN gates \subseteq DOMAIN gates' /\ \A b \in DOMAIN gates : gates'[b] = gates[b]
  BY <1>6, AppendTypes DEF GatedIInv
<1>8. ChecksKnown'
  BY <1>3, <1>7, CalmChecks DEF GatedIInv
<1>9. QED
  BY <1>1, <1>2, <1>4, <1>8 DEF GatedIInv

LEMMA LinkStep ==
  ASSUME GatedIInv, NEW w \in Workers, LinkConfirm(w)
  PROVE  GatedIInv'
<1>1. GatedTypes'
  BY LinkTypes DEF GatedIInv, ConfirmInv
<1>2. ConfirmInv'
  BY LinkConfirmInv DEF GatedIInv
<1>3. /\ UNCHANGED <<done, audits, lost, withdrawn>> /\ worker[w].step = "link"
      /\ worker'[w].step = "idle"
      /\ \A v \in Workers \ {w} : worker'[v] = worker[v]
  BY RestedFields DEF LinkConfirm, GatedIInv, GatedTypes, Log
<1>4. CarriedOutIsAudited'
  BY <1>3, CalmAudit DEF GatedIInv
<1>5. /\ DOMAIN gates' = DOMAIN gates
      /\ \A b \in DOMAIN gates :
            /\ gates'[b].tier = gates[b].tier /\ gates'[b].item = gates[b].item
            /\ gates'[b].claims = gates[b].claims /\ gates'[b].status = gates[b].status
  BY GateFacts DEF LinkConfirm, GatedIInv, Gate
<1>6. ChecksKnown'
  BY <1>3, <1>5, CalmChecks DEF GatedIInv
<1>7. QED
  BY <1>1, <1>2, <1>4, <1>6 DEF GatedIInv

(* The finalize functions that write, and the one that posts: what their   *)
(* steps have in common.                                                   *)
LEMMA CarriedStep ==
  ASSUME GatedTypes, GatedTypes', ConfirmInv, CarriedOutIsAudited, ChecksKnown,
         NEW w \in Workers, NEW d, worker[w].step \in {"idle", "churn"},
         UNCHANGED <<gates, doubled, audits, withdrawn>>, lost \subseteq lost',
         \A v \in Workers \ {w} : worker'[v] = worker[v],
         worker'[w].step \in {"idle", "audit"},
         \/ done' = done
         \/ /\ done' = done \union {d}
            /\ \/ worker'[w].step = "audit" /\ <<worker'[w].action, worker'[w].gate>> = d
               \/ d \in lost'
  PROVE  GatedIInv'
<1>1. \A v \in Workers : \/ worker'[v] = worker[v]
                         \/ /\ worker[v].step \notin {"confirm", "link"}
                            /\ worker'[v].step \notin {"confirm", "link"}
  OBVIOUS
<1>2. ConfirmInv'
  BY <1>1, CalmConfirm
<1>3. ChecksKnown'
  BY CalmChecks
<1>4. CASE done' = done
  <2>1. CarriedOutIsAudited'
    BY <1>4, CalmAudit
  <2>2. QED
    BY <1>2, <1>3, <2>1 DEF GatedIInv
<1>5. CASE /\ done' = done \union {d}
           /\ \/ worker'[w].step = "audit" /\ <<worker'[w].action, worker'[w].gate>> = d
              \/ d \in lost'
  <2>1. CarriedOutIsAudited'
    BY <1>5, WrittenAudit
  <2>2. QED
    BY <1>2, <1>3, <2>1 DEF GatedIInv
<1>6. QED
  BY <1>4, <1>5

LEMMA ReassignStep ==
  ASSUME GatedIInv, NEW w \in Workers, NEW g \in DOMAIN gates, NEW agent, NEW double,
         FinalizeReassignment(w, g, agent, double)
  PROVE  GatedIInv'
<1> DEFINE work == [Rested EXCEPT !.step = "audit", !.gate = g, !.action = "csm_reassigned"]
           d == <<"csm_reassigned", g>>
<1>1. GatedTypes'
  BY ReassignTypes DEF GatedIInv
<1>2. work \in Job /\ work.gate = g /\ work.step = "audit" /\ work.action = "csm_reassigned"
  BY AuditingType DEF GatedIInv, Actions
<1>3. /\ worker[w].step = "idle" /\ UNCHANGED <<gates, doubled, audits, withdrawn>>
      /\ lost \subseteq lost'
      /\ \/ worker' = [worker EXCEPT ![w] = Rested] /\ done' = done
         \/ /\ done' = done \union {d}
            /\ \/ worker' = [worker EXCEPT ![w] = work]
               \/ worker' = [worker EXCEPT ![w] = Rested] /\ d \in lost'
  BY DEF FinalizeReassignment, Carry
<1> HIDE DEF work
<1>4. /\ worker' = [worker EXCEPT ![w] = work] => worker'[w] = work
      /\ worker' = [worker EXCEPT ![w] = Rested] => worker'[w] = Rested
      /\ \A v \in Workers \ {w} : worker'[v] = worker[v]
  BY <1>3 DEF GatedIInv, GatedTypes
<1>5. QED
  BY <1>1, <1>2, <1>3, <1>4, CarriedStep, RestedFields DEF GatedIInv

LEMMA CheckStep ==
  ASSUME GatedIInv, NEW w \in Workers, NEW g \in DOMAIN gates, NEW double \in BOOLEAN,
         CheckChurned(w, g, double)
  PROVE  GatedIInv'
<1> DEFINE work == [Rested EXCEPT !.step = "churn", !.gate = g, !.double = double]
<1>1. GatedTypes'
  BY CheckTypes DEF GatedIInv
<1>2. /\ worker[w].step = "idle" /\ MayChurn(g)
      /\ UNCHANGED <<gates, doubled, done, audits, lost, withdrawn>>
      /\ worker' = [worker EXCEPT ![w] = work]
  BY DEF CheckChurned, Log
<1>3. worker'[w] = work /\ \A v \in Workers \ {w} : worker'[v] = worker[v]
  BY <1>2 DEF GatedIInv, GatedTypes
<1>4. work.step = "churn" /\ work.gate = g
  BY DEF Rested
<1> HIDE DEF work
<1>5. ConfirmInv'
  BY <1>2, <1>3, <1>4, CalmConfirm DEF GatedIInv
<1>6. CarriedOutIsAudited'
  BY <1>2, <1>3, CalmAudit DEF GatedIInv
<1>7. OverBoth(g)'
  <2>1. OverBoth(g)
    BY <1>2, ReadBoth DEF GatedIInv
  <2>2. QED
    BY <1>2, <2>1 DEF OverBoth, Approved
<1>8. ChecksKnown'
  <2> SUFFICES ASSUME NEW v \in Workers, worker'[v].step = "churn"
               PROVE  (worker[v].gate \in DOMAIN gates /\ OverBoth(worker[v].gate))'
    BY DEF ChecksKnown
  <2>1. CASE v = w
    BY <1>2, <1>3, <1>4, <1>7, <2>1 DEF OverBoth, Approved
  <2>2. CASE v # w
    <3>1. worker'[v] = worker[v] /\ worker[v].gate \in DOMAIN gates /\ OverBoth(worker[v].gate)
      BY <1>3, <2>2 DEF GatedIInv, ChecksKnown
    <3>2. QED
      BY <1>2, <3>1 DEF OverBoth, Approved
  <2>3. QED
    BY <2>1, <2>2
<1>9. QED
  BY <1>1, <1>5, <1>6, <1>8 DEF GatedIInv

LEMMA ChurnStep ==
  ASSUME GatedIInv, NEW w \in Workers, FinalizeChurned(w)
  PROVE  GatedIInv'
<1>0. PICK g \in DOMAIN gates : g = worker[w].gate
  BY DEF GatedIInv, ChecksKnown, FinalizeChurned
<1> DEFINE work == [Rested EXCEPT !.step = "audit", !.gate = g, !.action = "marked_churned"]
           d == <<"marked_churned", g>>
<1>1. GatedTypes'
  BY ChurnTypes DEF GatedIInv
<1>2. work \in Job /\ work.gate = g /\ work.step = "audit" /\ work.action = "marked_churned"
  BY <1>0, AuditingType DEF GatedIInv, Actions
<1>3. /\ worker[w].step = "churn" /\ UNCHANGED <<gates, doubled, audits, withdrawn>>
      /\ lost \subseteq lost'
      /\ \/ worker' = [worker EXCEPT ![w] = Rested] /\ done' = done
         \/ /\ done' = done \union {d}
            /\ \/ worker' = [worker EXCEPT ![w] = work]
               \/ worker' = [worker EXCEPT ![w] = Rested] /\ d \in lost'
  BY <1>0 DEF FinalizeChurned, Carry
<1> HIDE DEF work
<1>4. /\ worker' = [worker EXCEPT ![w] = work] => worker'[w] = work
      /\ worker' = [worker EXCEPT ![w] = Rested] => worker'[w] = Rested
      /\ \A v \in Workers \ {w} : worker'[v] = worker[v]
  BY <1>3 DEF GatedIInv, GatedTypes
<1>5. QED
  BY <1>1, <1>2, <1>3, <1>4, CarriedStep, RestedFields DEF GatedIInv

LEMMA OutreachStep ==
  ASSUME GatedIInv, NEW w \in Workers, NEW g \in DOMAIN gates, FinalizeOutreach(w, g)
  PROVE  GatedIInv'
<1> DEFINE work == [Rested EXCEPT !.step = "audit", !.gate = g,
                                 !.action = "churn_outreach_posted"]
           d == <<"churn_outreach_posted", g>>
<1>1. GatedTypes'
  BY OutreachTypes DEF GatedIInv
<1>2. /\ work \in Job /\ work.gate = g /\ work.step = "audit"
      /\ work.action = "churn_outreach_posted"
  BY AuditingType DEF GatedIInv, Actions
<1>3. /\ worker[w].step = "idle" /\ UNCHANGED <<gates, doubled, audits, lost, withdrawn>>
      /\ done' = done \union {d} /\ worker' = [worker EXCEPT ![w] = work]
  BY DEF FinalizeOutreach
<1>4. worker'[w] = work /\ \A v \in Workers \ {w} : worker'[v] = worker[v]
  BY <1>3 DEF GatedIInv, GatedTypes
<1> HIDE DEF work
<1>5. QED
  BY <1>1, <1>2, <1>3, <1>4, CarriedStep DEF GatedIInv

LEMMA BatchStep ==
  ASSUME GatedIInv, NEW w \in Workers, NEW g \in DOMAIN gates, NEW double \in BOOLEAN,
         EnrollBatch(w, g, double)
  PROVE  GatedIInv'
<1> DEFINE work == [Rested EXCEPT !.step = "enroll", !.gate = g, !.todo = Leads,
                                 !.double = double]
<1>1. GatedTypes'
  BY BatchTypes DEF GatedIInv
<1>2. /\ worker[w].step = "idle" /\ UNCHANGED <<gates, doubled, done, audits, lost, withdrawn>>
      /\ worker' = [worker EXCEPT ![w] = work]
  BY DEF EnrollBatch, Log
<1>3. worker'[w] = work /\ \A v \in Workers \ {w} : worker'[v] = worker[v]
  BY <1>2 DEF GatedIInv, GatedTypes
<1>4. work.step = "enroll"
  BY DEF Rested
<1> HIDE DEF work
<1>5. ConfirmInv'
  BY <1>2, <1>3, <1>4, CalmConfirm DEF GatedIInv
<1>6. CarriedOutIsAudited'
  BY <1>2, <1>3, CalmAudit DEF GatedIInv
<1>7. ChecksKnown'
  BY <1>2, <1>3, <1>4, CalmChecks DEF GatedIInv
<1>8. QED
  BY <1>1, <1>5, <1>6, <1>7 DEF GatedIInv

LEMMA LeadStep ==
  ASSUME GatedIInv, NEW w \in Workers, NEW l \in Leads, EnrollLead(w, l)
  PROVE  GatedIInv'
<1> DEFINE work == [worker[w] EXCEPT !.todo = worker[w].todo \ {l}]
<1>1. GatedTypes'
  BY LeadTypes DEF GatedIInv
<1>2. worker[w] \in Job /\ worker[w].step = "enroll"
  BY DEF EnrollLead, GatedIInv, GatedTypes
<1>3. work.step = "enroll"
  BY <1>2 DEF Job
<1>4. /\ UNCHANGED <<gates, doubled, done, audits, lost, withdrawn>>
      /\ \/ worker' = [worker EXCEPT ![w] = Rested]
         \/ worker' = [worker EXCEPT ![w] = work]
  BY DEF EnrollLead
<1> HIDE DEF work
<1>5. /\ worker'[w].step \in {"idle", "enroll"}
      /\ \A v \in Workers \ {w} : worker'[v] = worker[v]
  BY <1>3, <1>4, RestedFields DEF GatedIInv, GatedTypes
<1>6. ConfirmInv'
  BY <1>2, <1>4, <1>5, CalmConfirm DEF GatedIInv
<1>7. CarriedOutIsAudited'
  BY <1>2, <1>4, <1>5, CalmAudit DEF GatedIInv
<1>8. ChecksKnown'
  BY <1>4, <1>5, CalmChecks DEF GatedIInv
<1>9. QED
  BY <1>1, <1>6, <1>7, <1>8 DEF GatedIInv

LEMMA AuditStep ==
  ASSUME GatedIInv, NEW w \in Workers, Audit(w)
  PROVE  GatedIInv'
<1>1. GatedTypes'
  BY RestTypes DEF GatedIInv
<1>2. /\ worker[w].step = "audit" /\ UNCHANGED <<gates, doubled, lost, withdrawn>>
      /\ worker'[w] = Rested /\ \A v \in Workers \ {w} : worker'[v] = worker[v]
  BY DEF Audit, GatedIInv, GatedTypes
<1>3. ConfirmInv'
  BY <1>2, RestedFields, CalmConfirm DEF GatedIInv
<1>4. CarriedOutIsAudited'
  BY AuditAudit DEF GatedIInv
<1>5. ChecksKnown'
  BY <1>2, RestedFields, CalmChecks DEF GatedIInv
<1>6. QED
  BY <1>1, <1>3, <1>4, <1>5 DEF GatedIInv

LEMMA KillStep ==
  ASSUME GatedIInv, NEW w \in Workers, KillWorker(w)
  PROVE  GatedIInv'
<1>1. /\ UNCHANGED <<gates, withdrawn>>
      /\ worker'[w] = Rested /\ \A v \in Workers \ {w} : worker'[v] = worker[v]
  BY DEF KillWorker, GatedIInv, GatedTypes
<1>2. ChecksKnown'
  BY <1>1, RestedFields, CalmChecks DEF GatedIInv
<1>3. QED
  BY <1>2, RestTypes, KillConfirm, KillAudit DEF GatedIInv

-----------------------------------------------------------------------------
(* The theorems *)

LEMMA InitGated == GatedInit => GatedIInv
<1> SUFFICES ASSUME GatedInit PROVE GatedIInv
  OBVIOUS
<1>1. GatedTypes
  BY InitTypes
<1>2. gates = <<>> /\ DOMAIN gates = {} /\ done = {}
  BY DEF GatedInit
<1>3. \A w \in Workers : worker[w].step = "idle"
  BY RestedFields DEF GatedInit
<1>4. ConfirmInv
  BY <1>2, <1>3 DEF ConfirmInv, ClaimsPointBack, LinksKnown, UnlinkedKnown, OneHandler,
                    NothingThere, AtMostOne
<1>5. CarriedOutIsAudited
  BY <1>2 DEF CarriedOutIsAudited
<1>6. ChecksKnown
  BY <1>3 DEF ChecksKnown
<1>7. QED
  BY <1>1, <1>4, <1>5, <1>6 DEF GatedIInv

LEMMA NextGated == GatedIInv /\ [GatedNext]_gatedVars => GatedIInv'
<1> SUFFICES ASSUME GatedIInv, [GatedNext]_gatedVars PROVE GatedIInv'
  OBVIOUS
<1>1. ASSUME NEW r \in Requests, NEW a \in Accounts, Request(r, a) PROVE GatedIInv'
  BY <1>1, RequestStep
<1>2. ASSUME NEW g \in DOMAIN gates, NEW status \in {"approved", "rejected"},
             Decide(g, status)
      PROVE  GatedIInv'
  BY <1>2, DecideStep DEF Decide, Log
<1>3. ASSUME NEW g \in DOMAIN gates, RollBack(g) PROVE GatedIInv'
  BY <1>3, DecideStep DEF RollBack
<1>4. ASSUME NEW g \in DOMAIN gates, NEW w \in Workers,
             LookForConfirm(w, g) \/ FinalizeOutreach(w, g)
      PROVE  GatedIInv'
  BY <1>4, LookStep, OutreachStep
<1>5. ASSUME NEW g \in DOMAIN gates, NEW w \in Workers, NEW double \in Doubles,
             \/ \E agent \in {"cs", "onboarding"} : FinalizeReassignment(w, g, agent, double)
             \/ CheckChurned(w, g, double) \/ EnrollBatch(w, g, double)
      PROVE  GatedIInv'
  BY <1>5, DoublesAssumption, ReassignStep, CheckStep, BatchStep
<1>6. ASSUME NEW w \in Workers,
             \/ CreateConfirm(w) \/ LinkConfirm(w) \/ FinalizeChurned(w)
             \/ Audit(w) \/ KillWorker(w)
      PROVE  GatedIInv'
  BY <1>6, CreateStep, LinkStep, ChurnStep, AuditStep, KillStep
<1>7. ASSUME NEW w \in Workers, NEW l \in Leads, EnrollLead(w, l) PROVE GatedIInv'
  BY <1>7, LeadStep
<1>8. ASSUME UNCHANGED gatedVars PROVE GatedIInv'
  <2>1. GatedTypes'
    BY <1>8 DEF gatedVars, GatedIInv, GatedTypes, GatedTypeOK
  <2>2. ConfirmInv'
    BY <1>8, CalmConfirm DEF gatedVars, GatedIInv
  <2>3. CarriedOutIsAudited'
    BY <1>8, CalmAudit DEF gatedVars, GatedIInv
  <2>4. ChecksKnown'
    BY <1>8, CalmChecks DEF gatedVars, GatedIInv
  <2>5. QED
    BY <2>1, <2>2, <2>3, <2>4 DEF GatedIInv
<1>9. QED
  BY <1>1, <1>2, <1>3, <1>4, <1>5, <1>6, <1>7, <1>8 DEF GatedNext

(* The inductive invariant holds throughout: what a confirmation, its link *)
(* and the handler between the two know of each other (slack_actions.py).  *)
THEOREM GatedInductive == GatedSpec => []GatedIInv
<1>1. QED
  BY InitGated, NextGated, PTL DEF GatedSpec

(* One open confirmation, counted.                                         *)
LEMMA CountedConfirmation == GatedIInv => OneConfirmation
<1> SUFFICES ASSUME GatedIInv, NEW g \in DOMAIN gates, Sound(g)
             PROVE  Cardinality(ClaimsOn(g)) =< 1
  BY DEF OneConfirmation, Sound, ClaimsOn
<1>1. \A b, c \in ClaimsOn(g) : b = c
  BY DEF GatedIInv, ConfirmInv, AtMostOne
<1>2. CASE ClaimsOn(g) = {}
  BY <1>2, FS_EmptySet
<1>3. CASE ClaimsOn(g) # {}
  <2>1. PICK b : ClaimsOn(g) = {b}
    BY <1>1, <1>3
  <2>2. Cardinality({b}) = 1
    BY FS_Singleton
  <2>3. QED
    BY <2>1, <2>2
<1>4. QED
  BY <1>2, <1>3

(* For any number of handlers: a request has one open confirmation unless  *)
(* two looked at once or one died before the link, and what reached the    *)
(* org is audited or its handler died or broke off (slack_actions.py,      *)
(* csm_enforcer.py).                                                       *)
THEOREM GatedHolds == GatedSpec => []GatedInv
<1>1. GatedIInv => GatedInv
  BY CountedConfirmation DEF GatedIInv, GatedTypes, GatedInv
<1>2. QED
  BY <1>1, GatedInductive, PTL

ChurnsOverBoth ==
    \A a \in churned' \ churned :
        \E b \in DOMAIN gates :
            /\ Approved(b, "mark_churned_confirm") /\ gates[b].item = a
            /\ \E g \in 1 .. b - 1 :
                /\ gates[b].claims = g /\ gates[g].item = a
                /\ Approved(g, "mark_churned_request") \/ g \in withdrawn

(* Which accounts a step marks Churned, and over which two gates.          *)
LEMMA ChurnedBy ==
  ASSUME GatedIInv, GatedNext, NEW a \in churned' \ churned
  PROVE  \E b \in DOMAIN gates : OverBoth(b) /\ gates[b].item = a
<1>1. PICK w \in Workers : FinalizeChurned(w)
  <2> SUFFICES ASSUME \A w \in Workers : ~ FinalizeChurned(w)
               PROVE  churned' = churned
    OBVIOUS
  <2>1. ASSUME NEW r \in Requests, NEW c \in Accounts, Request(r, c) PROVE churned' = churned
    BY <2>1 DEF Request, Org
  <2>2. ASSUME NEW g \in DOMAIN gates,
               RollBack(g) \/ \E status \in {"approved", "rejected"} : Decide(g, status)
        PROVE  churned' = churned
    BY <2>2 DEF RollBack, Decide, Org
  <2>3. ASSUME NEW g \in DOMAIN gates, NEW w \in Workers,
               LookForConfirm(w, g) \/ FinalizeOutreach(w, g)
        PROVE  churned' = churned
    BY <2>3 DEF LookForConfirm, FinalizeOutreach, Org
  <2>4. ASSUME NEW g \in DOMAIN gates, NEW w \in Workers, NEW double \in Doubles,
               \/ \E agent \in {"cs", "onboarding"} : FinalizeReassignment(w, g, agent, double)
               \/ CheckChurned(w, g, double) \/ EnrollBatch(w, g, double)
        PROVE  churned' = churned
    BY <2>4 DEF FinalizeReassignment, Carry, CheckChurned, EnrollBatch, Org
  <2>5. ASSUME NEW w \in Workers,
               CreateConfirm(w) \/ LinkConfirm(w) \/ Audit(w) \/ KillWorker(w)
        PROVE  churned' = churned
    BY <2>5 DEF CreateConfirm, LinkConfirm, Audit, KillWorker, Org
  <2>6. ASSUME NEW w \in Workers, NEW l \in Leads, EnrollLead(w, l) PROVE churned' = churned
    BY <2>6 DEF EnrollLead
  <2>7. QED
    BY <2>1, <2>2, <2>3, <2>4, <2>5, <2>6 DEF GatedNext
<1>2. worker[w].step = "churn" /\ a = gates[worker[w].gate].item
  BY <1>1 DEF FinalizeChurned, Carry, Org
<1>3. QED
  BY <1>2 DEF GatedIInv, ChecksKnown

(* For any interleaving of decisions, roll-backs and handlers, an account  *)
(* becomes Churned only over an approved confirmation and the request it   *)
(* names, which stands approved as well unless it was rolled back between  *)
(* the handler's check and its write (finalize_mark_churned).              *)
THEOREM ChurnHolds == GatedSpec => ChurnNeedsBoth
<1>1. GatedIInv /\ [GatedNext]_gatedVars => [ChurnsOverBoth]_gatedVars
  BY ChurnedBy DEF ChurnsOverBoth, OverBoth, Approved
<1>2. GatedSpec => [][ChurnsOverBoth]_gatedVars
  BY <1>1, GatedInductive, PTL DEF GatedSpec
<1>3. QED
  BY <1>2 DEF ChurnsOverBoth, ChurnNeedsBoth

-----------------------------------------------------------------------------
(* The renewal sweep *)

Dues == Customers \X Ends
Opp == [customer : Customers, end : Ends, renewal : BOOLEAN, open : BOOLEAN,
        fallback : BOOLEAN]
Sweep == [step : {"idle", "next", "create", "persist"}, fallback : BOOLEAN,
          todo : SUBSET Dues, at : Dues \union {<<>>}, made : Nat]

Key(n) == <<opps[n].customer, opps[n].end>>

RenewalTypes ==
    /\ opps \in Seq(Opp)
    /\ renewer \in [Cleaners -> Sweep]
    /\ states \in [1 .. MaxOpps -> [there : BOOLEAN, provisional : BOOLEAN]]
    /\ picklist \in BOOLEAN /\ stageTask \in BOOLEAN
    /\ sweepDay \in 0 .. LastSweepDay

(* A sweep that creates has taken up a due renewal, and one that persists  *)
(* has made it.                                                            *)
MadeKnown ==
    \A p \in Cleaners :
        /\ renewer[p].step = "create" => renewer[p].at \in Dues
        /\ renewer[p].step = "persist" =>
            /\ renewer[p].made \in Created /\ Key(renewer[p].made) = renewer[p].at
            /\ opps[renewer[p].made].fallback = renewer[p].fallback
        /\ renewer[p].made \in 0 .. Len(opps)

(* At work on a due renewal, and alone unless it is crossed.               *)
AtWork(p, due) == renewer[p].step \in {"create", "persist"} /\ renewer[p].at = due
OneAtWork ==
    \A p, q \in Cleaners : \A due \in Dues \ crossed :
        AtWork(p, due) /\ AtWork(q, due) => p = q

(* Who is about to create has looked, and nobody has created since.        *)
NoneYet ==
    \A p \in Cleaners : \A n \in Created :
        (renewer[p].step = "create" /\ renewer[p].at = Key(n)) => Key(n) \in crossed

(* A renewal that was made has its row or a sweep about to write it.       *)
RowIsComing ==
    \A n \in Created \ died :
        Key(n) \notin crossed =>
            \/ states[n].there
            \/ \E p \in Cleaners : renewer[p].step = "persist" /\ renewer[p].made = n

(* No opportunity has a row before it is there; the created ones fit.      *)
RowsFollow ==
    /\ \A n \in 1 .. MaxOpps : n > Len(opps) => ~ states[n].there
    /\ \A n \in Created : n =< MaxOpps

RenewalIInv == /\ RenewalTypes /\ MadeKnown /\ OneAtWork /\ NoneYet /\ RowIsComing
               /\ RowsFollow /\ RenewedOnce /\ FallbackIsProvisional

LEMMA OppFacts ==
  ASSUME RenewalTypes
  PROVE  /\ Len(opps) \in Nat /\ DOMAIN opps = 1 .. Len(opps)
         /\ \A n \in DOMAIN opps : opps[n] \in Opp
         /\ \A n \in DOMAIN opps : Key(n) \in Dues
         /\ \A p \in Cleaners : renewer[p] \in Sweep
<1>1. opps \in Seq(Opp) /\ \A p \in Cleaners : renewer[p] \in Sweep
  BY DEF RenewalTypes
<1>2. /\ Len(opps) \in Nat /\ DOMAIN opps = 1 .. Len(opps)
      /\ \A n \in DOMAIN opps : opps[n] \in Opp
  BY <1>1
<1>3. \A n \in DOMAIN opps : Key(n) \in Dues
  BY <1>2 DEF Opp, Key, Dues
<1>4. QED
  BY <1>1, <1>2, <1>3

(* Rows and history that a step leaves alone, or only adds to.             *)
LEMMA InitRenewal == RenewalInit => RenewalIInv
<1> SUFFICES ASSUME RenewalInit PROVE RenewalIInv
  OBVIOUS
<1>1. Cardinality(Customers) \in Nat
  BY FS_CardinalityType, RenewalAssumption
<1>2. /\ opps \in Seq(Opp) /\ DOMAIN opps = 1 .. Len(opps) /\ Len(opps) \in Nat
      /\ \A n \in DOMAIN opps : ~ opps[n].renewal
  <2> DEFINE size == Cardinality(Customers)
             Open == [customer : Customers, end : Ends, renewal : {FALSE}, open : {TRUE},
                      fallback : {FALSE}]
  <2>1. opps \in [1 .. size -> Open]
    BY DEF RenewalInit
  <2>2. Open \subseteq Opp /\ \A o \in Open : ~ o.renewal
    BY DEF Opp
  <2> HIDE DEF size, Open
  <2>3. size \in Nat
    BY <1>1 DEF size
  <2>4. opps \in [1 .. size -> Opp]
    BY <2>1, <2>2
  <2>5. QED
    BY <2>1, <2>2, <2>3, <2>4
<1>3. \A p \in Cleaners : /\ renewer[p] = NoSweep /\ NoSweep.step = "idle"
                          /\ NoSweep.made = 0 /\ NoSweep \in Sweep
  BY DEF RenewalInit, NoSweep, Sweep
<1>4. RenewalTypes
  <2>1. renewer \in [Cleaners -> Sweep]
    BY <1>3 DEF RenewalInit
  <2>2. states \in [1 .. MaxOpps -> [there : BOOLEAN, provisional : BOOLEAN]]
    BY DEF RenewalInit, NoRow
  <2>3. picklist \in BOOLEAN /\ stageTask \in BOOLEAN
    BY Zenon DEF RenewalInit
  <2>4. sweepDay \in 0 .. LastSweepDay
    BY RenewalAssumption DEF RenewalInit
  <2>5. QED
    BY <1>2, <2>1, <2>2, <2>3, <2>4 DEF RenewalTypes
<1>5. Created = {}
  BY <1>2 DEF Created
<1>6. \A n \in 1 .. MaxOpps : ~ states[n].there
  BY DEF RenewalInit, NoRow
<1>7. QED
  BY <1>2, <1>3, <1>4, <1>5, <1>6 DEF RenewalIInv, MadeKnown, OneAtWork, AtWork, NoneYet,
     RowIsComing, RowsFollow, RenewedOnce, FallbackIsProvisional

(* A step that leaves the org's renewals and the rows alone: a sweep only  *)
(* stops working, or works on what it worked on.                           *)
LEMMA CalmRenewal ==
  ASSUME RenewalIInv, RenewalTypes', Len(opps') = Len(opps),
         \A n \in DOMAIN opps : /\ opps'[n].renewal = opps[n].renewal
                                /\ opps'[n].fallback = opps[n].fallback
                                /\ opps[n].renewal => /\ opps'[n].customer = opps[n].customer
                                                      /\ opps'[n].end = opps[n].end,
         UNCHANGED <<states, crossed>>, died \subseteq died',
         \A p \in Cleaners :
            \/ renewer'[p] = renewer[p]
            \/ /\ renewer'[p].step \notin {"create", "persist"} /\ renewer'[p].made = 0
               /\ renewer[p].step = "persist" => renewer[p].made \in died'
  PROVE  RenewalIInv'
<1>1. /\ DOMAIN opps' = DOMAIN opps /\ Len(opps) \in Nat /\ DOMAIN opps = 1 .. Len(opps)
      /\ DOMAIN opps' = 1 .. Len(opps')
  BY OppFacts DEF RenewalIInv, RenewalTypes
<1>2. Created' = Created
  BY <1>1 DEF Created
<1>3. \A n \in Created : Key(n)' = Key(n) /\ n \in DOMAIN opps
  BY <1>1 DEF Created, Key
<1>4. MadeKnown'
  BY <1>1, <1>2, <1>3 DEF RenewalIInv, MadeKnown
<1>5. \A p \in Cleaners : \A due : AtWork(p, due)' => AtWork(p, due)
  BY DEF AtWork
<1>6. OneAtWork'
  BY <1>5 DEF RenewalIInv, OneAtWork
<1>7. NoneYet'
  BY <1>2, <1>3 DEF RenewalIInv, NoneYet
<1>8. RowIsComing'
  BY <1>2, <1>3 DEF RenewalIInv, RowIsComing
<1>9. RowsFollow'
  BY <1>2 DEF RenewalIInv, RowsFollow
<1>10. RenewedOnce'
  BY <1>2, <1>3 DEF RenewalIInv, RenewedOnce, Key
<1>11. FallbackIsProvisional'
  BY <1>2, <1>3 DEF RenewalIInv, FallbackIsProvisional, Key
<1>12. QED
  BY <1>4, <1>6, <1>7, <1>8, <1>9, <1>10, <1>11 DEF RenewalIInv

-----------------------------------------------------------------------------

(* What a sweep does next changes the step and leaves the rest typed.      *)
LEMMA RenewerTypes ==
  ASSUME RenewalTypes, NEW p \in Cleaners, NEW work \in Sweep,
         renewer' = [renewer EXCEPT ![p] = work]
  PROVE  /\ renewer' \in [Cleaners -> Sweep] /\ renewer'[p] = work
         /\ \A q \in Cleaners \ {p} : renewer'[q] = renewer[q]
  BY DEF RenewalTypes

LEMMA NoSweepType == /\ NoSweep \in Sweep /\ NoSweep.step = "idle" /\ NoSweep.made = 0
  BY DEF NoSweep, Sweep

LEMMA NextDueFacts ==
  ASSUME RenewalTypes, NEW p \in Cleaners, NextDue(p)
  PROVE  /\ renewer' \in [Cleaners -> Sweep]
         /\ renewer'[p].step = "next" /\ renewer'[p].made = 0
         /\ \A q \in Cleaners \ {p} : renewer'[q] = renewer[q]
<1> DEFINE work == [renewer[p] EXCEPT !.step = "next", !.at = <<>>, !.made = 0]
<1>1. renewer[p] \in Sweep
  BY DEF RenewalTypes
<1>2. work \in Sweep /\ work.step = "next" /\ work.made = 0
  BY <1>1 DEF Sweep
<1>3. renewer' = [renewer EXCEPT ![p] = work]
  BY <1>1 DEF NextDue, RenewalTypes
<1> HIDE DEF work
<1>4. QED
  BY <1>2, <1>3, RenewerTypes

LEMMA StartSweepStep ==
  ASSUME RenewalIInv, NEW p \in Cleaners, NEW describes \in BOOLEAN,
         StartRenewals(p, describes)
  PROVE  RenewalIInv'
<1> DEFINE work == [NoSweep EXCEPT !.step = "next", !.fallback = describes /\ ~ picklist,
                                  !.todo = Due]
<1>1. RenewalTypes /\ picklist \in BOOLEAN /\ stageTask \in BOOLEAN
  BY DEF RenewalIInv, RenewalTypes
<1>2. Due \subseteq Dues
  BY <1>1, OppFacts DEF Due, Dues, Opp
<1>3. work \in Sweep /\ work.step = "next" /\ work.made = 0
  BY <1>1, <1>2 DEF NoSweep, Sweep
<1>4. renewer' = [renewer EXCEPT ![p] = work] /\ renewer[p].step = "idle"
      /\ stageTask' \in BOOLEAN
  BY <1>1 DEF StartRenewals
<1> HIDE DEF work
<1>5. /\ renewer' \in [Cleaners -> Sweep] /\ renewer'[p] = work
      /\ \A q \in Cleaners \ {p} : renewer'[q] = renewer[q]
  BY <1>1, <1>3, <1>4, RenewerTypes
<1>6. UNCHANGED <<opps, picklist, states, crossed, died, sweepDay>>
  BY DEF StartRenewals
<1>7. RenewalTypes'
  BY <1>1, <1>4, <1>5, <1>6 DEF RenewalTypes
<1>8. QED
  BY <1>3, <1>4, <1>5, <1>6, <1>7, CalmRenewal

(* The pre-check: either none is there, or a row is written for one; a     *)
(* sweep that is at work on the same due renewal makes it crossed.         *)
LEMMA PreCheckStep ==
  ASSUME RenewalIInv, NEW p \in Cleaners, NEW due \in renewer[p].todo, CheckExisting(p, due)
  PROVE  RenewalIInv'
<1> DEFINE those == Existing(due[1], due[2])
<1>1. /\ RenewalTypes /\ renewer[p] \in Sweep /\ due \in Dues /\ due = <<due[1], due[2]>>
      /\ renewer[p].step = "next"
  BY DEF RenewalIInv, RenewalTypes, Sweep, Dues, CheckExisting
<1>2. /\ UNCHANGED <<opps, picklist, stageTask, died, sweepDay>>
      /\ crossed \subseteq crossed'
      /\ (\E q \in Cleaners : AtWork(q, due)) => due \in crossed'
  BY <1>1 DEF CheckExisting, AtWork
<1>3. those = {n \in Created : Key(n) = due}
  BY <1>1 DEF Existing, Created, Key
<1>4. \/ /\ those = {} /\ states' = states
         /\ renewer' = [renewer EXCEPT ![p].step = "create", ![p].at = due,
                                       ![p].todo = @ \ {due}]
      \/ /\ \E n \in those :
               states' = IF states[n].there THEN states
                         ELSE [states EXCEPT ![n] = [there |-> TRUE,
                                                     provisional |-> renewer[p].fallback]]
         /\ renewer' = [renewer EXCEPT ![p].todo = @ \ {due}]
  BY DEF CheckExisting
<1> HIDE DEF those
<1>5. CASE /\ those = {} /\ states' = states
           /\ renewer' = [renewer EXCEPT ![p].step = "create", ![p].at = due,
                                         ![p].todo = @ \ {due}]
  <2> DEFINE work == [renewer[p] EXCEPT !.step = "create", !.at = due,
                                       !.todo = renewer[p].todo \ {due}]
  <2>1. /\ work \in Sweep /\ work.step = "create" /\ work.at = due
        /\ work.made = renewer[p].made
    BY <1>1 DEF Sweep
  <2>2. renewer' = [renewer EXCEPT ![p] = work]
    BY <1>1, <1>5 DEF RenewalTypes
  <2> HIDE DEF work
  <2>3. /\ renewer' \in [Cleaners -> Sweep] /\ renewer'[p] = work
        /\ \A q \in Cleaners \ {p} : renewer'[q] = renewer[q]
    BY <1>1, <2>1, <2>2, RenewerTypes
  <2>4. RenewalTypes'
    BY <1>1, <1>2, <1>5, <2>3 DEF RenewalTypes
  <2>5. Created' = Created /\ \A n : Key(n)' = Key(n)
    BY <1>2 DEF Created, Key
  <2>6. MadeKnown'
    BY <1>1, <1>2, <2>1, <2>3, <2>5 DEF RenewalIInv, MadeKnown
  <2>7. OneAtWork'
    BY <1>2, <2>1, <2>3 DEF RenewalIInv, OneAtWork, AtWork
  <2>8. NoneYet'
    BY <1>2, <1>3, <1>5, <2>1, <2>3, <2>5 DEF RenewalIInv, NoneYet
  <2>9. RowIsComing'
    BY <1>1, <1>2, <1>5, <2>1, <2>3, <2>5 DEF RenewalIInv, RowIsComing
  <2>10. RowsFollow'
    BY <1>2, <1>5, <2>5 DEF RenewalIInv, RowsFollow
  <2>11. RenewedOnce' /\ FallbackIsProvisional'
    BY <1>2, <1>5, <2>5 DEF RenewalIInv, RenewedOnce, FallbackIsProvisional
  <2>12. QED
    BY <2>4, <2>6, <2>7, <2>8, <2>9, <2>10, <2>11 DEF RenewalIInv
<1>6. ASSUME NEW n \in those, renewer' = [renewer EXCEPT ![p].todo = @ \ {due}],
             states' = IF states[n].there THEN states
                       ELSE [states EXCEPT ![n] = [there |-> TRUE,
                                                   provisional |-> renewer[p].fallback]]
      PROVE  RenewalIInv'
  <2> DEFINE work == [renewer[p] EXCEPT !.todo = renewer[p].todo \ {due}]
  <2>1. /\ work \in Sweep /\ work.step = "next" /\ work.made = renewer[p].made
    BY <1>1 DEF Sweep
  <2>2. renewer' = [renewer EXCEPT ![p] = work]
    BY <1>1, <1>6 DEF RenewalTypes
  <2> HIDE DEF work
  <2>3. /\ renewer' \in [Cleaners -> Sweep] /\ renewer'[p] = work
        /\ \A q \in Cleaners \ {p} : renewer'[q] = renewer[q]
    BY <1>1, <2>1, <2>2, RenewerTypes
  <2>4. n \in Created /\ Key(n) = due /\ n \in 1 .. Len(opps) /\ n \in 1 .. MaxOpps
    BY <1>1, <1>3, <1>6, OppFacts, RenewalAssumption DEF Created, RenewalIInv, RowsFollow
  <2>5. /\ states' \in [1 .. MaxOpps -> [there : BOOLEAN, provisional : BOOLEAN]]
        /\ states'[n].there
        /\ states[n].there => states' = states
        /\ \A m \in (1 .. MaxOpps) \ {n} : states'[m] = states[m]
    <3>1. renewer[p].fallback \in BOOLEAN
      BY <1>1 DEF Sweep
    <3>2. states \in [1 .. MaxOpps -> [there : BOOLEAN, provisional : BOOLEAN]]
      BY <1>1 DEF RenewalTypes
    <3>3. CASE states[n].there
      BY <1>6, <3>2, <3>3
    <3>4. CASE ~ states[n].there
      BY <1>6, <2>4, <3>1, <3>2, <3>4
    <3>5. QED
      BY <3>3, <3>4
  <2>6. RenewalTypes'
    BY <1>1, <1>2, <2>3, <2>5 DEF RenewalTypes
  <2>7. Created' = Created /\ \A m : Key(m)' = Key(m)
    BY <1>2 DEF Created, Key
  <2>8. MadeKnown'
    BY <1>1, <1>2, <2>1, <2>3, <2>7 DEF RenewalIInv, MadeKnown
  <2>9. OneAtWork'
    BY <1>2, <2>1, <2>3 DEF RenewalIInv, OneAtWork, AtWork
  <2>10. NoneYet'
    BY <1>2, <2>1, <2>3, <2>7 DEF RenewalIInv, NoneYet
  <2>11. \A m \in Created : m \in 1 .. MaxOpps
    BY <1>1, OppFacts, RenewalAssumption DEF Created, RenewalIInv, RowsFollow
  <2>12. RowIsComing'
    BY <1>1, <1>2, <2>3, <2>5, <2>7, <2>11 DEF RenewalIInv, RowIsComing
  <2>13. RowsFollow'
    BY <1>1, <1>2, <2>4, <2>5, <2>7, OppFacts DEF RenewalIInv, RowsFollow
  <2>14. RenewedOnce'
    BY <1>2, <2>7 DEF RenewalIInv, RenewedOnce
  <2>15. n \in died \/ due \in crossed' \/ states[n].there
    <3> SUFFICES ASSUME n \notin died, due \notin crossed', ~ states[n].there PROVE FALSE
      OBVIOUS
    <3>1. PICK q \in Cleaners : renewer[q].step = "persist" /\ renewer[q].made = n
      BY <1>2, <2>4 DEF RenewalIInv, RowIsComing
    <3>2. AtWork(q, due)
      BY <2>4, <3>1 DEF AtWork, RenewalIInv, MadeKnown
    <3>3. QED
      BY <1>2, <3>2
  <2>16. FallbackIsProvisional'
    BY <1>2, <2>4, <2>5, <2>7, <2>11, <2>15 DEF RenewalIInv, FallbackIsProvisional, Key
  <2>17. QED
    BY <2>6, <2>8, <2>9, <2>10, <2>12, <2>13, <2>14, <2>16 DEF RenewalIInv
<1>7. QED
  BY <1>4, <1>5, <1>6

LEMMA CreateRenewalStep ==
  ASSUME RenewalIInv, NEW p \in Cleaners, NEW outcome \in {"created", "refused", "unanswered"},
         CreateRenewal(p, outcome)
  PROVE  RenewalIInv'
<1> DEFINE n == Len(opps) + 1
           due == renewer[p].at
           new == [customer |-> due[1], end |-> due[2], renewal |-> TRUE, open |-> TRUE,
                   fallback |-> renewer[p].fallback]
<1>1. /\ RenewalTypes /\ renewer[p] \in Sweep /\ renewer[p].step = "create"
      /\ due \in Dues /\ due = <<due[1], due[2]>>
  BY DEF RenewalIInv, RenewalTypes, CreateRenewal, MadeKnown, Dues
<1>2. UNCHANGED <<picklist, states, stageTask, crossed, sweepDay>>
  BY DEF CreateRenewal
<1>3. CASE outcome = "refused"
  <2>1. UNCHANGED <<opps, died>> /\ NextDue(p)
    BY <1>3 DEF CreateRenewal
  <2>2. /\ renewer' \in [Cleaners -> Sweep]
        /\ renewer'[p].step = "next" /\ renewer'[p].made = 0
        /\ \A q \in Cleaners \ {p} : renewer'[q] = renewer[q]
    BY <1>1, <2>1, NextDueFacts
  <2>3. RenewalTypes'
    BY <1>1, <1>2, <2>1, <2>2 DEF RenewalTypes
  <2>4. QED
    BY <1>1, <1>2, <2>1, <2>2, <2>3, CalmRenewal
<1>4. CASE outcome # "refused"
  <2>1. /\ Len(opps) < MaxOpps /\ opps' = Append(opps, new)
        /\ died' = IF outcome = "unanswered" THEN died \union {n} ELSE died
    BY <1>4 DEF CreateRenewal
  <2>2. new \in Opp
    BY <1>1 DEF Opp, Dues, Sweep
  <2>3. /\ new.renewal /\ <<new.customer, new.end>> = due
        /\ new.fallback = renewer[p].fallback
    BY <1>1
  <2> HIDE DEF new
  <2>4. /\ opps' \in Seq(Opp) /\ Len(opps') = n /\ Len(opps) \in Nat
        /\ \A m \in DOMAIN opps : opps'[m] = opps[m]
        /\ opps'[n] = new /\ DOMAIN opps' = DOMAIN opps \union {n}
        /\ n \notin DOMAIN opps /\ DOMAIN opps = 1 .. Len(opps)
    <3>1. opps \in Seq(Opp)
      BY <1>1 DEF RenewalTypes
    <3>2. QED
      BY <2>1, <2>2, <3>1
  <2>5. /\ renewer' \in [Cleaners -> Sweep]
        /\ \A q \in Cleaners \ {p} : renewer'[q] = renewer[q]
        /\ \/ /\ outcome = "created" /\ renewer'[p].step = "persist"
              /\ renewer'[p].made = n /\ renewer'[p].at = due
              /\ renewer'[p].fallback = renewer[p].fallback
           \/ /\ outcome = "unanswered" /\ renewer'[p].step = "next"
              /\ renewer'[p].made = 0
    <3>1. CASE outcome = "created"
      <4> DEFINE work == [renewer[p] EXCEPT !.step = "persist", !.made = n]
      <4>1. /\ work \in Sweep /\ work.step = "persist" /\ work.made = n /\ work.at = due
            /\ work.fallback = renewer[p].fallback
        <5>1. n \in Nat
          BY <2>4
        <5> HIDE DEF n
        <5>2. QED
          BY <1>1, <5>1 DEF Sweep
      <4>2. renewer' = [renewer EXCEPT ![p] = work]
        BY <1>1, <3>1 DEF CreateRenewal, RenewalTypes
      <4> HIDE DEF work
      <4>3. QED
        BY <1>1, <3>1, <4>1, <4>2, RenewerTypes
    <3>2. CASE outcome = "unanswered"
      <4>1. NextDue(p)
        BY <3>2 DEF CreateRenewal
      <4>2. QED
        BY <1>1, <3>2, <4>1, NextDueFacts
    <3>3. QED
      BY <1>4, <3>1, <3>2
  <2>6. RenewalTypes'
    BY <1>1, <1>2, <2>4, <2>5 DEF RenewalTypes
  <2>7. /\ Created' = Created \union {n} /\ n \notin Created /\ Created \subseteq DOMAIN opps
        /\ \A m \in Created : Key(m)' = Key(m) /\ opps'[m] = opps[m]
        /\ <<opps'[n].customer, opps'[n].end>> = due
    BY <2>3, <2>4 DEF Created, Key
  <2>8. \A m \in Created : Key(m) = due => due \in crossed
    BY <1>1 DEF RenewalIInv, NoneYet
  <2>9. MadeKnown'
    <3> SUFFICES ASSUME NEW q \in Cleaners
                 PROVE  /\ renewer'[q].step = "create" => renewer'[q].at \in Dues
                        /\ renewer'[q].step = "persist" =>
                            /\ renewer'[q].made \in Created'
                            /\ <<opps'[renewer'[q].made].customer,
                                 opps'[renewer'[q].made].end>> = renewer'[q].at
                            /\ opps'[renewer'[q].made].fallback = renewer'[q].fallback
                        /\ renewer'[q].made \in 0 .. Len(opps')
      BY DEF MadeKnown, Key
    <3>1. CASE q = p
      BY <2>3, <2>4, <2>5, <2>7, <3>1
    <3>2. CASE q # p
      BY <2>4, <2>5, <2>7, <3>2 DEF RenewalIInv, MadeKnown, Key
    <3>3. QED
      BY <3>1, <3>2
  <2>10. \A q \in Cleaners : \A d : AtWork(q, d)' => AtWork(q, d)
    BY <1>1, <2>5 DEF AtWork
  <2>11. OneAtWork'
    BY <1>2, <2>10 DEF RenewalIInv, OneAtWork
  <2>12. NoneYet'
    <3> SUFFICES ASSUME NEW q \in Cleaners, NEW m \in Created', renewer'[q].step = "create",
                        renewer'[q].at = <<opps'[m].customer, opps'[m].end>>,
                        renewer'[q].at \notin crossed
                 PROVE  FALSE
      BY <1>2 DEF NoneYet, Key
    <3>1. q # p /\ renewer'[q] = renewer[q]
      BY <2>5
    <3>2. CASE m \in Created
      BY <2>7, <3>1, <3>2 DEF RenewalIInv, NoneYet, Key
    <3>3. CASE m = n
      <4>1. AtWork(q, due) /\ AtWork(p, due) /\ due \notin crossed
        BY <1>1, <2>7, <3>1, <3>3 DEF AtWork
      <4>2. QED
        BY <1>1, <3>1, <4>1 DEF RenewalIInv, OneAtWork
    <3>4. QED
      BY <2>7, <3>2, <3>3
  <2>13. RowIsComing'
    <3> SUFFICES ASSUME NEW m \in Created' \ died', <<opps'[m].customer, opps'[m].end>> \notin crossed
                 PROVE  \/ states[m].there
                        \/ \E q \in Cleaners : renewer'[q].step = "persist" /\ renewer'[q].made = m
      BY <1>2 DEF RowIsComing, Key
    <3>1. CASE m = n
      BY <2>1, <2>5, <3>1
    <3>2. CASE m # n
      <4>1. m \in Created \ died /\ Key(m) \notin crossed
        BY <2>1, <2>7, <3>2 DEF Key
      <4>2. \/ states[m].there
            \/ \E q \in Cleaners : renewer[q].step = "persist" /\ renewer[q].made = m
        BY <4>1 DEF RenewalIInv, RowIsComing
      <4>3. QED
        BY <1>1, <2>5, <4>2
    <3>3. QED
      BY <3>1, <3>2
  <2>14. RowsFollow'
    BY <1>2, <2>1, <2>4, <2>7, RenewalAssumption DEF RenewalIInv, RowsFollow
  <2>15. RenewedOnce'
    <3> SUFFICES ASSUME NEW l \in Created', NEW m \in Created', l # m,
                        <<opps'[l].customer, opps'[l].end>> = <<opps'[m].customer, opps'[m].end>>
                 PROVE  <<opps'[l].customer, opps'[l].end>> \in crossed
      BY <1>2 DEF RenewedOnce
    <3>1. CASE l \in Created /\ m \in Created
      BY <2>7, <3>1 DEF RenewalIInv, RenewedOnce
    <3>2. CASE l = n \/ m = n
      BY <2>7, <2>8, <3>2 DEF Key
    <3>3. QED
      BY <2>7, <3>1, <3>2
  <2>16. FallbackIsProvisional'
    <3>1. n \in 1 .. MaxOpps /\ ~ states[n].there
      BY <2>1, <2>4, RenewalAssumption DEF RenewalIInv, RowsFollow
    <3>2. died \subseteq died'
      BY <2>1
    <3>3. QED
      BY <1>2, <2>7, <3>1, <3>2 DEF RenewalIInv, FallbackIsProvisional
  <2>17. QED
    BY <2>6, <2>9, <2>11, <2>12, <2>13, <2>14, <2>15, <2>16 DEF RenewalIInv
<1>5. QED
  BY <1>3, <1>4

LEMMA PersistStep ==
  ASSUME RenewalIInv, NEW p \in Cleaners, PersistState(p)
  PROVE  RenewalIInv'
<1> DEFINE n == renewer[p].made
<1>1. /\ RenewalTypes /\ renewer[p] \in Sweep /\ renewer[p].step = "persist"
      /\ n \in Created /\ opps[n].fallback = renewer[p].fallback
  BY DEF RenewalIInv, RenewalTypes, MadeKnown, PersistState
<1>2. /\ UNCHANGED <<opps, picklist, stageTask, crossed, died, sweepDay>> /\ NextDue(p)
      /\ states' = IF states[n].there THEN states ELSE [states EXCEPT ![n] = StateRow(p)]
  BY DEF PersistState
<1>3. /\ renewer' \in [Cleaners -> Sweep]
      /\ renewer'[p].step = "next" /\ renewer'[p].made = 0
      /\ \A q \in Cleaners \ {p} : renewer'[q] = renewer[q]
  BY <1>1, <1>2, NextDueFacts
<1>4. \A m \in Created : m \in 1 .. MaxOpps /\ m \in 1 .. Len(opps)
  BY <1>1, OppFacts, RenewalAssumption DEF Created, RenewalIInv, RowsFollow
<1>5. /\ states' \in [1 .. MaxOpps -> [there : BOOLEAN, provisional : BOOLEAN]]
      /\ states'[n].there
      /\ states[n].there => states' = states
      /\ ~ states[n].there => states'[n].provisional = opps[n].fallback
      /\ \A m \in (1 .. MaxOpps) \ {n} : states'[m] = states[m]
  <2>1. renewer[p].fallback \in BOOLEAN
    BY <1>1 DEF Sweep
  <2>2. states \in [1 .. MaxOpps -> [there : BOOLEAN, provisional : BOOLEAN]]
    BY <1>1 DEF RenewalTypes
  <2>3. CASE states[n].there
    BY <1>2, <2>2, <2>3
  <2>4. CASE ~ states[n].there
    BY <1>1, <1>2, <1>4, <2>1, <2>2, <2>4 DEF StateRow
  <2>5. QED
    BY <2>3, <2>4
<1>6. RenewalTypes'
  BY <1>1, <1>2, <1>3, <1>5 DEF RenewalTypes
<1>7. Created' = Created /\ \A m : Key(m)' = Key(m)
  BY <1>2 DEF Created, Key
<1>8. MadeKnown'
  BY <1>2, <1>3, <1>7, OppFacts, <1>1 DEF RenewalIInv, MadeKnown
<1>9. \A q \in Cleaners : \A d : AtWork(q, d)' => AtWork(q, d)
  BY <1>3 DEF AtWork
<1>10. OneAtWork'
  BY <1>2, <1>9 DEF RenewalIInv, OneAtWork
<1>11. NoneYet'
  BY <1>2, <1>3, <1>7 DEF RenewalIInv, NoneYet
<1>12. RowIsComing'
  BY <1>1, <1>2, <1>3, <1>4, <1>5, <1>7 DEF RenewalIInv, RowIsComing
<1>13. RowsFollow'
  BY <1>1, <1>2, <1>4, <1>5, <1>7, OppFacts DEF RenewalIInv, RowsFollow
<1>14. RenewedOnce'
  BY <1>2, <1>7 DEF RenewalIInv, RenewedOnce
<1>15. FallbackIsProvisional'
  BY <1>1, <1>2, <1>4, <1>5, <1>7 DEF RenewalIInv, FallbackIsProvisional
<1>16. QED
  BY <1>6, <1>8, <1>10, <1>11, <1>12, <1>13, <1>14, <1>15 DEF RenewalIInv

(* A sweep that ends, or is killed: what it had made counts as died.       *)
LEMMA EndSweepStep ==
  ASSUME RenewalIInv, NEW p \in Cleaners, FinishSweep(p) \/ KillRenewer(p)
  PROVE  RenewalIInv'
<1>1. RenewalTypes
  BY DEF RenewalIInv
<1>2. /\ renewer' = [renewer EXCEPT ![p] = NoSweep] /\ died \subseteq died'
      /\ renewer[p].step = "persist" => renewer[p].made \in died'
      /\ UNCHANGED <<opps, picklist, states, stageTask, crossed, sweepDay>>
  BY DEF FinishSweep, KillRenewer
<1>3. /\ renewer' \in [Cleaners -> Sweep] /\ renewer'[p] = NoSweep
      /\ \A q \in Cleaners \ {p} : renewer'[q] = renewer[q]
  BY <1>1, <1>2, NoSweepType, RenewerTypes
<1>4. RenewalTypes'
  BY <1>1, <1>2, <1>3 DEF RenewalTypes
<1>5. QED
  BY <1>2, <1>3, <1>4, NoSweepType, CalmRenewal

(* People close an opportunity, or move the end of a contract.             *)
LEMMA PeopleStep ==
  ASSUME RenewalIInv, NEW n \in DOMAIN opps, Close(n) \/ \E end \in Ends : MoveEnd(n, end)
  PROVE  RenewalIInv'
<1>1. RenewalTypes /\ opps[n] \in Opp
  BY OppFacts DEF RenewalIInv
<1>2. PICK new \in Opp : /\ opps' = [opps EXCEPT ![n] = new]
                         /\ new.renewal = opps[n].renewal /\ new.fallback = opps[n].fallback
                         /\ opps[n].renewal => /\ new.customer = opps[n].customer
                                               /\ new.end = opps[n].end
  <2>1. CASE Close(n)
    <3> DEFINE new == [opps[n] EXCEPT !.open = FALSE]
    <3>1. new \in Opp
      BY <1>1 DEF Opp
    <3>2. /\ new.renewal = opps[n].renewal /\ new.fallback = opps[n].fallback
          /\ new.customer = opps[n].customer /\ new.end = opps[n].end
      BY <1>1 DEF Opp
    <3>3. opps' = [opps EXCEPT ![n] = new]
      BY <2>1 DEF Close
    <3> HIDE DEF new
    <3>4. QED
      BY <3>1, <3>2, <3>3
  <2>2. ASSUME NEW end \in Ends, MoveEnd(n, end)
        PROVE  \E new \in Opp : /\ opps' = [opps EXCEPT ![n] = new]
                                /\ new.renewal = opps[n].renewal
                                /\ new.fallback = opps[n].fallback
                                /\ opps[n].renewal => /\ new.customer = opps[n].customer
                                                      /\ new.end = opps[n].end
    <3> DEFINE new == [opps[n] EXCEPT !.end = end]
    <3>1. new \in Opp /\ ~ opps[n].renewal
      BY <1>1, <2>2 DEF Opp, MoveEnd
    <3>2. new.renewal = opps[n].renewal /\ new.fallback = opps[n].fallback
      BY <1>1 DEF Opp
    <3>3. opps' = [opps EXCEPT ![n] = new]
      BY <2>2 DEF MoveEnd
    <3> HIDE DEF new
    <3>4. QED
      BY <3>1, <3>2, <3>3
  <2>3. QED
    BY <2>1, <2>2
<1>3. UNCHANGED <<picklist, states, stageTask, renewer, crossed, died, sweepDay>>
  BY DEF Close, MoveEnd
<1>4. /\ opps' \in Seq(Opp) /\ Len(opps') = Len(opps)
      /\ \A m \in DOMAIN opps : opps'[m] = IF m = n THEN new ELSE opps[m]
  BY <1>1, <1>2 DEF RenewalTypes
<1>5. RenewalTypes'
  BY <1>1, <1>3, <1>4 DEF RenewalTypes
<1>6. QED
  BY <1>2, <1>3, <1>4, <1>5, CalmRenewal

LEMMA NextRenewal == RenewalIInv /\ [RenewalNext]_renewalVars => RenewalIInv'
<1> SUFFICES ASSUME RenewalIInv, [RenewalNext]_renewalVars PROVE RenewalIInv'
  OBVIOUS
<1>1. ASSUME NEW p \in Cleaners, PersistState(p) \/ FinishSweep(p) \/ KillRenewer(p)
      PROVE  RenewalIInv'
  BY <1>1, PersistStep, EndSweepStep
<1>2. ASSUME NEW p \in Cleaners, NEW describes \in BOOLEAN, StartRenewals(p, describes)
      PROVE  RenewalIInv'
  BY <1>2, StartSweepStep
<1>3. ASSUME NEW p \in Cleaners, NEW due \in renewer[p].todo, CheckExisting(p, due)
      PROVE  RenewalIInv'
  BY <1>3, PreCheckStep
<1>4. ASSUME NEW p \in Cleaners, NEW outcome \in {"created", "refused", "unanswered"},
             CreateRenewal(p, outcome)
      PROVE  RenewalIInv'
  BY <1>4, CreateRenewalStep
<1>5. ASSUME NEW n \in DOMAIN opps, Close(n) \/ \E end \in Ends : MoveEnd(n, end)
      PROVE  RenewalIInv'
  BY <1>5, PeopleStep
<1>6. CASE AddPicklistValue \/ NextSweepDay \/ UNCHANGED renewalVars
  <2>1. UNCHANGED <<opps, states, renewer, crossed, died>>
    BY <1>6 DEF AddPicklistValue, NextSweepDay, renewalVars
  <2>2. picklist' \in BOOLEAN /\ stageTask' \in BOOLEAN
    BY <1>6 DEF AddPicklistValue, NextSweepDay, renewalVars, RenewalIInv, RenewalTypes
  <2>3. sweepDay' \in 0 .. LastSweepDay
    BY <1>6, RenewalAssumption
    DEF AddPicklistValue, NextSweepDay, renewalVars, RenewalIInv, RenewalTypes
  <2>4. RenewalTypes'
    BY <2>1, <2>2, <2>3 DEF RenewalIInv, RenewalTypes
  <2>5. QED
    BY <2>1, <2>4, CalmRenewal
<1>7. QED
  BY <1>1, <1>2, <1>3, <1>4, <1>5, <1>6 DEF RenewalNext

(* For any customers, ends and number of sweeps, whichever of them dies    *)
(* behind its create: a contract end is renewed once unless two sweeps are *)
(* at work on it at once, and a renewal under the fallback stage is        *)
(* provisional (_existing_renewal, _create_renewal_opp, _persist_state).   *)
THEOREM RenewalHolds == RenewalSpec => []RenewalInv
<1>1. RenewalIInv => RenewalInv
  <2> SUFFICES ASSUME RenewalIInv PROVE RenewalTypeOK
    BY DEF RenewalIInv, RenewalInv
  <2>1. \A n \in DOMAIN opps : opps[n].customer \in Customers /\ opps[n].end \in Ends
    BY OppFacts DEF RenewalIInv, Opp
  <2>2. \A p \in Cleaners : /\ renewer[p].step \in {"idle", "next", "create", "persist"}
                            /\ renewer[p].todo \subseteq Customers \X Ends
                            /\ renewer[p].made \in 0 .. Len(opps)
    BY OppFacts DEF RenewalIInv, MadeKnown, Sweep, Dues
  <2>3. QED
    BY <2>1, <2>2 DEF RenewalIInv, RenewalTypes, RenewalTypeOK
<1>2. QED
  BY <1>1, InitRenewal, NextRenewal, PTL DEF RenewalSpec

-----------------------------------------------------------------------------
(* The bulk update *)

Values == Jobs \union {0, Edited}
BulkJob == [step : {"idle", "snapshot", "audit", "patch", "done"}, todo : SUBSET Ids,
            now : SUBSET Ids, before : [Ids -> Values]]
AuditRows == [job : Jobs, rows : SUBSET Ids, before : [Ids -> Values]]

BulkTypes ==
    /\ values \in [Rows -> Values]
    /\ job \in [Jobs -> BulkJob]
    /\ batches \in 0 .. DailyCap
    /\ snapshots \in Seq(AuditRows)
    /\ wrote \subseteq Jobs \X Rows

(* Between its snapshot and its last chunk.                                *)
UnderWay(j) == job[j].step \in {"audit", "patch"}

(* What a job is about to overwrite is as its snapshot says, or somebody   *)
(* else has written it since.                                              *)
SnapshotStands ==
    \A j \in Jobs : UnderWay(j) =>
        \A r \in (job[j].todo \union job[j].now) \intersect Rows :
            <<j, r>> \in raced \/ job[j].before[r] = values[r]

(* The chunk being written is not written again, and its row is there.     *)
ChunkIsFiled ==
    \A j \in Jobs :
        /\ job[j].todo \intersect job[j].now = {}
        /\ job[j].step # "patch" => job[j].now = {}
        /\ job[j].step = "patch" =>
            \E n \in DOMAIN snapshots : /\ snapshots[n].job = j
                                        /\ snapshots[n].rows = job[j].now
                                        /\ snapshots[n].before = job[j].before

BulkIInv == BulkTypes /\ SnapshotStands /\ ChunkIsFiled /\ RevertibleFromAudit

LEMMA NoJobType ==
  /\ \A step \in {"snapshot", "done"} : \A ids \in SUBSET Ids :
        [NoJob EXCEPT !.step = step, !.todo = ids] \in BulkJob
  /\ NoJob \in BulkJob /\ NoJob.step = "idle" /\ NoJob.now = {} /\ NoJob.todo = {}
<1>1. [r \in Ids |-> 0] \in [Ids -> Values]
  BY DEF Values
<1>2. QED
  BY <1>1 DEF NoJob, BulkJob

LEMMA JobTypes ==
  ASSUME BulkTypes, NEW j \in Jobs, NEW work \in BulkJob, job' = [job EXCEPT ![j] = work]
  PROVE  /\ job' \in [Jobs -> BulkJob] /\ job'[j] = work
         /\ \A o \in Jobs \ {j} : job'[o] = job[o]
  BY DEF BulkTypes

LEMMA InitBulk == BulkInit => BulkIInv
<1> SUFFICES ASSUME BulkInit PROVE BulkIInv
  OBVIOUS
<1>1. BulkTypes
  <2>1. values \in [Rows -> Values] /\ wrote \subseteq Jobs \X Rows
    BY DEF BulkInit, Values
  <2>2. job \in [Jobs -> BulkJob] /\ snapshots \in Seq(AuditRows)
    <3>1. NoJob \in BulkJob /\ job = [j \in Jobs |-> NoJob] /\ snapshots = <<>>
      BY NoJobType DEF BulkInit
    <3>2. QED
      BY <3>1
  <2>3. batches \in 0 .. DailyCap
    BY BulkAssumption DEF BulkInit
  <2>4. QED
    BY <2>1, <2>2, <2>3 DEF BulkTypes
<1>2. \A j \in Jobs : job[j].step = "idle" /\ job[j].now = {}
  BY NoJobType DEF BulkInit
<1>3. QED
  BY <1>1, <1>2 DEF BulkIInv, SnapshotStands, ChunkIsFiled, UnderWay, RevertibleFromAudit, BulkInit

(* A step of one job that writes neither the org nor an audit row.         *)
LEMMA CalmBulk ==
  ASSUME BulkIInv, BulkTypes', NEW j \in Jobs, UNCHANGED <<values, snapshots, held, wrote, raced>>,
         \A o \in Jobs \ {j} : job'[o] = job[o],
         job'[j].step # "patch", job'[j].now = {},
         UnderWay(j)' => \A r \in job'[j].todo \intersect Rows : job'[j].before[r] = values[r]
  PROVE  BulkIInv'
<1>1. SnapshotStands'
  BY DEF BulkIInv, SnapshotStands, UnderWay
<1>2. ChunkIsFiled'
  BY DEF BulkIInv, ChunkIsFiled
<1>3. RevertibleFromAudit'
  BY DEF BulkIInv, RevertibleFromAudit
<1>4. QED
  BY <1>1, <1>2, <1>3 DEF BulkIInv

LEMMA StartJobStep ==
  ASSUME BulkIInv, NEW j \in Jobs, NEW ids \in SUBSET Ids, StartJob(j, ids)
  PROVE  BulkIInv'
<1> DEFINE work == [NoJob EXCEPT !.step = "snapshot", !.todo = ids]
<1>1. work \in BulkJob /\ work.step = "snapshot" /\ work.now = {}
  BY NoJobType DEF NoJob
<1>2. job' = [job EXCEPT ![j] = work]
  BY DEF StartJob
<1> HIDE DEF work
<1>3. /\ job' \in [Jobs -> BulkJob] /\ job'[j] = work
      /\ \A o \in Jobs \ {j} : job'[o] = job[o]
  BY <1>1, <1>2, JobTypes DEF BulkIInv
<1>4. batches' \in 0 .. DailyCap
  BY BulkAssumption DEF StartJob, BulkIInv, BulkTypes
<1>5. UNCHANGED <<values, snapshots, held, wrote, raced>>
  BY DEF StartJob
<1>6. BulkTypes'
  BY <1>3, <1>4, <1>5 DEF BulkIInv, BulkTypes
<1>7. QED
  BY <1>1, <1>3, <1>5, <1>6, CalmBulk DEF UnderWay

LEMMA SnapshotStep ==
  ASSUME BulkIInv, NEW j \in Jobs, NEW dryRun \in BOOLEAN, Snapshot(j, dryRun)
  PROVE  BulkIInv'
<1> DEFINE taken == [r \in Ids |-> IF r \in Rows \intersect job[j].todo THEN values[r] ELSE 0]
           step == IF dryRun THEN "done" ELSE "audit"
           work == [job[j] EXCEPT !.step = step, !.before = taken]
<1>1. job[j] \in BulkJob /\ values \in [Rows -> Values] /\ job[j].now = {}
  BY DEF BulkIInv, BulkTypes, ChunkIsFiled, Snapshot
<1>2. taken \in [Ids -> Values]
  BY <1>1 DEF Values
<1>3. step \in {"done", "audit"}
  OBVIOUS
<1>4. job' = [job EXCEPT ![j] = work]
  BY <1>1 DEF Snapshot, BulkIInv, BulkTypes
<1>5. \A r \in job[j].todo \intersect Rows : taken[r] = values[r]
  BY <1>1 DEF BulkJob
<1> HIDE DEF taken, step
<1>6. work \in BulkJob /\ work.step # "patch" /\ work.now = {} /\ work.before = taken
      /\ work.todo = job[j].todo
  BY <1>1, <1>2, <1>3 DEF BulkJob
<1> HIDE DEF work
<1>7. /\ job' \in [Jobs -> BulkJob] /\ job'[j] = work
      /\ \A o \in Jobs \ {j} : job'[o] = job[o]
  BY <1>4, <1>6, JobTypes DEF BulkIInv
<1>8. UNCHANGED <<values, batches, snapshots, held, wrote, raced>>
  BY DEF Snapshot
<1>9. BulkTypes'
  BY <1>7, <1>8 DEF BulkIInv, BulkTypes
<1>10. QED
  BY <1>5, <1>6, <1>7, <1>8, <1>9, CalmBulk

(* The audit row of a chunk holds what the snapshot holds.                 *)
LEMMA WriteAuditStep ==
  ASSUME BulkIInv, NEW j \in Jobs, WriteAudit(j)
  PROVE  BulkIInv'
<1> DEFINE chunk == FirstOf(job[j].todo)
           row == [job |-> j, rows |-> chunk, before |-> job[j].before]
           work == [job[j] EXCEPT !.step = "patch", !.now = chunk, !.todo = job[j].todo \ chunk]
           n == Len(snapshots) + 1
<1>1. job[j] \in BulkJob /\ snapshots \in Seq(AuditRows) /\ job[j].step = "audit"
  BY DEF BulkIInv, BulkTypes, WriteAudit
<1>2. chunk \subseteq job[j].todo /\ job[j].todo \subseteq Ids
  BY <1>1 DEF FirstOf, BulkJob
<1>3. job' = [job EXCEPT ![j] = work]
  BY <1>1 DEF WriteAudit, BulkIInv, BulkTypes
<1>4. snapshots' = Append(snapshots, row)
  BY DEF WriteAudit, AuditRow
<1> HIDE DEF chunk
<1>5. /\ work \in BulkJob /\ work.step = "patch" /\ work.now = chunk
      /\ work.before = job[j].before /\ work.todo = job[j].todo \ chunk
  BY <1>1, <1>2 DEF BulkJob
<1>6. row \in AuditRows /\ row.job = j /\ row.rows = chunk /\ row.before = job[j].before
  BY <1>1, <1>2 DEF AuditRows, BulkJob
<1> HIDE DEF work, row
<1>7. /\ job' \in [Jobs -> BulkJob] /\ job'[j] = work
      /\ \A o \in Jobs \ {j} : job'[o] = job[o]
  BY <1>3, <1>5, JobTypes DEF BulkIInv
<1>8. /\ snapshots' \in Seq(AuditRows) /\ snapshots'[n] = row /\ n \in DOMAIN snapshots'
      /\ \A m \in DOMAIN snapshots : m \in DOMAIN snapshots' /\ snapshots'[m] = snapshots[m]
  BY <1>1, <1>4, <1>6
<1>9. UNCHANGED <<values, batches, held, wrote, raced>>
  BY DEF WriteAudit
<1>10. BulkTypes'
  BY <1>7, <1>8, <1>9 DEF BulkIInv, BulkTypes
<1>11. SnapshotStands'
  <2> SUFFICES ASSUME NEW o \in Jobs, job'[o].step \in {"audit", "patch"},
                      NEW r \in (job'[o].todo \union job'[o].now) \intersect Rows
               PROVE  <<o, r>> \in raced \/ job'[o].before[r] = values[r]
    BY <1>9 DEF SnapshotStands, UnderWay
  <2>1. /\ job[o].step \in {"audit", "patch"} /\ job'[o].before = job[o].before
        /\ r \in (job[o].todo \union job[o].now) \intersect Rows
    BY <1>1, <1>2, <1>5, <1>7
  <2>2. QED
    BY <2>1 DEF BulkIInv, SnapshotStands, UnderWay
<1>12. ChunkIsFiled'
  BY <1>5, <1>6, <1>7, <1>8 DEF BulkIInv, ChunkIsFiled
<1>13. RevertibleFromAudit'
  BY <1>8, <1>9 DEF BulkIInv, RevertibleFromAudit
<1>14. QED
  BY <1>10, <1>11, <1>12, <1>13 DEF BulkIInv

(* A chunk reaches the org, in part or whole: its row has what it takes    *)
(* away, and other jobs on the way are raced.                              *)
LEMMA PatchStep ==
  ASSUME BulkIInv, NEW j \in Jobs, NEW taken \in SUBSET (job[j].now \intersect Rows),
         NEW answered \in BOOLEAN, Patch(j, taken, answered)
  PROVE  BulkIInv'
<1> DEFINE ended == [NoJob EXCEPT !.step = "done"]
           next == [job[j] EXCEPT !.step = "audit", !.now = {}]
           work == IF answered /\ job[j].todo # {} THEN next ELSE ended
<1>1. /\ job[j] \in BulkJob /\ values \in [Rows -> Values] /\ job[j].step = "patch"
      /\ wrote \subseteq Jobs \X Rows
  BY DEF BulkIInv, BulkTypes, Patch
<1>2. /\ values' = [r \in Rows |-> IF r \in taken THEN j ELSE values[r]]
      /\ held' = [k \in Jobs \X Rows |-> IF k[1] = j /\ k[2] \in taken THEN values[k[2]]
                                         ELSE held[k]]
      /\ wrote' = wrote \union {<<j, r>> : r \in taken}
      /\ raced' = raced \union {k \in (Jobs \ {j}) \X taken : job[k[1]].step \in {"audit", "patch"}}
      /\ UNCHANGED <<batches, snapshots>>
  BY DEF Patch
<1>3. job' = [job EXCEPT ![j] = work]
  BY DEF Patch
<1>4. ended \in BulkJob /\ ended.step = "done" /\ ended.now = {}
  <2>1. NoJob \in BulkJob /\ NoJob.now = {}
    BY NoJobType
  <2>2. QED
    BY <2>1 DEF BulkJob
<1>5. /\ next \in BulkJob /\ next.step = "audit" /\ next.now = {} /\ next.todo = job[j].todo
      /\ next.before = job[j].before
  BY <1>1 DEF BulkJob
<1> HIDE DEF ended, next
<1>6. /\ work \in BulkJob /\ work.now = {}
      /\ \/ work.step = "done"
         \/ work.step = "audit" /\ work.todo = job[j].todo /\ work.before = job[j].before
  BY <1>4, <1>5
<1> HIDE DEF work
<1>7. /\ job' \in [Jobs -> BulkJob] /\ job'[j] = work
      /\ \A o \in Jobs \ {j} : job'[o] = job[o]
  BY <1>3, <1>6, JobTypes DEF BulkIInv
<1>8. values' \in [Rows -> Values] /\ taken \subseteq Rows
  BY <1>1, <1>2 DEF Values
<1>9. wrote' \subseteq Jobs \X Rows
  BY <1>1, <1>2, <1>8
<1>10. BulkTypes'
  BY <1>2, <1>7, <1>8, <1>9 DEF BulkIInv, BulkTypes
<1>11. SnapshotStands'
  <2> SUFFICES ASSUME NEW o \in Jobs, job'[o].step \in {"audit", "patch"},
                      NEW r \in (job'[o].todo \union job'[o].now) \intersect Rows
               PROVE  <<o, r>> \in raced' \/ job'[o].before[r] = values'[r]
    BY DEF SnapshotStands, UnderWay
  <2>1. CASE o = j
    <3>1. r \in job[j].todo /\ r \notin taken /\ job'[o].before = job[j].before
      BY <1>6, <1>7, <2>1 DEF BulkIInv, ChunkIsFiled
    <3>2. values'[r] = values[r] /\ raced \subseteq raced'
      BY <1>2, <3>1
    <3>3. <<j, r>> \in raced \/ job[j].before[r] = values[r]
      BY <1>1, <3>1 DEF BulkIInv, SnapshotStands, UnderWay
    <3>4. QED
      BY <2>1, <3>1, <3>2, <3>3
  <2>2. CASE o # j
    <3>1. job'[o] = job[o]
      BY <1>7, <2>2
    <3>2. CASE r \in taken
      BY <1>2, <2>2, <3>1, <3>2
    <3>3. CASE r \notin taken
      BY <1>2, <3>1, <3>3 DEF BulkIInv, SnapshotStands, UnderWay
    <3>4. QED
      BY <3>2, <3>3
  <2>3. QED
    BY <2>1, <2>2
<1>12. ChunkIsFiled'
  BY <1>2, <1>6, <1>7 DEF BulkIInv, ChunkIsFiled
<1>13. RevertibleFromAudit'
  <2> SUFFICES ASSUME NEW k \in wrote' \ raced'
               PROVE  \E n \in DOMAIN snapshots :
                        /\ snapshots[n].job = k[1] /\ k[2] \in snapshots[n].rows
                        /\ snapshots[n].before[k[2]] = held'[k]
    BY <1>2 DEF RevertibleFromAudit
  <2>1. k \in Jobs \X Rows /\ k \notin raced
    BY <1>2, <1>9
  <2>2. CASE k[1] = j /\ k[2] \in taken
    <3>1. held'[k] = values[k[2]]
      BY <1>2, <2>1, <2>2
    <3>2. job[j].before[k[2]] = values[k[2]]
      <4>1. k = <<j, k[2]>> /\ k[2] \in job[j].now \intersect Rows
        BY <2>1, <2>2
      <4>2. QED
        BY <1>1, <2>1, <4>1 DEF BulkIInv, SnapshotStands, UnderWay
    <3>3. PICK n \in DOMAIN snapshots : /\ snapshots[n].job = j
                                       /\ snapshots[n].rows = job[j].now
                                       /\ snapshots[n].before = job[j].before
      BY <1>1 DEF BulkIInv, ChunkIsFiled
    <3>4. QED
      BY <2>2, <3>1, <3>2, <3>3
  <2>3. CASE ~ (k[1] = j /\ k[2] \in taken)
    <3>1. k \in wrote /\ held'[k] = held[k]
      BY <1>2, <2>1, <2>3
    <3>2. QED
      BY <2>1, <3>1 DEF BulkIInv, RevertibleFromAudit
  <2>4. QED
    BY <2>2, <2>3
<1>14. QED
  BY <1>10, <1>11, <1>12, <1>13 DEF BulkIInv

LEMMA KillJobStep ==
  ASSUME BulkIInv, NEW j \in Jobs, KillJob(j)
  PROVE  BulkIInv'
<1> DEFINE ended == [NoJob EXCEPT !.step = "done"]
<1>1. ended \in BulkJob /\ ended.step = "done" /\ ended.now = {}
  <2>1. NoJob \in BulkJob /\ NoJob.now = {}
    BY NoJobType
  <2>2. QED
    BY <2>1 DEF BulkJob
<1>2. job' = [job EXCEPT ![j] = ended]
  BY DEF KillJob
<1> HIDE DEF ended
<1>3. /\ job' \in [Jobs -> BulkJob] /\ job'[j] = ended
      /\ \A o \in Jobs \ {j} : job'[o] = job[o]
  BY <1>1, <1>2, JobTypes DEF BulkIInv
<1>4. UNCHANGED <<values, batches, snapshots, held, wrote, raced>>
  BY DEF KillJob
<1>5. BulkTypes'
  BY <1>3, <1>4 DEF BulkIInv, BulkTypes
<1>6. QED
  BY <1>1, <1>3, <1>4, <1>5, CalmBulk DEF UnderWay

LEMMA EditStep ==
  ASSUME BulkIInv, NEW r \in Rows, Edit(r)
  PROVE  BulkIInv'
<1>1. /\ values' = [values EXCEPT ![r] = Edited]
      /\ raced' = raced \union {<<o, r>> : o \in {q \in Jobs : job[q].step \in {"audit", "patch"}}}
      /\ UNCHANGED <<job, batches, snapshots, held, wrote>>
  BY DEF Edit
<1>2. values \in [Rows -> Values] /\ values' \in [Rows -> Values]
  BY <1>1 DEF BulkIInv, BulkTypes, Values
<1>3. BulkTypes'
  BY <1>1, <1>2 DEF BulkIInv, BulkTypes
<1>4. SnapshotStands'
  <2> SUFFICES ASSUME NEW o \in Jobs, job[o].step \in {"audit", "patch"},
                      NEW s \in (job[o].todo \union job[o].now) \intersect Rows
               PROVE  <<o, s>> \in raced' \/ job[o].before[s] = values'[s]
    BY <1>1 DEF SnapshotStands, UnderWay
  <2>1. CASE s = r
    BY <1>1, <2>1
  <2>2. CASE s # r
    BY <1>1, <1>2, <2>2 DEF BulkIInv, SnapshotStands, UnderWay
  <2>3. QED
    BY <2>1, <2>2
<1>5. ChunkIsFiled'
  BY <1>1 DEF BulkIInv, ChunkIsFiled
<1>6. RevertibleFromAudit'
  BY <1>1 DEF BulkIInv, RevertibleFromAudit
<1>7. QED
  BY <1>3, <1>4, <1>5, <1>6 DEF BulkIInv

LEMMA NextBulk == BulkIInv /\ [BulkNext]_bulkVars => BulkIInv'
<1> SUFFICES ASSUME BulkIInv, [BulkNext]_bulkVars PROVE BulkIInv'
  OBVIOUS
<1>1. ASSUME NEW j \in Jobs, NEW ids \in SUBSET Ids, StartJob(j, ids) PROVE BulkIInv'
  BY <1>1, StartJobStep
<1>2. ASSUME NEW j \in Jobs, NEW dryRun \in BOOLEAN, Snapshot(j, dryRun) PROVE BulkIInv'
  BY <1>2, SnapshotStep
<1>3. ASSUME NEW j \in Jobs, WriteAudit(j) \/ KillJob(j) PROVE BulkIInv'
  BY <1>3, WriteAuditStep, KillJobStep
<1>4. ASSUME NEW j \in Jobs, NEW taken \in SUBSET (job[j].now \intersect Rows),
             NEW answered \in BOOLEAN, Patch(j, taken, answered)
      PROVE  BulkIInv'
  BY <1>4, PatchStep
<1>5. ASSUME NEW r \in Rows, Edit(r) PROVE BulkIInv'
  BY <1>5, EditStep
<1>6. CASE UNCHANGED bulkVars
  BY <1>6 DEF bulkVars, BulkIInv, BulkTypes, SnapshotStands, UnderWay, ChunkIsFiled,
              RevertibleFromAudit
<1>7. QED
  BY <1>1, <1>2, <1>3, <1>4, <1>5, <1>6 DEF BulkNext

(* For any records, jobs, chunk sizes and caps, whichever chunk fails or   *)
(* is not answered and whichever job is killed: an audit row holds what a  *)
(* job overwrote, unless another wrote the record since the job's snapshot *)
(* (BulkUpdater.run).                                                      *)
THEOREM BulkHolds == BulkSpec => []BulkInv
<1>1. BulkIInv => BulkInv
  <2> SUFFICES ASSUME BulkIInv PROVE BulkTypeOK
    BY DEF BulkIInv, BulkInv
  <2>1. \A j \in Jobs : job[j] \in BulkJob
    BY DEF BulkIInv, BulkTypes
  <2>2. QED
    BY <2>1 DEF BulkIInv, BulkTypes, BulkTypeOK, BulkJob, Values
<1>2. QED
  BY <1>1, InitBulk, NextBulk, PTL DEF BulkSpec

-----------------------------------------------------------------------------
(* Merges of duplicates: the operators *)

\* Some numbers have a least one.
LEMMA LeastOfSome ==
  ASSUME NEW S, S \subseteq Nat, S # {}
  PROVE  \E x \in S : \A y \in S : x =< y
<1>1. PICK x \in S : \A y \in S : ~ (<<y, x>> \in OpToRel(<, Nat))
  BY NatLessThanWellFounded, WFMin
<1>2. ASSUME NEW y \in S PROVE x =< y
  <2>1. x \in Nat /\ y \in Nat
    OBVIOUS
  <2>2. ~ (y < x)
    BY <1>1, <2>1 DEF OpToRel
  <2>3. QED
    BY <2>1, <2>2
<1>3. QED
  BY <1>1, <1>2

\* What is said of nought and goes on from a number to the next is said of all
\* numbers up to a bound.
LEMMA UpToABound ==
  ASSUME NEW L \in Nat, NEW G, 0 \in G,
         ASSUME NEW n \in Nat, n < L, n \in G PROVE n + 1 \in G
  PROVE  0 .. L \subseteq G
<1> DEFINE Bad == {n \in 0 .. L : n \notin G}
<1>1. SUFFICES ASSUME Bad # {} PROVE FALSE
  OBVIOUS
<1>2. PICK m \in Bad : \A x \in Bad : m =< x
  <2>1. Bad \subseteq Nat
    OBVIOUS
  <2> HIDE DEF Bad
  <2>2. QED
    BY <1>1, <2>1, LeastOfSome
<1>3. m \in Nat /\ m # 0 /\ m =< L
  BY <1>2
<1>4. m - 1 \in Nat /\ m - 1 < L /\ m - 1 \in 0 .. L /\ ~ (m =< m - 1)
  BY <1>3
<1>5. m - 1 \in G
  BY <1>2, <1>4
<1>6. (m - 1) + 1 \in G
  BY <1>4, <1>5
<1>7. QED
  BY <1>2, <1>3, <1>6

(* The records before one in an order.                                     *)
Before(S, R, r) == {s \in S : <<s, r>> \in R}
StrictOrder(S, R) ==
    /\ \A r \in S : <<r, r>> \notin R
    /\ \A r, s \in S : r = s \/ <<r, s>> \in R \/ <<s, r>> \in R
    /\ \A r, s, t \in S : <<r, s>> \in R /\ <<s, t>> \in R => <<r, t>> \in R

\* In a finite order each place is taken, by one.
LEMMA EachPlace ==
  ASSUME NEW S, IsFiniteSet(S), NEW R, StrictOrder(S, R)
  PROVE  \A n \in 1 .. Cardinality(S) : \E r \in S : Cardinality(Before(S, R, r)) = n - 1
<1> DEFINE size == Cardinality(S)
<1> DEFINE rank == [r \in S |-> Cardinality(Before(S, R, r)) + 1]
<1>1. size \in Nat
  BY FS_CardinalityType
<1>2. ASSUME NEW r \in S
      PROVE  /\ IsFiniteSet(Before(S, R, r)) /\ Cardinality(Before(S, R, r)) \in Nat
             /\ Cardinality(Before(S, R, r)) < size
  <2>1. Before(S, R, r) \in SUBSET S /\ r \notin Before(S, R, r)
    BY DEF Before, StrictOrder
  <2>2. IsFiniteSet(Before(S, R, r)) /\ Cardinality(Before(S, R, r)) =< size
        /\ Cardinality(Before(S, R, r)) # size
    BY <2>1, FS_Subset
  <2>3. Cardinality(Before(S, R, r)) \in Nat
    BY <2>2, FS_CardinalityType
  <2>4. QED
    BY <1>1, <2>2, <2>3
<1>3. rank \in [S -> 1 .. size]
  <2>1. ASSUME NEW r \in S PROVE rank[r] \in 1 .. size
    BY <1>1, <1>2
  <2>2. QED
    BY <2>1
<1>4. ASSUME NEW r \in S, NEW s \in S, <<r, s>> \in R PROVE rank[r] # rank[s]
  <2>1. Before(S, R, r) \in SUBSET Before(S, R, s) /\ Before(S, R, r) # Before(S, R, s)
    BY <1>4 DEF Before, StrictOrder
  <2>2. IsFiniteSet(Before(S, R, s))
    BY <1>2
  <2>3. Cardinality(Before(S, R, r)) # Cardinality(Before(S, R, s))
    BY <2>1, <2>2, FS_Subset
  <2>4. /\ Cardinality(Before(S, R, r)) \in Nat /\ Cardinality(Before(S, R, s)) \in Nat
    BY <1>2
  <2>5. QED
    BY <2>3, <2>4
<1>5. rank \in Injection(S, 1 .. size)
  <2>1. ASSUME NEW r \in S, NEW s \in S, rank[r] = rank[s] PROVE r = s
    BY <1>4, <2>1 DEF StrictOrder
  <2> HIDE DEF rank
  <2>2. QED
    BY <1>3, <2>1 DEF Injection, IsInjective
<1>6. IsFiniteSet(1 .. size) /\ Cardinality(1 .. size) = size
  <2>1. 1 \in Int /\ size \in Int
    BY <1>1
  <2>2. Cardinality(1 .. size) = IF 1 > size THEN 0 ELSE size - 1 + 1
    BY <2>1, FS_Interval
  <2>3. IsFiniteSet(1 .. size)
    BY <2>1, FS_Interval
  <2>4. QED
    BY <1>1, <2>2, <2>3
<1>7. rank \in Surjection(S, 1 .. size)
  <2> HIDE DEF rank
  <2>1. QED
    BY <1>5, <1>6, FS_Injection
<1>8. ASSUME NEW n \in 1 .. size PROVE \E r \in S : Cardinality(Before(S, R, r)) = n - 1
  <2>1. PICK r \in S : rank[r] = n
    <3> HIDE DEF rank
    <3>1. QED
      BY <1>7 DEF Surjection, Range
  <2>2. Cardinality(Before(S, R, r)) + 1 = n /\ Cardinality(Before(S, R, r)) \in Nat /\ n \in Nat
    BY <1>1, <1>2, <2>1
  <2>3. QED
    BY <2>2
<1>9. QED
  BY <1>8

\* An order lists its set, each once.
LEMMA OrderLists ==
  ASSUME NEW S, IsFiniteSet(S), NEW R, StrictOrder(S, R)
  PROVE  /\ Cardinality(S) \in Nat
         /\ InOrder(S, R) \in [1 .. Cardinality(S) -> S]
         /\ \A m, n \in 1 .. Cardinality(S) : InOrder(S, R)[m] = InOrder(S, R)[n] => m = n
<1> DEFINE size == Cardinality(S)
<1> DEFINE list == InOrder(S, R)
<1>1. size \in Nat
  BY FS_CardinalityType
<1>2. list = [n \in 1 .. size |-> CHOOSE r \in S : Cardinality(Before(S, R, r)) = n - 1]
  BY DEF InOrder, Before
<1>3. ASSUME NEW n \in 1 .. size
      PROVE  list[n] \in S /\ Cardinality(Before(S, R, list[n])) = n - 1
  <2>1. \E r \in S : Cardinality(Before(S, R, r)) = n - 1
    BY EachPlace
  <2>2. list[n] = CHOOSE r \in S : Cardinality(Before(S, R, r)) = n - 1
    BY <1>2
  <2>3. QED
    BY <2>1, <2>2
<1>4. list \in [1 .. size -> S]
  <2>1. DOMAIN list = 1 .. size /\ list = [n \in 1 .. size |-> list[n]]
    BY <1>2
  <2> HIDE DEF list
  <2>2. QED
    BY <1>3, <2>1
<1>5. ASSUME NEW m \in 1 .. size, NEW n \in 1 .. size, list[m] = list[n] PROVE m = n
  <2>1. m - 1 = n - 1 /\ m \in Nat /\ n \in Nat
    BY <1>1, <1>3, <1>5
  <2>2. QED
    BY <2>1
<1>6. QED
  BY <1>1, <1>4, <1>5

\* Earlier orders numbers.
LEMMA EarlierIsAnOrder == ASSUME NEW S, S \subseteq Nat PROVE StrictOrder(S, Earlier)
<1>1. \A m, n \in Nat : <<m, n>> \in Earlier <=> m < n
  BY DEF Earlier
<1>2. \A m \in S : m \in Nat
  OBVIOUS
<1>3. \A r \in S : <<r, r>> \notin Earlier
  BY <1>1, <1>2
<1>4. ASSUME NEW r \in S, NEW s \in S
      PROVE  r = s \/ <<r, s>> \in Earlier \/ <<s, r>> \in Earlier
  <2>1. r \in Nat /\ s \in Nat
    BY <1>2
  <2>2. r < s \/ s < r \/ r = s
    BY <2>1
  <2>3. QED
    BY <1>1, <2>1, <2>2
<1>5. ASSUME NEW r \in S, NEW s \in S, NEW t \in S, <<r, s>> \in Earlier, <<s, t>> \in Earlier
      PROVE  <<r, t>> \in Earlier
  <2>1. r \in Nat /\ s \in Nat /\ t \in Nat
    BY <1>2
  <2>2. r < s /\ s < t
    BY <1>1, <1>5, <2>1
  <2>3. r < t
    BY <2>1, <2>2
  <2>4. QED
    BY <1>1, <2>1, <2>3
<1>6. QED
  BY <1>3, <1>4, <1>5 DEF StrictOrder

-----------------------------------------------------------------------------
(* Merges of duplicates: what hangs together *)

Hang(r, s) == Chained(r, s, Linked)
HangTogether(c) == c \subseteq Records /\ \A r, s \in c : Hang(r, s)

LEMMA HangIs ==
  ASSUME NEW r, NEW s
  PROVE  Hang(r, s) <=>
           \E within \in SUBSET Records :
              /\ {r, s} \subseteq within
              /\ \A part \in (SUBSET within) \ {{}, within} :
                    \E a \in part, b \in within \ part : Linked(a, b)
  BY DEF Hang, Chained

\* What is linked hangs together.
LEMMA LinkedHang ==
  ASSUME NEW r \in Records, NEW s \in Records, Linked(r, s), Linked(s, r)
  PROVE  Hang(r, s)
<1> DEFINE W == {r, s}
<1>1. W \in SUBSET Records /\ {r, s} \subseteq W
  OBVIOUS
<1>2. ASSUME NEW part \in (SUBSET W) \ {{}, W}
      PROVE  \E a \in part, b \in W \ part : Linked(a, b)
  <2>1. CASE r \in part
    <3>1. s \in W \ part
      BY <1>2, <2>1
    <3>2. QED
      BY <2>1, <3>1
  <2>2. CASE r \notin part
    <3>1. s \in part /\ r \in W \ part
      BY <1>2, <2>2
    <3>2. QED
      BY <3>1
  <2>3. QED
    BY <2>1, <2>2
<1>3. QED
  BY <1>1, <1>2, HangIs

\* To hang together goes both ways, and on.
LEMMA HangBack == ASSUME NEW r, NEW s, Hang(r, s) PROVE Hang(s, r)
<1>1. {r, s} = {s, r}
  OBVIOUS
<1>2. QED
  BY <1>1, HangIs

LEMMA HangOn ==
  ASSUME NEW r, NEW s, NEW t, Hang(r, s), Hang(s, t) PROVE Hang(r, t)
<1>1. PICK V \in SUBSET Records :
        /\ {r, s} \subseteq V
        /\ \A part \in (SUBSET V) \ {{}, V} : \E a \in part, b \in V \ part : Linked(a, b)
  BY HangIs
<1>2. PICK W \in SUBSET Records :
        /\ {s, t} \subseteq W
        /\ \A part \in (SUBSET W) \ {{}, W} : \E a \in part, b \in W \ part : Linked(a, b)
  BY HangIs
<1> DEFINE U == V \union W
<1>3. U \in SUBSET Records /\ {r, t} \subseteq U
  BY <1>1, <1>2
<1>4. ASSUME NEW part \in (SUBSET U) \ {{}, U}
      PROVE  \E a \in part, b \in U \ part : Linked(a, b)
  <2>1. CASE part \intersect V \notin {{}, V}
    <3>1. PICK a \in part \intersect V, b \in V \ (part \intersect V) : Linked(a, b)
      BY <1>1, <2>1
    <3>2. a \in part /\ b \in U \ part
      BY <3>1
    <3>3. QED
      BY <3>1, <3>2
  <2>2. CASE part \intersect W \notin {{}, W}
    <3>1. PICK a \in part \intersect W, b \in W \ (part \intersect W) : Linked(a, b)
      BY <1>2, <2>2
    <3>2. a \in part /\ b \in U \ part
      BY <3>1
    <3>3. QED
      BY <3>1, <3>2
  <2>3. CASE part \intersect V \in {{}, V} /\ part \intersect W \in {{}, W}
    <3>1. CASE s \in part
      <4>1. V \subseteq part /\ W \subseteq part
        BY <1>1, <1>2, <2>3, <3>1
      <4>2. QED
        BY <1>4, <4>1
    <3>2. CASE s \notin part
      <4>1. part \intersect V = {} /\ part \intersect W = {}
        BY <1>1, <1>2, <2>3, <3>2
      <4>2. QED
        BY <1>4, <4>1
    <3>3. QED
      BY <3>1, <3>2
  <2>4. QED
    BY <2>1, <2>2, <2>3
<1>5. QED
  BY <1>3, <1>4, HangIs

\* Two that hang together make one.
LEMMA HangJoin ==
  ASSUME NEW c, NEW d, HangTogether(c), HangTogether(d),
         NEW s \in c, NEW r \in d, Hang(s, r)
  PROVE  HangTogether(c \union d)
<1>1. c \union d \subseteq Records
  BY DEF HangTogether
<1>2. ASSUME NEW a \in c \union d PROVE Hang(a, s)
  <2>1. CASE a \in c
    BY <2>1 DEF HangTogether
  <2>2. CASE a \in d
    <3>1. Hang(a, r) /\ Hang(r, s)
      BY <2>2, HangBack DEF HangTogether
    <3>2. QED
      BY <3>1, HangOn
  <2>3. QED
    BY <2>1, <2>2
<1>3. ASSUME NEW a \in c \union d, NEW b \in c \union d PROVE Hang(a, b)
  <2>1. Hang(a, s) /\ Hang(s, b)
    BY <1>2, HangBack
  <2>2. QED
    BY <2>1, HangOn
<1>4. QED
  BY <1>1, <1>3 DEF HangTogether

\* Records that do not differ hang together.
LEMMA AlikeHang ==
  ASSUME alive \subseteq Records, NEW r \in alive
  PROVE  HangTogether(Alike(r)) /\ r \in Alike(r)
<1>1. Alike(r) \subseteq Records /\ r \in Alike(r)
  BY DEF Alike
<1>2. ASSUME NEW a \in Alike(r), NEW b \in Alike(r) PROVE Hang(a, b)
  <2>1. Linked(a, b) /\ Linked(b, a)
    BY <1>2 DEF Alike, Linked
  <2>2. a \in Records /\ b \in Records
    BY <1>1
  <2>3. QED
    BY <2>1, <2>2, LinkedHang
<1>3. QED
  BY <1>1, <1>2 DEF HangTogether

(* A sequence of clusters.                                                 *)
Clusters == {q \in Seq(SUBSET Records) : \A n \in DOMAIN q : HangTogether(q[n])}

\* A sub-cluster joins a cluster that it hangs together with.
LEMMA PlaceKeeps ==
  ASSUME alive \subseteq Records, NEW q \in Clusters, NEW r \in alive
  PROVE  Place(q, r) \in Clusters
<1> DEFINE hits == {n \in DOMAIN q : \E s \in q[n] : Shares(s, r)}
<1>1. q \in Seq(SUBSET Records) /\ \A n \in DOMAIN q : HangTogether(q[n])
  BY DEF Clusters
<1>2. HangTogether(Alike(r)) /\ r \in Alike(r) /\ Alike(r) \in SUBSET Records
  BY AlikeHang DEF Alike
<1>3. CASE hits = {}
  <2>1. Place(q, r) = Append(q, Alike(r))
    BY <1>3 DEF Place
  <2> DEFINE p == Append(q, Alike(r))
  <2>2. p \in Seq(SUBSET Records) /\ Len(q) \in Nat /\ DOMAIN p = 1 .. Len(q) + 1
        /\ DOMAIN q = 1 .. Len(q)
        /\ p[Len(q) + 1] = Alike(r) /\ \A n \in 1 .. Len(q) : p[n] = q[n]
    BY <1>1, <1>2
  <2> HIDE DEF p
  <2>3. ASSUME NEW n \in DOMAIN p PROVE HangTogether(p[n])
    <3>1. n \in 1 .. Len(q) \/ n = Len(q) + 1
      BY <2>2
    <3>2. QED
      BY <1>1, <1>2, <2>2, <3>1
  <2>4. p \in Clusters
    BY <2>2, <2>3 DEF Clusters
  <2>5. QED
    BY <2>1, <2>4 DEF p
<1>4. CASE hits # {}
  <2> DEFINE k == Least(hits)
  <2> DEFINE p == [q EXCEPT ![k] = @ \union Alike(r)]
  <2>1. Place(q, r) = p
    BY <1>4 DEF Place
  <2>2. hits \subseteq Nat /\ DOMAIN q = 1 .. Len(q)
    BY <1>1
  <2>3. k \in hits
    <3>1. \E x \in hits : \A y \in hits : x =< y
      <4> HIDE DEF hits
      <4>1. QED
        BY <1>4, <2>2, LeastOfSome
    <3> HIDE DEF hits
    <3>2. QED
      BY <3>1 DEF Least
  <2> HIDE DEF k
  <2>4. PICK s \in q[k] : Shares(s, r)
    BY <2>3
  <2>5. k \in DOMAIN q /\ HangTogether(q[k])
    BY <1>1, <2>3
  <2>6. Linked(s, r) /\ Linked(r, s) /\ s \in Records /\ r \in Records
    BY <2>4, <2>5 DEF Shares, Linked, Matches, HangTogether
  <2>7. HangTogether(q[k] \union Alike(r))
    BY <1>2, <2>4, <2>5, <2>6, LinkedHang, HangJoin
  <2>8. p \in Seq(SUBSET Records) /\ DOMAIN p = DOMAIN q /\ p[k] = q[k] \union Alike(r)
        /\ \A n \in DOMAIN q : n # k => p[n] = q[n]
    BY <1>1, <1>2, <2>5
  <2> HIDE DEF p
  <2>9. ASSUME NEW n \in DOMAIN p PROVE HangTogether(p[n])
    BY <1>1, <2>7, <2>8
  <2>10. QED
    BY <2>1, <2>8, <2>9 DEF Clusters
<1>5. QED
  BY <1>3, <1>4

-----------------------------------------------------------------------------
(* Merges of duplicates: the clusters of a scan *)

\* One sub-cluster after the other.
LEMMA PlacedIs ==
  ASSUME NEW L \in Nat, NEW subs \in [1 .. L -> alive]
  PROVE  \E g : /\ Placed(subs) = g[L] /\ g[0] = <<>>
                /\ \A n \in 1 .. L : g[n] = Place(g[n - 1], subs[n])
<1> DEFINE Step(g) == [n \in 0 .. L |-> IF n = 0 THEN <<>> ELSE Place(g[n - 1], subs[n])]
<1> DEFINE Good == {n \in Nat : \E g : \A m \in 0 .. L : m =< n => g[m] = Step(g)[m]}
<1>1. Len(subs) = L
  OBVIOUS
<1>2. 0 \in Good
  <2> DEFINE g == [n \in 0 .. L |-> <<>>]
  <2>1. \A m \in 0 .. L : m =< 0 => g[m] = Step(g)[m]
    OBVIOUS
  <2>2. QED
    BY <2>1
<1>3. ASSUME NEW n \in Nat, n < L, n \in Good PROVE n + 1 \in Good
  <2>1. PICK g : \A m \in 0 .. L : m =< n => g[m] = Step(g)[m]
    BY <1>3
  <2> DEFINE h == Step(g)
  <2>2. ASSUME NEW m \in 0 .. L, m =< n + 1 PROVE h[m] = Step(h)[m]
    <3>1. CASE m = 0
      BY <3>1
    <3>2. CASE m # 0
      <4>1. m - 1 \in 0 .. L /\ m - 1 =< n
        BY <2>2, <3>2
      <4>2. g[m - 1] = h[m - 1]
        BY <2>1, <4>1
      <4>3. h[m] = Place(g[m - 1], subs[m]) /\ Step(h)[m] = Place(h[m - 1], subs[m])
        BY <3>2
      <4>4. QED
        BY <4>2, <4>3
    <3>3. QED
      BY <3>1, <3>2
  <2> HIDE DEF h
  <2>3. QED
    BY <2>2
<1> HIDE DEF Good
<1>4. L \in Good
  <2>1. 0 .. L \subseteq Good
    BY <1>2, <1>3, UpToABound
  <2>2. QED
    BY <2>1
<1>5. PICK g : \A m \in 0 .. L : m =< L => g[m] = Step(g)[m]
  BY <1>4 DEF Good
<1> DEFINE h == Step(g)
<1>6. Step(h) = h
  <2>1. ASSUME NEW n \in 0 .. L PROVE Step(h)[n] = h[n]
    <3>1. CASE n = 0
      BY <3>1
    <3>2. CASE n # 0
      <4>1. n - 1 \in 0 .. L /\ n - 1 =< L
        BY <3>2
      <4>2. g[n - 1] = h[n - 1]
        BY <1>5, <4>1
      <4>3. h[n] = Place(g[n - 1], subs[n]) /\ Step(h)[n] = Place(h[n - 1], subs[n])
        BY <3>2
      <4>4. QED
        BY <4>2, <4>3
    <3>3. QED
      BY <3>1, <3>2
  <2> DEFINE k == Step(h)
  <2>2. /\ h = [n \in 0 .. L |-> h[n]] /\ k = [n \in 0 .. L |-> k[n]]
    OBVIOUS
  <2>3. \A n \in 0 .. L : k[n] = h[n]
    BY <2>1
  <2> HIDE DEF h, k
  <2>4. k = h
    BY <2>2, <2>3
  <2>5. QED
    BY <2>4 DEF k
<1> HIDE DEF h
<1> DEFINE f == CHOOSE f : f = Step(f)
<1>7. f = Step(f)
  BY <1>6
<1>8. Placed(subs) = f[L]
  BY <1>1 DEF Placed
<1> HIDE DEF f
<1>9. f[0] = <<>> /\ \A n \in 1 .. L : f[n] = Place(f[n - 1], subs[n])
  <2>1. f[0] = <<>>
    BY <1>7
  <2>2. ASSUME NEW n \in 1 .. L PROVE f[n] = Place(f[n - 1], subs[n])
    BY <1>7
  <2>3. QED
    BY <2>1, <2>2
<1>10. QED
  BY <1>8, <1>9

LEMMA PlacedClusters ==
  ASSUME alive \subseteq Records, NEW L \in Nat, NEW subs \in [1 .. L -> alive]
  PROVE  Placed(subs) \in Clusters
<1>1. PICK g : /\ Placed(subs) = g[L] /\ g[0] = <<>>
               /\ \A n \in 1 .. L : g[n] = Place(g[n - 1], subs[n])
  BY PlacedIs
<1> DEFINE G == {n \in Nat : g[n] \in Clusters}
<1>2. 0 \in G
  <2>1. <<>> \in Clusters
    BY DEF Clusters
  <2>2. QED
    BY <1>1, <2>1
<1>3. ASSUME NEW n \in Nat, n < L, n \in G PROVE n + 1 \in G
  <2>1. n + 1 \in 1 .. L /\ (n + 1) - 1 = n
    BY <1>3
  <2>2. g[n + 1] = Place(g[n], subs[n + 1]) /\ subs[n + 1] \in alive
    BY <1>1, <2>1
  <2>3. Place(g[n], subs[n + 1]) \in Clusters
    BY <1>3, <2>2, PlaceKeeps
  <2>4. QED
    BY <2>2, <2>3
<1> HIDE DEF G
<1>4. 0 .. L \subseteq G
  BY <1>2, <1>3, UpToABound
<1>5. L \in G
  BY <1>4
<1>6. QED
  BY <1>1, <1>5 DEF G

\* The clusters of more than one record are some of the clusters.
LEMMA SeveralKeeps ==
  ASSUME NEW q \in Clusters
  PROVE  Several(q) \in Clusters /\ \A n \in DOMAIN Several(q) : Cardinality(Several(q)[n]) > 1
<1> DEFINE many == {n \in DOMAIN q : Cardinality(q[n]) > 1}
<1> DEFINE kept == InOrder(many, Earlier)
<1> DEFINE size == Cardinality(many)
<1>1. /\ q \in Seq(SUBSET Records) /\ \A n \in DOMAIN q : HangTogether(q[n])
      /\ DOMAIN q = 1 .. Len(q) /\ Len(q) \in Nat
  BY DEF Clusters
<1>2. IsFiniteSet(many) /\ many \subseteq Nat
  <2>1. 1 \in Int /\ Len(q) \in Int
    BY <1>1
  <2>2. IsFiniteSet(1 .. Len(q))
    BY <2>1, FS_Interval
  <2>3. many \in SUBSET (1 .. Len(q)) /\ many \subseteq Nat
    BY <1>1
  <2>4. QED
    BY <2>2, <2>3, FS_Subset
<1>3. size \in Nat /\ kept \in [1 .. size -> many]
  <2> HIDE DEF many
  <2>1. StrictOrder(many, Earlier)
    BY <1>2, EarlierIsAnOrder
  <2>2. QED
    BY <1>2, <2>1, OrderLists
<1>4. Several(q) = [n \in DOMAIN kept |-> q[kept[n]]]
  BY DEF Several
<1> HIDE DEF kept, size
<1>5. Several(q) = [n \in 1 .. size |-> q[kept[n]]]
  BY <1>3, <1>4
<1>6. ASSUME NEW n \in 1 .. size
      PROVE  /\ q[kept[n]] \in SUBSET Records /\ HangTogether(q[kept[n]])
             /\ Cardinality(q[kept[n]]) > 1
  BY <1>1, <1>3
<1> DEFINE p == [n \in 1 .. size |-> q[kept[n]]]
<1>7. p \in Seq(SUBSET Records) /\ DOMAIN p = 1 .. size /\ \A n \in 1 .. size : p[n] = q[kept[n]]
  BY <1>3, <1>6
<1>8. Several(q) = p
  BY <1>5
<1> HIDE DEF p
<1>9. QED
  BY <1>6, <1>7, <1>8 DEF Clusters

LEMMA RecordsAreNumbers ==
  Records \subseteq Nat /\ IsFiniteSet(Records) /\ Cardinality(Records) \in Nat
<1>1. Cardinality(Records) \in Nat
  BY DedupAssumption, FS_CardinalityType
<1>2. QED
  BY <1>1, DedupAssumption

\* The clusters of accounts hang together.
LEMMA AccountsCluster ==
  ASSUME alive \subseteq Records
  PROVE  ClusterAccounts \in Clusters /\
         \A n \in DOMAIN ClusterAccounts : Cardinality(ClusterAccounts[n]) > 1
<1> DEFINE firsts == {Least(Alike(r)) : r \in alive}
<1> DEFINE subs == InOrder(firsts, Earlier)
<1>1. ASSUME NEW r \in alive PROVE Least(Alike(r)) \in alive
  <2>1. Alike(r) \subseteq Nat /\ Alike(r) # {} /\ Alike(r) \subseteq alive
    BY AlikeHang, RecordsAreNumbers DEF Alike
  <2>2. \E x \in Alike(r) : \A y \in Alike(r) : x =< y
    BY <2>1, LeastOfSome
  <2>3. Least(Alike(r)) \in Alike(r)
    BY <2>2 DEF Least
  <2>4. QED
    BY <2>1, <2>3
<1>2. firsts \in SUBSET alive /\ firsts \in SUBSET Records /\ firsts \subseteq Nat
  BY <1>1, RecordsAreNumbers
<1> HIDE DEF firsts
<1>3. IsFiniteSet(firsts)
  BY <1>2, RecordsAreNumbers, FS_Subset
<1>4. StrictOrder(firsts, Earlier)
  BY <1>2, EarlierIsAnOrder
<1>5. Cardinality(firsts) \in Nat /\ subs \in [1 .. Cardinality(firsts) -> firsts]
  BY <1>3, <1>4, OrderLists
<1>6. subs \in [1 .. Cardinality(firsts) -> alive]
  BY <1>2, <1>5
<1>7. Placed(subs) \in Clusters
  <2> HIDE DEF subs
  <2>1. QED
    BY <1>5, <1>6, PlacedClusters
<1>8. ClusterAccounts = Several(Placed(subs))
  BY DEF ClusterAccounts, firsts
<1> HIDE DEF subs
<1>9. QED
  BY <1>7, <1>8, SeveralKeeps

\* The contacts of an email hang together.
LEMMA ContactsCluster ==
  ASSUME alive \subseteq Records
  PROVE  ScanClusters \in Clusters /\
         \A n \in DOMAIN ScanClusters : Cardinality(ScanClusters[n]) > 1
<1> DEFINE emails == {found[r].domain : r \in alive} \ {Nowhere}
<1> DEFINE groups == {{r \in alive : found[r].domain = e} : e \in emails}
<1> DEFINE q == SetToSeq(groups)
<1>1. IsFiniteSet(groups)
  <2>1. groups \subseteq SUBSET Records
    OBVIOUS
  <2>2. IsFiniteSet(SUBSET Records)
    BY RecordsAreNumbers, FS_SUBSET
  <2>3. groups \in SUBSET (SUBSET Records)
    BY <2>1
  <2> HIDE DEF groups
  <2>4. QED
    BY <2>2, <2>3, FS_Subset
<1>2. ASSUME NEW c \in groups PROVE HangTogether(c)
  <2>1. PICK e \in emails : c = {r \in alive : found[r].domain = e}
    OBVIOUS
  <2>2. e # Nowhere /\ c \subseteq Records
    BY <2>1
  <2>3. ASSUME NEW a \in c, NEW b \in c PROVE Hang(a, b)
    <3>1. Linked(a, b) /\ Linked(b, a) /\ a \in Records /\ b \in Records
      BY <2>1, <2>2 DEF Linked, Matches
    <3>2. QED
      BY <3>1, LinkedHang
  <2>4. QED
    BY <2>2, <2>3 DEF HangTogether
<1>3. Cardinality(groups) \in Nat /\ q \in [1 .. Cardinality(groups) -> groups]
  <2> HIDE DEF groups
  <2>1. Cardinality(groups) \in Nat /\ ExistsBijection(1 .. Cardinality(groups), groups)
    BY <1>1, FS_CardinalityType
  <2>2. PICK f : f \in Bijection(1 .. Cardinality(groups), groups)
    BY <2>1 DEF ExistsBijection
  <2>3. f \in [1 .. Cardinality(groups) -> groups] /\ IsInjective(f)
    BY <2>2 DEF Bijection, Injection, IsInjective
  <2>4. q \in [1 .. Cardinality(groups) -> groups]
    BY <2>3 DEF SetToSeq
  <2>5. QED
    BY <2>1, <2>4
<1>4. q \in Clusters
  <2>1. \A n \in 1 .. Cardinality(groups) : HangTogether(q[n]) /\ q[n] \in SUBSET Records
    BY <1>2, <1>3 DEF HangTogether
  <2> HIDE DEF q, groups
  <2>2. q \in Seq(SUBSET Records) /\ DOMAIN q = 1 .. Cardinality(groups)
    BY <1>3, <2>1
  <2>3. QED
    BY <2>1, <2>2 DEF Clusters
<1>5. ScanClusters = Several(q)
  BY DEF ScanClusters
<1> HIDE DEF q
<1>6. QED
  BY <1>4, <1>5, SeveralKeeps

-----------------------------------------------------------------------------
(* Merges of duplicates: the proposals *)

Fields == [domain : Domains \union {Nowhere}, city : Cities \union {Nowhere}, weight : Weights]
Merging == [master : Records, duplicates : Seq(Records)]

\* A cluster's records are in an order.
LEMMA OutranksIsAnOrder ==
  ASSUME found \in [Records -> Fields], NEW c, c \subseteq Records
  PROVE  StrictOrder(c, Outranks)
<1>1. ASSUME NEW r \in Records
      PROVE  r \in Nat /\ found[r].weight \in Nat
  BY RecordsAreNumbers, DedupAssumption DEF Fields
<1>2. ASSUME NEW r \in Records, NEW s \in Records
      PROVE  <<r, s>> \in Outranks <=> \/ found[r].weight > found[s].weight
                                       \/ found[r].weight = found[s].weight /\ r < s
  BY DEF Outranks
<1>3. ASSUME NEW r \in c PROVE <<r, r>> \notin Outranks
  <2>1. r \in Records /\ r \in Nat /\ found[r].weight \in Nat
    BY <1>1
  <2>2. QED
    BY <1>2, <2>1
<1>4. ASSUME NEW r \in c, NEW s \in c
      PROVE  r = s \/ <<r, s>> \in Outranks \/ <<s, r>> \in Outranks
  <2>1. /\ r \in Records /\ r \in Nat /\ found[r].weight \in Nat
        /\ s \in Records /\ s \in Nat /\ found[s].weight \in Nat
    BY <1>1
  <2>2. /\ <<r, s>> \in Outranks <=> \/ found[r].weight > found[s].weight
                                     \/ found[r].weight = found[s].weight /\ r < s
        /\ <<s, r>> \in Outranks <=> \/ found[s].weight > found[r].weight
                                     \/ found[s].weight = found[r].weight /\ s < r
    BY <1>2, <2>1
  <2>3. QED
    BY <2>1, <2>2
<1>5. ASSUME NEW r \in c, NEW s \in c, NEW t \in c, <<r, s>> \in Outranks, <<s, t>> \in Outranks
      PROVE  <<r, t>> \in Outranks
  <2>1. /\ r \in Records /\ r \in Nat /\ found[r].weight \in Nat
        /\ s \in Records /\ s \in Nat /\ found[s].weight \in Nat
        /\ t \in Records /\ t \in Nat /\ found[t].weight \in Nat
    BY <1>1
  <2>2. /\ \/ found[r].weight > found[s].weight
           \/ found[r].weight = found[s].weight /\ r < s
        /\ \/ found[s].weight > found[t].weight
           \/ found[s].weight = found[t].weight /\ s < t
    BY <1>2, <1>5, <2>1
  <2>3. \/ found[r].weight > found[t].weight
        \/ found[r].weight = found[t].weight /\ r < t
    BY <2>1, <2>2
  <2>4. QED
    BY <1>2, <2>1, <2>3
<1>6. QED
  BY <1>3, <1>4, <1>5 DEF StrictOrder

\* A proposal keeps one record of its cluster and takes away others of it.
LEMMA ProposalIs ==
  ASSUME found \in [Records -> Fields], NEW c, c \subseteq Records, Cardinality(c) > 1
  PROVE  /\ Proposal(c) \in Merging /\ Proposal(c).master \in c
         /\ \A d \in DOMAIN Proposal(c).duplicates :
              Proposal(c).duplicates[d] \in c /\ Proposal(c).duplicates[d] # Proposal(c).master
<1> DEFINE ranked == InOrder(c, Outranks)
<1> DEFINE size == Cardinality(c)
<1>1. IsFiniteSet(c)
  BY RecordsAreNumbers, FS_Subset
<1>2. /\ size \in Nat /\ ranked \in [1 .. size -> c]
      /\ \A m, n \in 1 .. size : ranked[m] = ranked[n] => m = n
  BY <1>1, OutranksIsAnOrder, OrderLists
<1>3. Proposal(c) = [master |-> Head(ranked), duplicates |-> Tail(ranked)]
  BY DEF Proposal
<1>4. size > 1
  OBVIOUS
<1> HIDE DEF ranked, size
<1>5. /\ ranked \in Seq(Records) /\ Len(ranked) = size /\ ranked # <<>>
      /\ Head(ranked) = ranked[1] /\ ranked[1] \in c
  BY <1>2, <1>4
<1> DEFINE rest == Tail(ranked)
<1>6. /\ rest \in Seq(Records) /\ DOMAIN rest = 1 .. size - 1
      /\ \A d \in 1 .. size - 1 : rest[d] = ranked[d + 1]
  BY <1>2, <1>4, <1>5
<1>7. ASSUME NEW d \in 1 .. size - 1 PROVE rest[d] \in c /\ rest[d] # ranked[1]
  <2>1. d + 1 \in 1 .. size /\ 1 \in 1 .. size /\ d + 1 # 1
    BY <1>2, <1>4
  <2>2. rest[d] = ranked[d + 1] /\ ranked[d + 1] \in c /\ ranked[d + 1] # ranked[1]
    BY <1>2, <1>6, <2>1
  <2>3. QED
    BY <2>2
<1> HIDE DEF rest
<1>8. Proposal(c) = [master |-> ranked[1], duplicates |-> rest]
  BY <1>3, <1>5 DEF rest
<1>9. ranked[1] \in Records
  BY <1>5
<1>10. QED
  BY <1>5, <1>6, <1>7, <1>8, <1>9 DEF Merging

-----------------------------------------------------------------------------
(* Merges of duplicates: the invariant *)

(* Two of one cluster, at some scan, that hang together.                   *)
Kin == {pair \in linkedThen : pair \in Records \X Records /\ Hang(pair[1], pair[2])}

(* What a proposal takes away is kin to its master, which stays.           *)
Proposed(q, kin) ==
    \A d \in DOMAIN q.duplicates :
        q.duplicates[d] # q.master /\ <<q.duplicates[d], q.master>> \in kin

DedupTypes ==
    /\ DedupTypeOK /\ found \in [Records -> Fields]
    /\ deduper \in [Dedupers -> [step : {"idle", "file", "merge"}, proposals : Seq(Merging)]]
    /\ \A p \in Dedupers : deduper[p].step = "merge" => deduper[p].proposals # <<>>

DedupIInv ==
    /\ DedupTypes /\ MergesHangTogether
    /\ \A p \in Dedupers :
        \A n \in DOMAIN deduper[p].proposals : Proposed(deduper[p].proposals[n], Kin)

LEMMA MergesAre ==
  MergesHangTogether <=>
    \A r \in Records \ alive : <<r, mergedInto[r]>> \in Kin /\ \E s \in alive : Hang(r, s)
<1>1. \A r, s : Hang(r, s) => r \in Records /\ s \in Records
  BY HangIs
<1>2. \A r, s : <<r, s>> \in Kin <=> <<r, s>> \in linkedThen /\ Hang(r, s)
  BY <1>1 DEF Kin
<1>3. QED
  BY <1>2 DEF MergesHangTogether, Hang

LEMMA DedupStart == DedupInit => DedupIInv
<1> SUFFICES ASSUME DedupInit PROVE DedupIInv
  OBVIOUS
<1>1. MergesHangTogether
  BY DEF DedupInit, MergesHangTogether
<1>2. DedupTypeOK /\ found \in [Records -> Fields]
  BY DEF DedupInit, DedupTypeOK, NoPoller, Fields
<1>3. \A p \in Dedupers : deduper[p].step = "idle" /\ deduper[p].proposals = <<>>
  BY DEF DedupInit, NoPoller
<1>4. deduper \in [Dedupers -> [step : {"idle", "file", "merge"}, proposals : Seq(Merging)]]
  <2>1. <<>> \in Seq(Merging)
    OBVIOUS
  <2>2. QED
    BY <2>1 DEF DedupInit, NoPoller
<1>5. QED
  BY <1>1, <1>2, <1>3, <1>4 DEF DedupIInv, DedupTypes

\* What hangs together does so as long as no domain and no city changes.
LEMMA HangStays ==
  ASSUME \A r \in Records : found'[r].domain = found[r].domain /\ found'[r].city = found[r].city
  PROVE  \A r, s : Hang(r, s) => Hang(r, s)'
<1>1. ASSUME NEW r, NEW s, Hang(r, s) PROVE Hang(r, s)'
  <2>1. PICK W \in SUBSET Records :
          /\ {r, s} \subseteq W
          /\ \A part \in (SUBSET W) \ {{}, W} : \E a \in part, b \in W \ part : Linked(a, b)
    BY <1>1, HangIs
  <2>2. ASSUME NEW part \in (SUBSET W) \ {{}, W}
        PROVE  \E a \in part, b \in W \ part : Linked(a, b)'
    <3>1. PICK a \in part, b \in W \ part : Linked(a, b)
      BY <2>1
    <3>2. a \in Records /\ b \in Records
      BY <3>1
    <3>3. Linked(a, b)'
      BY <3>1, <3>2 DEF Linked, Matches
    <3>4. QED
      BY <3>3
  <2>3. QED
    BY <2>1, <2>2 DEF Hang, Chained
<1>2. QED
  BY <1>1

LEMMA KinStay ==
  ASSUME linkedThen \subseteq linkedThen',
         \A r \in Records : found'[r].domain = found[r].domain /\ found'[r].city = found[r].city
  PROVE  Kin \subseteq Kin'
<1>1. ASSUME NEW pair \in Kin PROVE pair \in Kin'
  <2>1. pair \in linkedThen /\ pair \in Records \X Records /\ Hang(pair[1], pair[2])
    BY <1>1 DEF Kin
  <2>2. Hang(pair[1], pair[2])'
    BY <2>1, HangStays
  <2>3. QED
    BY <2>1, <2>2 DEF Kin
<1>2. QED
  BY <1>1

\* Where no record is merged, and none forgotten, merges still hang together.
LEMMA NoMerge ==
  ASSUME MergesHangTogether, UNCHANGED <<alive, mergedInto>>, linkedThen \subseteq linkedThen',
         \A r \in Records : found'[r].domain = found[r].domain /\ found'[r].city = found[r].city
  PROVE  MergesHangTogether'
<1>1. ASSUME NEW r \in Records \ alive
      PROVE  <<r, mergedInto[r]>> \in linkedThen' /\ Hang(r, mergedInto[r])'
             /\ \E s \in alive : Hang(r, s)'
  <2>1. <<r, mergedInto[r]>> \in linkedThen /\ Hang(r, mergedInto[r])
        /\ \E s \in alive : Hang(r, s)
    BY <1>1 DEF MergesHangTogether, Hang
  <2>2. \A t : Hang(r, t) => Hang(r, t)'
    BY HangStays
  <2>3. PICK t : t = mergedInto[r]
    OBVIOUS
  <2>4. Hang(r, t)' /\ mergedInto'[r] = t
    BY <2>1, <2>2, <2>3
  <2>5. Hang(r, mergedInto[r])'
    BY <2>4 DEF Hang, Chained
  <2>6. QED
    BY <2>1, <2>2, <2>5
<1>2. QED
  BY <1>1 DEF MergesHangTogether, Hang

LEMMA ScanKeeps == ASSUME DedupIInv, NEW p \in Dedupers, Scan(p) PROVE DedupIInv'
<1> DEFINE q == IF sobject = "Account" THEN ClusterAccounts ELSE ScanClusters
<1> DEFINE made == ProposeMerges(q)
<1>1. alive \subseteq Records /\ DedupTypes /\ found \in [Records -> Fields]
  BY DEF DedupIInv, DedupTypes, DedupTypeOK
<1>2. q \in Clusters /\ \A n \in DOMAIN q : Cardinality(q[n]) > 1
  BY <1>1, AccountsCluster, ContactsCluster
<1>3. /\ deduper' = [deduper EXCEPT ![p] = [step |-> "file", proposals |-> made]]
      /\ linkedThen' = linkedThen \union UNION {q[n] \X q[n] : n \in DOMAIN q}
      /\ UNCHANGED <<sobject, found, alive, reviews, mergedInto>>
  BY DEF Scan
<1> HIDE DEF q
<1>4. q \in Seq(SUBSET Records) /\ Len(q) \in Nat /\ DOMAIN q = 1 .. Len(q)
      /\ \A n \in DOMAIN q : HangTogether(q[n]) /\ q[n] \subseteq Records
  BY <1>2 DEF Clusters
<1>5. made = [n \in 1 .. Len(q) |-> Proposal(q[n])]
  BY <1>4 DEF ProposeMerges
<1> HIDE DEF made
<1>6. linkedThen \subseteq linkedThen'
  BY <1>3
<1>7. Kin \subseteq Kin'
  BY <1>3, <1>6, KinStay
<1>8. ASSUME NEW n \in 1 .. Len(q)
      PROVE  made[n] \in Merging /\ Proposed(made[n], Kin')
  <2>1. /\ made[n] \in Merging /\ made[n].master \in q[n]
        /\ \A d \in DOMAIN made[n].duplicates :
             made[n].duplicates[d] \in q[n] /\ made[n].duplicates[d] # made[n].master
    BY <1>1, <1>2, <1>4, <1>5, ProposalIs
  <2>2. ASSUME NEW r \in q[n], NEW s \in q[n] PROVE <<r, s>> \in Kin'
    <3>1. <<r, s>> \in linkedThen' /\ Hang(r, s) /\ r \in Records /\ s \in Records
      BY <1>3, <1>4 DEF HangTogether
    <3>2. Hang(r, s)'
      BY <1>3, <3>1, HangStays
    <3>3. QED
      BY <3>1, <3>2 DEF Kin
  <2>3. QED
    BY <2>1, <2>2 DEF Proposed
<1>9. made \in Seq(Merging) /\ DOMAIN made = 1 .. Len(q)
  BY <1>4, <1>5, <1>8
<1>10. MergesHangTogether'
  BY <1>3, <1>6, NoMerge DEF DedupIInv
<1>11. DedupTypes'
  BY <1>1, <1>3, <1>9 DEF DedupTypes, DedupTypeOK
<1>12. ASSUME NEW r \in Dedupers, NEW n \in DOMAIN deduper'[r].proposals
       PROVE  Proposed(deduper'[r].proposals[n], Kin')
  <2>1. CASE r = p
    <3>1. deduper'[r].proposals = made
      BY <1>1, <1>3, <2>1 DEF DedupTypes
    <3>2. QED
      BY <1>8, <1>9, <3>1
  <2>2. CASE r # p
    <3>1. deduper'[r] = deduper[r]
      BY <1>1, <1>3, <2>2 DEF DedupTypes
    <3>2. Proposed(deduper[r].proposals[n], Kin)
      BY <3>1 DEF DedupIInv
    <3>3. QED
      BY <1>7, <3>1, <3>2 DEF Proposed
  <2>3. QED
    BY <2>1, <2>2
<1>13. QED
  BY <1>10, <1>11, <1>12 DEF DedupIInv

\* A poll that goes on with its proposals, or with none.
LEMMA FileKeeps ==
  ASSUME DedupIInv, NEW p \in Dedupers, NEW merges \in BOOLEAN, FileReviews(p, merges)
  PROVE  DedupIInv'
<1>1. DedupTypes /\ MergesHangTogether
  BY DEF DedupIInv
<1>2. /\ UNCHANGED <<sobject, found, alive, mergedInto, linkedThen>>
      /\ \/ deduper' = [deduper EXCEPT ![p].step = "merge"] /\ deduper[p].proposals # <<>>
         \/ deduper' = [deduper EXCEPT ![p] = NoPoller]
  BY DEF FileReviews
<1>3. Kin \subseteq Kin'
  BY <1>2, KinStay
<1>4. MergesHangTogether'
  BY <1>1, <1>2, NoMerge
<1>5. ASSUME NEW r \in Dedupers
      PROVE  /\ deduper'[r] \in [step : {"idle", "file", "merge"}, proposals : Seq(Merging)]
             /\ deduper'[r].step = "merge" => deduper'[r].proposals # <<>>
             /\ deduper'[r].proposals \in {deduper[r].proposals, <<>>}
  <2>1. deduper[r] \in [step : {"idle", "file", "merge"}, proposals : Seq(Merging)]
        /\ (deduper[r].step = "merge" => deduper[r].proposals # <<>>)
    BY <1>1 DEF DedupTypes
  <2>2. CASE deduper'[r] = deduper[r]
    BY <2>1, <2>2
  <2>3. CASE deduper'[r] = NoPoller
    <3>1. <<>> \in Seq(Merging)
      OBVIOUS
    <3>2. QED
      BY <2>3, <3>1 DEF NoPoller
  <2>4. CASE /\ r = p /\ deduper' = [deduper EXCEPT ![p].step = "merge"]
             /\ deduper[p].proposals # <<>>
    <3>1. deduper'[r] = [deduper[r] EXCEPT !.step = "merge"]
      BY <1>1, <2>4 DEF DedupTypes
    <3>2. QED
      BY <2>1, <2>4, <3>1
  <2>5. \/ deduper'[r] = deduper[r] \/ deduper'[r] = NoPoller
        \/ /\ r = p /\ deduper' = [deduper EXCEPT ![p].step = "merge"]
           /\ deduper[p].proposals # <<>>
    BY <1>1, <1>2 DEF DedupTypes
  <2>6. QED
    BY <2>2, <2>3, <2>4, <2>5
<1>6. DedupTypes'
  <2>1. DOMAIN deduper' = Dedupers /\ deduper' = [r \in Dedupers |-> deduper'[r]]
    BY <1>1, <1>2 DEF DedupTypes
  <2>2. deduper' \in [Dedupers -> [step : {"idle", "file", "merge"}, proposals : Seq(Merging)]]
    BY <1>5, <2>1
  <2>3. \A r \in Dedupers : deduper'[r].step \in {"idle", "file", "merge"}
    BY <1>5
  <2>4. QED
    BY <1>1, <1>2, <1>5, <2>2, <2>3 DEF DedupTypes, DedupTypeOK
<1>7. ASSUME NEW r \in Dedupers, NEW n \in DOMAIN deduper'[r].proposals
      PROVE  Proposed(deduper'[r].proposals[n], Kin')
  <2>1. deduper'[r].proposals = deduper[r].proposals
    <3>1. DOMAIN <<>> = {}
      OBVIOUS
    <3>2. QED
      BY <1>5, <1>7, <3>1
  <2>2. Proposed(deduper[r].proposals[n], Kin)
    BY <2>1, <1>7 DEF DedupIInv
  <2>3. QED
    BY <1>3, <2>1, <2>2 DEF Proposed
<1>8. QED
  BY <1>4, <1>6, <1>7 DEF DedupIInv

\* An opportunity is added: nothing that makes records duplicates changes.
LEMMA ReweighKeeps ==
  ASSUME DedupIInv, NEW r \in Records, NEW w \in Weights, Reweigh(r, w)
  PROVE  DedupIInv'
<1>1. DedupTypes /\ MergesHangTogether /\ found \in [Records -> Fields]
  BY DEF DedupIInv, DedupTypes
<1>2. /\ found' = [found EXCEPT ![r].weight = w]
      /\ UNCHANGED <<sobject, alive, deduper, reviews, mergedInto, linkedThen>>
  BY DEF Reweigh
<1>3. found' \in [Records -> Fields]
      /\ \A s \in Records : found'[s].domain = found[s].domain /\ found'[s].city = found[s].city
  <2> DEFINE new == [found[r] EXCEPT !.weight = w]
  <2>1. found[r] \in Fields
    BY <1>1
  <2>2. new \in Fields /\ new.domain = found[r].domain /\ new.city = found[r].city
    BY <2>1 DEF Fields
  <2>3. found' = [found EXCEPT ![r] = new]
    BY <1>2
  <2> HIDE DEF new
  <2>4. QED
    BY <1>1, <2>2, <2>3
<1>4. Kin \subseteq Kin'
  BY <1>2, <1>3, KinStay
<1>5. MergesHangTogether'
  BY <1>1, <1>2, <1>3, NoMerge
<1>6. DedupTypes'
  BY <1>1, <1>2, <1>3 DEF DedupTypes, DedupTypeOK
<1>7. ASSUME NEW p \in Dedupers, NEW n \in DOMAIN deduper'[p].proposals
      PROVE  Proposed(deduper'[p].proposals[n], Kin')
  <2>1. Proposed(deduper[p].proposals[n], Kin)
    BY <1>2, <1>7 DEF DedupIInv
  <2>2. QED
    BY <1>2, <1>4, <2>1 DEF Proposed
<1>8. QED
  BY <1>5, <1>6, <1>7 DEF DedupIInv

\* A merge by twos takes away what was proposed, and keeps the master.
LEMMA MergeKeeps ==
  ASSUME DedupIInv, NEW p \in Dedupers, MergeBatch(p) PROVE DedupIInv'
<1> DEFINE todo == deduper[p].proposals
<1> DEFINE master == Head(todo).master
<1> DEFINE dupes == Head(todo).duplicates
<1> DEFINE batch == {dupes[n] : n \in DOMAIN dupes \intersect {1, 2}}
<1> DEFINE rest == [n \in 1 .. (IF Len(dupes) > 2 THEN Len(dupes) - 2 ELSE 0) |-> dupes[n + 2]]
<1> DEFINE left == IF rest = <<>> THEN Tail(todo)
                   ELSE <<[master |-> master, duplicates |-> rest]>> \o Tail(todo)
<1>1. DedupTypes /\ MergesHangTogether
  BY DEF DedupIInv
<1>2. /\ UNCHANGED <<sobject, found, reviews, linkedThen>> /\ deduper[p].step = "merge"
      /\ \/ /\ batch \union {master} \subseteq alive /\ alive' = alive \ batch
            /\ mergedInto' = [r \in Records |-> IF r \in batch THEN master ELSE mergedInto[r]]
            /\ \/ deduper' = [deduper EXCEPT ![p] = NoPoller]
               \/ /\ ~ (rest = <<>> /\ Len(todo) = 1)
                  /\ deduper' = [deduper EXCEPT ![p].proposals = left]
         \/ /\ deduper' = [deduper EXCEPT ![p] = NoPoller]
            /\ UNCHANGED <<alive, mergedInto>>
  BY DEF MergeBatch
<1>3. Kin \subseteq Kin'
  BY <1>2, KinStay
<1>4. /\ todo \in Seq(Merging) /\ todo # <<>>
      /\ \A n \in DOMAIN todo : Proposed(todo[n], Kin)
  BY <1>1, <1>2 DEF DedupTypes, DedupIInv
<1> HIDE DEF todo
<1>5. /\ Head(todo) \in Merging /\ Proposed(Head(todo), Kin) /\ Len(todo) \in Nat /\ Len(todo) > 0
      /\ Tail(todo) \in Seq(Merging) /\ Len(Tail(todo)) = Len(todo) - 1
      /\ \A n \in 1 .. Len(todo) - 1 : Tail(todo)[n] = todo[n + 1]
      /\ DOMAIN todo = 1 .. Len(todo) /\ DOMAIN Tail(todo) = 1 .. Len(todo) - 1
  BY <1>4
<1>6. /\ master \in Records /\ dupes \in Seq(Records) /\ Len(dupes) \in Nat
      /\ DOMAIN dupes = 1 .. Len(dupes)
      /\ \A d \in DOMAIN dupes : dupes[d] # master /\ <<dupes[d], master>> \in Kin
  BY <1>5 DEF Merging, Proposed
<1> HIDE DEF master, dupes
<1>7. ASSUME NEW r \in batch PROVE r \in Records /\ r # master /\ <<r, master>> \in Kin
  BY <1>6
<1> HIDE DEF batch
<1>8. ASSUME NEW r \in Dedupers PROVE deduper'[r].step \in {"idle", "file", "merge"}
  <2>1. deduper[r].step \in {"idle", "file", "merge"} /\ NoPoller.step = "idle"
        /\ deduper \in [Dedupers -> [step : {"idle", "file", "merge"}, proposals : Seq(Merging)]]
    BY <1>1 DEF DedupTypes, NoPoller
  <2>2. CASE r # p
    <3>1. deduper'[r] = deduper[r]
      BY <1>2, <2>1, <2>2
    <3>2. QED
      BY <2>1, <3>1
  <2>3. CASE r = p
    <3> HIDE DEF left, rest
    <3>1. \/ deduper'[r] = NoPoller \/ deduper'[r] = deduper[r]
          \/ deduper'[r] = [deduper[r] EXCEPT !.proposals = left]
      BY <1>2, <2>1, <2>3
    <3>2. [deduper[r] EXCEPT !.proposals = left].step = deduper[r].step
      BY <2>1
    <3>3. QED
      BY <2>1, <3>1, <3>2
  <2>4. QED
    BY <2>2, <2>3
<1>9. DedupTypeOK' /\ MergesHangTogether'
  <2>1. CASE /\ batch \union {master} \subseteq alive /\ alive' = alive \ batch
             /\ mergedInto' = [r \in Records |-> IF r \in batch THEN master ELSE mergedInto[r]]
    <3>1. master \in alive' /\ alive' \subseteq alive /\ alive \subseteq Records
      BY <1>1, <1>7, <2>1 DEF DedupTypes, DedupTypeOK
    <3>2. ASSUME NEW r \in Records, r \notin alive'
          PROVE  \E m \in Records \union {0}, s \in alive' :
                   /\ m = mergedInto'[r] /\ <<r, m>> \in linkedThen' /\ Hang(r, m) /\ Hang(r, s)
      <4>1. CASE r \in batch
        <5>1. mergedInto'[r] = master /\ <<r, master>> \in linkedThen /\ Hang(r, master)
          BY <1>7, <2>1, <4>1 DEF Kin
        <5>2. QED
          BY <1>2, <1>6, <3>1, <5>1
      <4>2. CASE r \notin batch
        <5>1. r \in Records \ alive /\ mergedInto'[r] = mergedInto[r]
          BY <2>1, <3>2, <4>2
        <5>2. /\ <<r, mergedInto[r]>> \in linkedThen /\ Hang(r, mergedInto[r])
              /\ mergedInto[r] \in Records \union {0}
          BY <1>1, <5>1 DEF MergesHangTogether, Hang, DedupTypes, DedupTypeOK
        <5>3. PICK s \in alive : Hang(r, s)
          BY <1>1, <5>1, MergesAre
        <5>4. CASE s \in alive'
          BY <1>2, <5>1, <5>2, <5>3, <5>4
        <5>5. CASE s \notin alive'
          <6>1. s \in batch
            BY <2>1, <5>3, <5>5
          <6>2. Hang(s, master)
            BY <1>7, <6>1 DEF Kin
          <6>3. Hang(r, master)
            BY <5>3, <6>2, HangOn
          <6>4. QED
            BY <1>2, <3>1, <5>1, <5>2, <6>3
        <5>6. QED
          BY <5>4, <5>5
      <4>3. QED
        BY <4>1, <4>2
    <3>3. ASSUME NEW r \in Records, r \notin alive'
          PROVE  /\ <<r, mergedInto[r]>>' \in linkedThen' /\ Hang(r, mergedInto[r])'
                 /\ \E s \in alive' : Hang(r, s)'
      <4>1. PICK m \in Records \union {0}, s \in alive' :
              /\ m = mergedInto'[r] /\ <<r, m>> \in linkedThen' /\ Hang(r, m) /\ Hang(r, s)
        BY <3>2, <3>3
      <4>2. \A t : Hang(r, t) => Hang(r, t)'
        BY <1>2, HangStays
      <4>3. Hang(r, m)' /\ Hang(r, s)'
        BY <4>1, <4>2
      <4>4. Hang(r, mergedInto[r])'
        BY <4>1, <4>3 DEF Hang, Chained
      <4>5. QED
        BY <4>1, <4>3, <4>4
    <3>4. MergesHangTogether'
      BY <3>3 DEF MergesHangTogether, Hang
    <3>5. mergedInto' \in [Records -> Records \union {0}] /\ alive' \subseteq Records
      BY <1>1, <1>6, <2>1 DEF DedupTypes, DedupTypeOK
    <3>6. \A r \in Dedupers : deduper'[r].step \in {"idle", "file", "merge"}
      BY <1>8
    <3>7. QED
      BY <3>4, <3>5, <3>6 DEF DedupTypeOK
  <2>2. CASE UNCHANGED <<alive, mergedInto>>
    <3>1. \A r \in Dedupers : deduper'[r].step \in {"idle", "file", "merge"}
      BY <1>8
    <3>2. MergesHangTogether'
      BY <1>1, <1>2, <2>2, NoMerge
    <3>3. QED
      BY <1>1, <2>2, <3>1, <3>2 DEF DedupTypes, DedupTypeOK
  <2>3. QED
    BY <1>2, <2>1, <2>2
<1>10. left \in Seq(Merging) /\ \A n \in DOMAIN left : Proposed(left[n], Kin)
  <2>1. \A n \in DOMAIN Tail(todo) : Proposed(Tail(todo)[n], Kin)
    BY <1>4, <1>5
  <2>2. CASE rest = <<>>
    BY <1>5, <2>1, <2>2
  <2>3. CASE rest # <<>>
    <3> DEFINE size == IF Len(dupes) > 2 THEN Len(dupes) - 2 ELSE 0
    <3> DEFINE one == [master |-> master, duplicates |-> rest]
    <3>1. size \in Nat /\ \A n \in 1 .. size : n + 2 \in DOMAIN dupes
      BY <1>6
    <3>2. rest \in Seq(Records) /\ DOMAIN rest = 1 .. size
          /\ \A n \in 1 .. size : rest[n] = dupes[n + 2]
      <4>1. rest = [n \in 1 .. size |-> dupes[n + 2]]
        OBVIOUS
      <4>2. \A n \in 1 .. size : dupes[n + 2] \in Records
        BY <1>6, <3>1
      <4> HIDE DEF rest, size
      <4>3. rest \in [1 .. size -> Records]
        BY <4>1, <4>2
      <4>4. QED
        BY <3>1, <4>1, <4>3
    <3> HIDE DEF rest, size
    <3>3. one \in Merging /\ Proposed(one, Kin)
      BY <1>6, <3>1, <3>2 DEF Merging, Proposed
    <3> HIDE DEF one
    <3>4. left = <<one>> \o Tail(todo)
      BY <2>3 DEF one
    <3> DEFINE q == <<one>> \o Tail(todo)
    <3>5. /\ q \in Seq(Merging) /\ DOMAIN q = 1 .. Len(todo) /\ q[1] = one
          /\ \A n \in 2 .. Len(todo) : q[n] = Tail(todo)[n - 1]
      BY <1>5, <3>3
    <3> HIDE DEF q
    <3>6. ASSUME NEW n \in DOMAIN q PROVE Proposed(q[n], Kin)
      <4>1. n = 1 \/ (n \in 2 .. Len(todo) /\ n - 1 \in DOMAIN Tail(todo))
        BY <1>5, <3>5
      <4>2. QED
        BY <2>1, <3>3, <3>5, <4>1
    <3>7. QED
      BY <3>4, <3>5, <3>6 DEF q
  <2>4. QED
    BY <2>2, <2>3
<1>11. ~ (rest = <<>> /\ Len(todo) = 1) => left # <<>>
  <2>1. CASE rest = <<>> /\ Len(todo) # 1
    <3>1. Len(Tail(todo)) # 0
      BY <1>5, <2>1
    <3> DEFINE tail == Tail(todo)
    <3>2. Len(<<>>) = 0 /\ Len(tail) # 0
      BY <3>1
    <3> HIDE DEF tail
    <3>3. tail # <<>>
      BY <3>2
    <3>4. QED
      BY <2>1, <3>3 DEF tail
  <2>2. CASE rest # <<>>
    <3> DEFINE one == [master |-> master, duplicates |-> rest]
    <3>1. left = <<one>> \o Tail(todo)
      BY <2>2
    <3> HIDE DEF one
    <3>2. <<one>> \o Tail(todo) # <<>>
      BY <1>5
    <3>3. QED
      BY <3>1, <3>2
  <2>3. QED
    BY <2>1, <2>2
<1> HIDE DEF left, rest
<1>12. ASSUME NEW r \in Dedupers
       PROVE  /\ deduper'[r] \in [step : {"idle", "file", "merge"}, proposals : Seq(Merging)]
              /\ deduper'[r].step = "merge" => deduper'[r].proposals # <<>>
              /\ \A n \in DOMAIN deduper'[r].proposals : Proposed(deduper'[r].proposals[n], Kin)
  <2>1. /\ deduper[r] \in [step : {"idle", "file", "merge"}, proposals : Seq(Merging)]
        /\ deduper[r].step = "merge" => deduper[r].proposals # <<>>
        /\ \A n \in DOMAIN deduper[r].proposals : Proposed(deduper[r].proposals[n], Kin)
    BY <1>1 DEF DedupTypes, DedupIInv
  <2>2. CASE deduper'[r] = deduper[r]
    BY <2>1, <2>2
  <2>3. CASE deduper'[r] = NoPoller
    <3>1. <<>> \in Seq(Merging) /\ DOMAIN <<>> = {}
      OBVIOUS
    <3>2. QED
      BY <2>3, <3>1 DEF NoPoller
  <2>4. CASE /\ r = p /\ deduper' = [deduper EXCEPT ![p].proposals = left]
             /\ ~ (rest = <<>> /\ Len(todo) = 1)
    <3>1. deduper'[r] = [deduper[r] EXCEPT !.proposals = left]
      BY <1>1, <2>4 DEF DedupTypes
    <3>2. left # <<>>
      BY <1>11, <2>4
    <3> DEFINE new == [deduper[r] EXCEPT !.proposals = left]
    <3>3. /\ new.proposals = left /\ new.step = deduper[r].step
          /\ new \in [step : {"idle", "file", "merge"}, proposals : Seq(Merging)]
      BY <1>10, <2>1
    <3> HIDE DEF new
    <3>4. QED
      BY <1>10, <3>1, <3>2, <3>3 DEF new
  <2>5. \/ deduper'[r] = deduper[r] \/ deduper'[r] = NoPoller
        \/ /\ r = p /\ deduper' = [deduper EXCEPT ![p].proposals = left]
           /\ ~ (rest = <<>> /\ Len(todo) = 1)
    BY <1>1, <1>2 DEF DedupTypes
  <2>6. QED
    BY <2>2, <2>3, <2>4, <2>5
<1>13. DedupTypes'
  <2>1. DOMAIN deduper' = Dedupers /\ deduper' = [r \in Dedupers |-> deduper'[r]]
    BY <1>1, <1>2 DEF DedupTypes
  <2>2. deduper' \in [Dedupers -> [step : {"idle", "file", "merge"}, proposals : Seq(Merging)]]
    BY <1>12, <2>1
  <2>3. QED
    BY <1>1, <1>2, <1>9, <1>12, <2>2 DEF DedupTypes
<1>14. \A r \in Dedupers : \A n \in DOMAIN deduper'[r].proposals :
         Proposed(deduper'[r].proposals[n], Kin')
  BY <1>3, <1>12 DEF Proposed
<1>15. QED
  BY <1>9, <1>13, <1>14 DEF DedupIInv

LEMMA DedupStep == DedupIInv /\ [DedupNext]_dedupVars => DedupIInv'
<1> SUFFICES ASSUME DedupIInv, [DedupNext]_dedupVars PROVE DedupIInv'
  OBVIOUS
<1>1. ASSUME NEW p \in Dedupers, Scan(p) PROVE DedupIInv'
  BY <1>1, ScanKeeps
<1>2. ASSUME NEW p \in Dedupers, NEW merges \in BOOLEAN, FileReviews(p, merges) PROVE DedupIInv'
  BY <1>2, FileKeeps
<1>3. ASSUME NEW p \in Dedupers, MergeBatch(p) PROVE DedupIInv'
  BY <1>3, MergeKeeps
<1>4. ASSUME NEW r \in Records, NEW w \in Weights, Reweigh(r, w) PROVE DedupIInv'
  BY <1>4, ReweighKeeps
<1>5. CASE UNCHANGED dedupVars
  <2>1. UNCHANGED <<sobject, found, alive, deduper, reviews, mergedInto, linkedThen>>
    BY <1>5 DEF dedupVars
  <2>2. MergesHangTogether'
    BY <2>1, NoMerge DEF DedupIInv
  <2>3. Kin \subseteq Kin'
    BY <2>1, KinStay
  <2>4. DedupTypes'
    BY <2>1 DEF DedupIInv, DedupTypes, DedupTypeOK
  <2>5. ASSUME NEW p \in Dedupers, NEW n \in DOMAIN deduper'[p].proposals
        PROVE  Proposed(deduper'[p].proposals[n], Kin')
    <3>1. Proposed(deduper[p].proposals[n], Kin)
      BY <2>1, <2>5 DEF DedupIInv
    <3>2. QED
      BY <2>1, <2>3, <3>1 DEF Proposed
  <2>6. QED
    BY <2>2, <2>4, <2>5 DEF DedupIInv
<1>6. QED
  BY <1>1, <1>2, <1>3, <1>4, <1>5 DEF DedupNext

(* Dedup: a record is merged only into one that it was clustered with and  *)
(* hangs together with, and no cluster is merged away as a whole, however  *)
(* polls overlap and rank (cluster_accounts, propose_merges, apply_merge). *)
THEOREM DedupHolds == DedupSpec => []DedupInv
<1>1. DedupIInv => DedupInv
  BY DEF DedupIInv, DedupTypes, DedupInv
<1>2. QED
  BY <1>1, DedupStart, DedupStep, PTL DEF DedupSpec
=============================================================================
