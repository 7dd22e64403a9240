---------------------------- MODULE LeadRouting -----------------------------
(***************************************************************************)
(* agents/top_of_funnel/routing.py: which SDR of a segment gets the next   *)
(* lead.  A rotation is read from a file, its members from a cache of      *)
(* Salesforce users that counts for a day, and the place in the rotation   *)
(* from tof_routing_state, one row per segment.  Segments share nothing,   *)
(* so there is one.                                                        *)
(***************************************************************************)
EXTENDS Naturals, FiniteSets, Sequences, SequencesExt

CONSTANTS
    Rotation,       \* the rotation of territory.yaml, a sequence of SDRs
    Routers,        \* processes that call assign_owner
    UserHours,      \* _USER_CACHE_TTL_HOURS
    MaxTime, MaxShare  \* bounds

ASSUME UserHoursAssumption == UserHours \in Nat /\ MaxTime \in Nat /\ MaxShare \in Nat

(* territory.yaml names nobody twice in a segment.                         *)
ASSUME RotationAssumption ==
    /\ Rotation \in Seq(ToSet(Rotation))
    /\ \A i, j \in DOMAIN Rotation : Rotation[i] = Rotation[j] => i = j

VARIABLES
    active,     \* the org: who is an active user
    leftAt,     \* SDR -> when the org deactivated the user
    users,      \* tof_sf_user_cache: SDR -> is_active and cached_at
    index,      \* tof_routing_state.last_assigned_index
    router,     \* what each process has read
    share,      \* history: leads of each SDR since the members last changed
    crossed,    \* history: two routers overlapped since then
    time

routingVars == <<active, leftAt, users, index, router, share, crossed, time>>

Members == ToSet(Rotation)
Times == 0 .. MaxTime
Stays == MaxTime + 1
NoIndex == Len(Rotation)                   \* no row yet
Router == [step : {"idle", "write"}, slots : Seq(Members), read : 0 .. NoIndex]
IdleRouter == [step |-> "idle", slots |-> <<>>, read |-> 0]

(* The rotation without the others, in its order.                          *)
Nth(places, n) == CHOOSE i \in places : Cardinality({j \in places : j =< i}) = n
Filtered(test) == LET places == {i \in DOMAIN Rotation : test[Rotation[i]]}
                  IN  [n \in 1 .. Cardinality(places) |-> Rotation[Nth(places, n)]]

(* Slots of anybody who is in the cache, however old.                      *)
SlotsAt_Old(t) == Filtered([s \in Members |-> users[s].cached /\ users[s].active])

(* _lookup_user, for each entry of the rotation: known for less than a day *)
(* and active when last asked.                                             *)
Known(s, t) == users[s].cached /\ users[s].at + UserHours >= t
SlotsAt(t) == Filtered([s \in Members |-> Known(s, t) /\ users[s].active])

Slots == SlotsAt(time)

RoutingInit ==
    /\ active = Members
    /\ leftAt = [s \in Members |-> Stays]
    /\ users = [s \in Members |-> [cached |-> FALSE, active |-> FALSE, at |-> 0]]
    /\ index = NoIndex
    /\ router = [r \in Routers |-> IdleRouter]
    /\ share = [s \in Members |-> 0]
    /\ crossed = FALSE
    /\ time = 0

-----------------------------------------------------------------------------

(* refresh_user_cache: all users, active or not, on whichever call.        *)
Refresh ==
    /\ users' = [s \in Members |-> [cached |-> TRUE, active |-> s \in active, at |-> time]]
    /\ IF Filtered([s \in Members |-> s \in active]) = Slots
       THEN UNCHANGED <<share, crossed>>
       ELSE /\ share' = [s \in Members |-> 0]
            /\ crossed' = \E r \in Routers : router[r].step # "idle"
    /\ UNCHANGED <<active, leftAt, index, router, time>>

(* A router that asks for an index although nobody is in the rotation.     *)
SelectIndex_Empty(r) ==
    /\ router[r].step = "idle"
    /\ router' = [router EXCEPT ![r] = [step |-> "write", slots |-> Slots, read |-> index]]
    /\ crossed' = (crossed \/ \E o \in Routers \ {r} : router[o].step # "idle")
    /\ UNCHANGED <<active, leftAt, users, index, share, time>>

(* The SELECT of _next_index; nobody in the rotation, no SELECT: the lead  *)
(* goes to default_owner_id and the rotation stands still.                 *)
SelectIndex(r) ==
    /\ router[r].step = "idle" /\ Slots # <<>>
    /\ router' = [router EXCEPT ![r] = [step |-> "write", slots |-> Slots, read |-> index]]
    /\ crossed' = (crossed \/ \E o \in Routers \ {r} : router[o].step # "idle")
    /\ UNCHANGED <<active, leftAt, users, index, share, time>>

(* An index that wraps at the length of the whole rotation, with the last  *)
(* slot for what is beyond the slots.                                      *)
NextIndex_Unfiltered(read, n) ==
    IF read = NoIndex THEN 0
    ELSE LET i == (read + 1) % Len(Rotation) IN IF i < n THEN i ELSE n - 1

(* Its INSERT or UPDATE.                                                   *)
NextIndex(read, n) == IF read = NoIndex THEN 0 ELSE (read + 1) % n

WriteIndex(r) ==
    LET c == router[r]
        i == NextIndex(c.read, Len(c.slots))
        s == c.slots[i + 1] IN
    /\ c.step = "write" /\ share[s] < MaxShare
    /\ \/ /\ c.read = NoIndex => index = NoIndex
          /\ index' = i
          /\ share' = [share EXCEPT ![s] = @ + 1]
       \/ /\ c.read = NoIndex /\ index # NoIndex   \* the key exists: no owner
          /\ UNCHANGED <<index, share>>
    /\ router' = [router EXCEPT ![r] = IdleRouter]
    /\ UNCHANGED <<active, leftAt, users, crossed, time>>

KillRouter(r) ==
    /\ router[r].step = "write"
    /\ router' = [router EXCEPT ![r] = IdleRouter]
    /\ UNCHANGED <<active, leftAt, users, index, share, crossed, time>>

(* Salesforce deactivates a user.                                          *)
Leave(s) ==
    /\ s \in active
    /\ active' = active \ {s}
    /\ leftAt' = [leftAt EXCEPT ![s] = time]
    /\ UNCHANGED <<users, index, router, share, crossed, time>>

(* An hour; assignments take no time.  Members may drop out of the cache.  *)
TimePasses ==
    /\ time < MaxTime /\ \A r \in Routers : router[r].step = "idle"
    /\ time' = time + 1
    /\ IF SlotsAt(time + 1) = Slots THEN UNCHANGED <<share, crossed>>
       ELSE share' = [s \in Members |-> 0] /\ crossed' = FALSE
    /\ UNCHANGED <<active, leftAt, users, index, router>>

RoutingNext ==
    \/ Refresh
    \/ \E r \in Routers : SelectIndex(r) \/ WriteIndex(r) \/ KillRouter(r)
    \/ \E s \in Members : Leave(s)
    \/ TimePasses

RoutingSpec == RoutingInit /\ [][RoutingNext]_routingVars

-----------------------------------------------------------------------------

RoutingTypeOK ==
    /\ active \subseteq Members
    /\ leftAt \in [Members -> Times \union {Stays}]
    /\ users \in [Members -> [cached : BOOLEAN, active : BOOLEAN, at : Times]]
    /\ index \in 0 .. NoIndex
    /\ \A r \in Routers : /\ router[r].step \in {"idle", "write"}
                          /\ router[r].step = "write" => router[r].slots # <<>>
                          /\ router[r].read \in 0 .. NoIndex
    /\ share \in [Members -> 0 .. MaxShare]
    /\ crossed \in BOOLEAN /\ time \in Times

(* The rotation is fair: while its members are the same, none of them is   *)
(* two leads ahead of another, wherever the last membership left the index *)
(* and whoever was killed, unless two routers read one index ("Atomically  *)
(* increment per-segment rotation index", _next_index).                    *)
RotationIsFair ==
    crossed \/ \A r \in Routers : router[r].step = "idle" =>
        \A i, j \in DOMAIN Slots : share[Slots[i]] =< share[Slots[j]] + 1

(* A user who has left gets no leads later than a day after leaving: a     *)
(* slot is never older than the cache's time to live (_lookup_user).       *)
LeaversGetNothing ==
    \A s \in ToSet(Slots) : time =< leftAt[s] + UserHours

(* What the rotation keeps: fair shares, and nothing for those who left    *)
(* (assign_owner, _next_index).                                            *)
RoutingInv == RoutingTypeOK /\ RotationIsFair /\ LeaversGetNothing
=============================================================================
