--------------------------- MODULE MetadataDrift ---------------------------
(***************************************************************************)
(* agents/revops_support/integration_health/metadata_drift.py: each poll   *)
(* describes the watched objects, compares them with the file the last     *)
(* poll left, replaces the file and then opens one task per object that    *)
(* drifted, unless one is open (_task_surface.py).  A describe may fail, a *)
(* poll may be killed between any two of its steps, and launchd's poll and *)
(* one by hand may overlap.                                                *)
(*                                                                         *)
(* A signature is a number: the org's next change of an object gives it    *)
(* one nobody has seen, and a change is the object and its new signature.  *)
(***************************************************************************)
EXTENDS Naturals, FiniteSets

CONSTANTS
    Watched,        \* WATCHED_OBJECTS
    Drifters,       \* processes that poll
    MaxSignature    \* bound: changes of an object

ASSUME SignatureAssumption == MaxSignature \in Nat \ {0}

VARIABLES
    signature,  \* the org: object -> signature
    file,       \* metadata_drift.json: object -> signature, Unseen if absent
    drift,      \* what each process is doing
    drifted,    \* objects with an open task
    shown,      \* history: changes that some task was filed for
    hidden,     \* history: changes that were found while a task was open
    missed      \* history: changes that a first look took in, or a killed poll

driftVars == <<signature, file, drift, drifted, shown, hidden, missed>>

Signatures == 1 .. MaxSignature
Unseen == 0
NoFile == [o \in Watched |-> Unseen]
NoDrift == [step |-> "idle", prior |-> NoFile, current |-> NoFile, todo |-> {}]

DriftInit ==
    /\ signature = [o \in Watched |-> 1]
    /\ file = NoFile
    /\ drift = [p \in Drifters |-> NoDrift]
    /\ drifted = {}
    /\ shown = {} /\ hidden = {} /\ missed = {}

Polling == {p \in Drifters : drift[p].step # "idle"}

(* A poll whose next step is to write the file.                            *)
Saving(p) == drift[p].step = "describe" /\ drift[p].todo = {}

(* The changes of o after signature a, up to b.                            *)
Changes(o, a, b) == {o} \X {s \in Signatures : a < s /\ s =< b}

(* What the row of a poll says of an object.                               *)
Row(p, o) == Changes(o, drift[p].prior[o], drift[p].current[o])

(* _load_prior; a file that another poll is just writing reads as corrupt. *)
LoadPrior(p) ==
    /\ drift[p].step = "idle"
    /\ \E prior \in {file} \union {NoFile : q \in {q \in Polling : Saving(q)}} :
        drift' = [drift EXCEPT ![p] =
                    [step |-> "describe", prior |-> prior, current |-> NoFile, todo |-> Watched]]
    /\ UNCHANGED <<signature, file, drifted, shown, hidden, missed>>

(* One describe: a failure leaves the object out of this poll's file.      *)
Describe(p, o) ==
    /\ drift[p].step = "describe" /\ o \in drift[p].todo
    /\ \/ drift' = [drift EXCEPT ![p].todo = @ \ {o}, ![p].current[o] = signature[o]]
       \/ drift' = [drift EXCEPT ![p].todo = @ \ {o}]
    /\ UNCHANGED <<signature, file, drifted, shown, hidden, missed>>

(* diff_signature, for what was there before and could be described now.   *)
DriftRows(p) ==
    {o \in Watched : /\ drift[p].prior[o] # Unseen /\ drift[p].current[o] # Unseen
                     /\ drift[p].prior[o] # drift[p].current[o]}

(* _save_current replaces the file.  An object it has not seen becomes a   *)
(* new baseline, and so does one a failed describe has dropped.            *)
SaveCurrent(p) ==
    LET c == drift[p] IN
    /\ Saving(p)
    /\ file' = c.current
    /\ missed' = missed \union UNION {Row(p, o) : o \in {w \in Watched : c.prior[w] = Unseen}}
    /\ drift' = [drift EXCEPT ![p].step = "surface", ![p].todo = DriftRows(p)]
    /\ UNCHANGED <<signature, drifted, shown, hidden>>

(* A bug it could have: any task of the object counts, completed ones too. *)
SurfaceTask_AnyTask(p, o) ==
    /\ drift[p].step = "surface" /\ o \in drift[p].todo
    /\ drift' = [drift EXCEPT ![p].todo = @ \ {o}]
    /\ LET found == o \in drifted \/ \E c \in shown : c[1] = o IN
       /\ drifted' = IF found THEN drifted ELSE drifted \union {o}
       /\ shown' = IF found THEN shown ELSE shown \union Row(p, o)
    /\ hidden' = IF o \in drifted THEN hidden \union Row(p, o) ELSE hidden
    /\ UNCHANGED <<signature, file, missed>>

(* surface_task: an open task of the object is returned as it is, with the *)
(* row it was filed for and not this one.                                  *)
SurfaceTask(p, o) ==
    /\ drift[p].step = "surface" /\ o \in drift[p].todo
    /\ drift' = [drift EXCEPT ![p].todo = @ \ {o}]
    /\ drifted' = drifted \union {o}
    /\ shown' = IF o \in drifted THEN shown ELSE shown \union Row(p, o)
    /\ hidden' = IF o \in drifted THEN hidden \union Row(p, o) ELSE hidden
    /\ UNCHANGED <<signature, file, missed>>

EndDriftPoll(p) ==
    /\ drift[p].step = "surface" /\ drift[p].todo = {}
    /\ drift' = [drift EXCEPT ![p] = NoDrift]
    /\ UNCHANGED <<signature, file, drifted, shown, hidden, missed>>

(* Killed before the save nothing is lost; killed while write_text is at   *)
(* work the next poll finds a corrupt file and starts over; killed after   *)
(* it the rows without a task are lost.                                    *)
KillDriftPoll(p) ==
    /\ drift[p].step # "idle"
    /\ drift' = [drift EXCEPT ![p] = NoDrift]
    /\ \/ /\ missed' = IF drift[p].step = "surface"
                      THEN missed \union UNION {Row(p, o) : o \in drift[p].todo} ELSE missed
          /\ UNCHANGED file
       \/ /\ Saving(p)
          /\ file' = NoFile /\ UNCHANGED missed
    /\ UNCHANGED <<signature, drifted, shown, hidden>>

(* The task is completed, for what it says.                                *)
CloseDriftTask(o) ==
    /\ o \in drifted
    /\ drifted' = drifted \ {o}
    /\ UNCHANGED <<signature, file, drift, shown, hidden, missed>>

Migrate(o) ==
    /\ signature[o] < MaxSignature
    /\ signature' = [signature EXCEPT ![o] = @ + 1]
    /\ UNCHANGED <<file, drift, drifted, shown, hidden, missed>>

DriftNext ==
    \/ \E p \in Drifters :
        \/ LoadPrior(p) \/ SaveCurrent(p) \/ EndDriftPoll(p) \/ KillDriftPoll(p)
        \/ \E o \in Watched : Describe(p, o) \/ SurfaceTask(p, o)
    \/ \E o \in Watched : CloseDriftTask(o) \/ Migrate(o)

DriftSpec == DriftInit /\ [][DriftNext]_driftVars

-----------------------------------------------------------------------------

DriftTypeOK ==
    /\ signature \in [Watched -> Signatures]
    /\ file \in [Watched -> Signatures \union {Unseen}]
    /\ \A p \in Drifters : /\ drift[p].step \in {"idle", "describe", "surface"}
                           /\ drift[p].todo \subseteq Watched
    /\ drifted \subseteq Watched
    /\ shown \union hidden \union missed \subseteq Watched \X Signatures

(* A change of a watched object that the file has taken in was told to     *)
(* people in a task, however polls overlap; but for one found while a task *)
(* on the object was open, which never learns of it, and one that a poll   *)
(* took in as a first look (at first, after a failed describe or a corrupt *)
(* file: "drift only registers once we have a baseline to compare          *)
(* against") or had yet to file when it was killed.                        *)
DriftIsTold ==
    Polling = {} =>
        \A o \in Watched : Changes(o, Unseen, file[o]) \subseteq shown \union hidden \union missed

(* What an open task has hidden is of an object that people were told of   *)
(* (surface_task).                                                         *)
HiddenBehindAnother == \A c \in hidden : \E earlier \in shown : earlier[1] = c[1]

(* What the drift poll keeps: no change it has taken in goes untold (poll). *)
DriftInv == DriftTypeOK /\ DriftIsTold /\ HiddenBehindAnother
=============================================================================
