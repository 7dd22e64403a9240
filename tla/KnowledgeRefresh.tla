-------------------------- MODULE KnowledgeRefresh --------------------------
(***************************************************************************)
(* agents/revops_support/knowledge_refresh and the chunked ingest of       *)
(* shared/mcp/knowledge_mcp.py: the weekly snapshot of the org's metadata, *)
(* the digest of what it would change, the merge over the canonical file   *)
(* with its git commit, the re-ingest into the corpus, and the gap scan.   *)
(*                                                                         *)
(* Modelled for sf_object_model.md, whose text is the list of objects and  *)
(* a section, of some version, for each object described.  Files, index,   *)
(* HEAD and collection each take one write at a time; a command is killed  *)
(* or fails between any two.                                               *)
(***************************************************************************)
EXTENDS Naturals, FiniteSets, Sequences

CONSTANTS
    Sections,       \* custom objects, numbered in the order of their names
    Stewards,       \* processes that merge and re-ingest
    MaxVersion,     \* bound: versions of an object; version 0 is none
    Written,        \* bound: the texts that snapshots have
    MaxSnapshots,   \* bound: dates
    Scanned,        \* bound: the objects that the gap scan looks for
    Hits            \* k of the gap scan's search

Texts == [named : SUBSET Sections, body : [Sections -> 0 .. MaxVersion]]

ASSUME KnowledgeAssumption == /\ Sections \subseteq Nat /\ IsFiniteSet(Sections)
                              /\ Scanned \subseteq Sections /\ Written \subseteq Texts
                              /\ MaxVersion \in Nat
                              /\ Hits \in Nat /\ MaxSnapshots \in Nat

VARIABLES
    snapshots,  \* the file under each date's directory, oldest first
    canon, index, head,   \* the canonical file, git's index and HEAD
    corpus,     \* the collection: the document's chunks, by number
    steward,    \* what each process is doing
    shown,      \* the sections that the digest's message lists
    cut,        \* those that came after its 2800th character
    gaps,       \* pending knowledge_gap tasks
    told,       \* history: the date of a digest whose two files still are as it says, or 0
    surprise,   \* history: sections that a merge of that date changed beside the digest
    loose,      \* history: a merge died or failed after its copy
    torn,       \* history: re-ingests overlapped or died, none ran alone since
    owed        \* history: the file has been copied over since last read

Digest == <<shown, cut, told, surprise>>

knowledgeVars == <<snapshots, canon, index, head, corpus, steward, shown, cut, gaps,
                   told, surprise, loose, torn, owed>>

NoText == [named |-> {}, body |-> [s \in Sections |-> 0]]
Chunk == [names : SUBSET Sections, version : 0 .. MaxVersion]

(* alone: this re-ingest overlapped none, or nothing died since this add.  *)
AtDesk == [step |-> "idle", text |-> NoText, next |-> 0, alone |-> FALSE]

Git == <<canon, index, head>>

KnowledgeInit ==
    /\ snapshots = << >>
    /\ canon = NoText /\ index = NoText /\ head = NoText
    /\ corpus = << >>
    /\ steward = [p \in Stewards |-> AtDesk]
    /\ shown = {} /\ cut = {} /\ told = 0 /\ surprise = {} /\ gaps = {}
    /\ loose = FALSE /\ torn = FALSE /\ owed = FALSE

-----------------------------------------------------------------------------
(* The digest stands no longer.                                            *)
Overtaken == told' = 0 /\ shown' = {} /\ cut' = {} /\ UNCHANGED surprise

(* snapshot of whatever the org holds: `_safe` leaves out what a failed    *)
(* call would have told, but for the name; a failed list leaves nothing.   *)
(* A second one of the same date writes over the first.                    *)
TakeSnapshot(text) ==
    /\ \A s \in Sections : text.body[s] # 0 => s \in text.named
    /\ \/ /\ Len(snapshots) < MaxSnapshots
          /\ snapshots' = Append(snapshots, text)
          /\ UNCHANGED Digest
       \/ /\ snapshots # << >>
          /\ snapshots' = [snapshots EXCEPT ![Len(snapshots)] = text]
          /\ IF told = Len(snapshots) THEN Overtaken ELSE UNCHANGED Digest
    /\ UNCHANGED <<Git, corpus, steward, gaps, loose, torn, owed>>

(* diff, for the sections that are new or have changed only.               *)
Changed_Added(old, new) ==
    {s \in Sections : new.body[s] # 0 /\ new.body[s] # old.body[s]}

(* diff, section by section over the headings of both texts.               *)
Changed(old, new) == {s \in Sections : new.body[s] # old.body[s]}

(* Where diff comes to a section: those of the old text before new ones.   *)
ListedBefore(s, t, old) ==
    IF (old.body[s] # 0) = (old.body[t] # 0) THEN s < t ELSE old.body[s] # 0

(* send_weekly_digest, of the newest date: summary[:2800] may break off    *)
(* after any of the sections, and does not say so.                         *)
SendDigest ==
    LET listed == Changed(canon, snapshots[Len(snapshots)]) IN
    /\ snapshots # << >> /\ told' = Len(snapshots)
    /\ shown' \in SUBSET listed /\ cut' = listed \ shown'
    /\ \A s \in shown', t \in cut' : ListedBefore(s, t, canon)
    /\ UNCHANGED <<snapshots, Git, corpus, steward, gaps, surprise, loose, torn, owed>>

-----------------------------------------------------------------------------
(* merge and _commit_canonical                                             *)

Merging(p) == steward[p].step \in {"add", "commit"}
Ingesting(p) == steward[p].step \in {"ingest", "prune"}

(* merge: copy2 of the file of the date it is given over the canonical one. *)
CopyOver(p, date) ==
    /\ steward[p].step = "idle"
    /\ canon' = snapshots[date] /\ owed' = TRUE
    /\ surprise' = surprise \union
         (IF date = told
          THEN {s \in Sections : canon.body[s] # snapshots[date].body[s]} \ (shown \union cut)
          ELSE {})
    /\ IF canon = snapshots[date] THEN UNCHANGED <<told, shown, cut>>
       ELSE told' = 0 /\ shown' = {} /\ cut' = {}
    /\ steward' = [steward EXCEPT ![p].step = "add"]
    /\ UNCHANGED <<snapshots, index, head, corpus, gaps, loose, torn>>

GitAdd(p) ==
    /\ steward[p].step = "add"
    /\ index' = canon
    /\ steward' = [steward EXCEPT ![p].step = "commit", ![p].alone = TRUE]
    /\ UNCHANGED <<snapshots, canon, head, corpus, Digest, gaps, loose, torn, owed>>

(* A merge that asks git what the work tree, and not the index, would add. *)
GitCommit_Worktree(p) ==
    /\ steward[p].step = "commit"
    /\ head' = IF canon = index THEN head ELSE index
    /\ loose' = (loose /\ ~ steward[p].alone)
    /\ steward' = [steward EXCEPT ![p] = AtDesk]
    /\ UNCHANGED <<snapshots, canon, index, corpus, Digest, gaps, torn, owed>>

(* `diff --cached --quiet`, and the commit of the index when it differs.   *)
GitCommit(p) ==
    /\ steward[p].step = "commit"
    /\ head' = IF index = head THEN head ELSE index
    /\ loose' = (loose /\ ~ steward[p].alone)
    /\ steward' = [steward EXCEPT ![p] = AtDesk]
    /\ UNCHANGED <<snapshots, canon, index, corpus, Digest, gaps, torn, owed>>

-----------------------------------------------------------------------------
(* reingest_file, ingest_chunked_document and delete_stale_chunks          *)

(* The section that comes i-th in the text.                                *)
Ith(written, i) == CHOOSE s \in written : Cardinality({r \in written : r =< s}) = i

(* _chunk_markdown: the list, which is the document's head, and one chunk  *)
(* for each section that has a body, in the text's order.                  *)
ChunksOf(text) ==
    LET written == {s \in Sections : text.body[s] # 0} IN
    <<[names |-> text.named, version |-> 0]>> \o
    [i \in 1 .. Cardinality(written) |->
        LET s == Ith(written, i) IN [names |-> {s}, version |-> text.body[s]]]

ReadCanonical(p) ==
    /\ steward[p].step = "idle" /\ canon # NoText
    /\ steward' = [q \in Stewards |->
                     IF q = p THEN [step |-> "ingest", text |-> canon, next |-> 1,
                                    alone |-> \A r \in Stewards : ~ Ingesting(r)]
                     ELSE [steward[q] EXCEPT !.alone = FALSE]]
    /\ torn' = (torn \/ \E r \in Stewards : Ingesting(r))
    /\ owed' = FALSE
    /\ UNCHANGED <<snapshots, Git, corpus, Digest, gaps, loose>>

(* One upsert, under the id of its number.                                 *)
IngestChunk(p) ==
    LET new == ChunksOf(steward[p].text)
        n == steward[p].next IN
    /\ steward[p].step = "ingest"
    /\ corpus' = IF n =< Len(corpus) THEN [corpus EXCEPT ![n] = new[n]]
                 ELSE Append(corpus, new[n])
    /\ steward' = [steward EXCEPT ![p].step = IF n = Len(new) THEN "prune" ELSE "ingest",
                                  ![p].next = n + 1]
    /\ UNCHANGED <<snapshots, Git, Digest, gaps, loose, torn, owed>>

(* A re-ingest that leaves the longer text's last chunks behind.           *)
PruneStale_None(p) ==
    /\ steward[p].step = "prune"
    /\ torn' = (torn /\ ~ steward[p].alone)
    /\ steward' = [steward EXCEPT ![p] = AtDesk]
    /\ UNCHANGED <<snapshots, Git, corpus, Digest, gaps, loose, owed>>

(* delete_stale_chunks: every chunk of the document it did not write.      *)
PruneStale(p) ==
    LET kept == Len(ChunksOf(steward[p].text)) IN
    /\ steward[p].step = "prune"
    /\ corpus' = IF Len(corpus) > kept THEN SubSeq(corpus, 1, kept) ELSE corpus
    /\ torn' = (torn /\ ~ steward[p].alone)
    /\ steward' = [steward EXCEPT ![p] = AtDesk]
    /\ UNCHANGED <<snapshots, Git, Digest, gaps, loose, owed>>

(* A merge or a re-ingest dies, or git refuses it.                         *)
KillSteward(p) ==
    /\ steward[p].step # "idle"
    /\ loose' = (loose \/ Merging(p))
    /\ torn' = (torn \/ Ingesting(p))
    /\ steward' = [q \in Stewards |-> IF q = p THEN AtDesk
                                      ELSE [steward[q] EXCEPT
                                              !.alone = @ /\ Merging(p) # Merging(q)]]
    /\ UNCHANGED <<snapshots, Git, corpus, Digest, gaps, owed>>

-----------------------------------------------------------------------------

(* _object_has_knowledge: the name, in one of the chunks that are nearest. *)
HasKnowledge(s, hits) == \E i \in hits : s \in corpus[i].names

(* scan_custom_objects and record_gap, for an object the org has.          *)
ScanForGap(s) ==
    /\ s \notin gaps
    /\ \E hits \in SUBSET DOMAIN corpus :
        /\ Cardinality(hits) = IF Len(corpus) < Hits THEN Len(corpus) ELSE Hits
        /\ ~ HasKnowledge(s, hits)
    /\ gaps' = gaps \union {s}
    /\ UNCHANGED <<snapshots, Git, corpus, steward, Digest, loose, torn, owed>>

KnowledgeNext ==
    \/ \E text \in Written : TakeSnapshot(text)
    \/ SendDigest
    \/ \E p \in Stewards :
        \/ \E date \in DOMAIN snapshots : CopyOver(p, date)
        \/ GitAdd(p) \/ GitCommit(p)
        \/ ReadCanonical(p) \/ IngestChunk(p) \/ PruneStale(p)
        \/ KillSteward(p)
    \/ \E s \in Scanned : ScanForGap(s)

KnowledgeSpec == KnowledgeInit /\ [][KnowledgeNext]_knowledgeVars

-----------------------------------------------------------------------------

KnowledgeTypeOK ==
    /\ snapshots \in Seq(Texts) /\ Len(snapshots) =< MaxSnapshots
    /\ {canon, index, head} \subseteq Texts
    /\ corpus \in Seq(Chunk)
    /\ \A p \in Stewards : steward[p].step \in {"idle", "add", "commit", "ingest", "prune"}
    /\ shown \subseteq Sections /\ cut \subseteq Sections /\ gaps \subseteq Sections
    /\ told \in 0 .. Len(snapshots)

(* Whatever dies or fails half way, the canonical file is what HEAD holds  *)
(* unless a merge is between its copy and its commit, or was left there    *)
(* and no later `add` has been committed (merge, _commit_canonical).       *)
CanonicalIsCommitted ==
    canon = head \/ loose \/ \E p \in Stewards : Merging(p)

(* The corpus is the canonical file's chunks, all of one version and none  *)
(* left of a longer one, once it has been re-ingested: a re-ingest that    *)
(* runs alone mends what overlapping or killed ones left (reingest_file,   *)
(* "re-ingest is idempotent").                                             *)
CorpusIsTheCanonical ==
    (~ torn /\ ~ owed /\ canon # NoText /\ \A p \in Stewards : ~ Ingesting(p))
        => corpus = ChunksOf(canon)

(* A merge of the date that the digest is about changes no section that it *)
(* did not list, sections that a failed describe has left out included,    *)
(* but those its message had no room for: whatever snapshots come after    *)
(* it, as long as neither of its two files has been written since          *)
(* (render_summary, send_weekly_digest, merge).                            *)
MergedAsShown == surprise = {}

(* What the refresh promises of its three copies.                          *)
KnowledgeInv ==
    KnowledgeTypeOK /\ CanonicalIsCommitted /\ CorpusIsTheCanonical /\ MergedAsShown
=============================================================================
