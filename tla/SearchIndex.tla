------------------------------ MODULE SearchIndex ------------------------------
(***************************************************************************)
(* The vector index: a graph in memory and its container on disk, both     *)
(* derived from the snapshots of the database.  Every capture and every    *)
(* deletion commits to the database first and follows with the index; the  *)
(* process may end between the two, and each of the steps may fail.  The   *)
(* start compares the container with the rows and builds anew when they    *)
(* differ.  A vector is the text it was computed from and the revision of  *)
(* the embedding; a container also keeps the second a row was last seen.   *)
(* Captures may follow one another within a second, and the clock may be   *)
(* set back.                                                               *)
(***************************************************************************)
EXTENDS Naturals, Sequences, FiniteSets, SequencesExt

CONSTANTS
    Ids,          \* snapshot_id
    Texts,        \* contents of a snapshot, none of them blank
    Zero,         \* texts whose features cancel out: no embedding
    Revisions,    \* vectors the system or the fallback may produce
    SEARCH_CANDIDATES,
    MaxTime,      \* bound: seconds
    MaxFaults     \* bound: writes that fail, crashes, updates of the system

VARIABLES
    now, rows,
    active,     \* the snapshot of the foreground sequence and its text, or none
    up,         \* the daemon: running, stopped, or not able to start
    memory,     \* SemanticSearchService: index
    disk,       \* the container: a record, or missing
    revision,   \* what the embedder computes with
    failed,     \* rows whose text, or whose deletion, did not reach the index
    masked,     \* rows with a new text in a second that the container has of them
    asked, answer,
    faults

vars == <<now, rows, active, up, memory, disk, revision, failed, masked, asked, answer, faults>>
lost == <<failed, masked>>
searching == <<asked, answer>>

Absent == [seen |-> 0]
Nothing == [records |-> {}, signature |-> 0]   \* there is no container
Quiet == [lexical |-> <<>>, vector |-> <<>>]
NoSequence == [id |-> "none", text |-> "none"]

Row == [text : Texts, seen : 1..MaxTime]
Present == {i \in Ids : rows[i] # Absent}
Record(i, text, seen, r) == [id |-> i, text |-> text, seen |-> seen, revision |-> r]
Ranked(records) == {x.id : x \in records}

TypeOK ==
    /\ now \in 1..MaxTime /\ revision \in Revisions
    /\ \A i \in Ids : rows[i] \in {Absent} \cup Row
    /\ up \in {"up", "down", "refused"}
    /\ failed \subseteq Ids /\ masked \subseteq Ids
    /\ \A x \in memory.records \cup disk.records :
          /\ x.id \in Ids /\ x.text \in Texts \ Zero /\ x.seen \in 1..MaxTime
    /\ \A graph \in {memory, disk} :
          \A x, y \in graph.records : x.id = y.id => x = y
    /\ faults \in 0..MaxFaults

Init ==
    /\ now = 1 /\ rows = [i \in Ids |-> Absent] /\ active = NoSequence
    /\ up = "down" /\ memory = Nothing /\ disk = Nothing
    /\ revision \in Revisions /\ failed = {} /\ masked = {}
    /\ asked = Quiet /\ answer = <<>> /\ faults = 0

Fault == faults < MaxFaults /\ faults' = faults + 1

Tick ==
    /\ now' \in 1..MaxTime \ {now}
    /\ UNCHANGED <<rows, active, up, memory, disk, revision, lost, searching, faults>>

\* save_atomic: the rename may have happened when the sync of the directory fails.
Saved(graph) == disk' = graph /\ masked' = {} /\ UNCHANGED faults
NotSaved(graph) == Fault /\ disk' \in {disk, graph}

\* The process ends: the graph in memory and the foreground sequence are lost.
Die ==
    /\ up' = "down" /\ memory' = Nothing /\ active' = NoSequence

-------------------------------------------------------------------------------
(* Captures: persist_capture under the mutation barrier.                    *)

Upserted(i) ==
    [memory EXCEPT !.records = {x \in @ : x.id # i}
                               \cup {Record(i, rows'[i].text, rows'[i].seen, revision)}]

\* The container has another text of the row for the second of the new one.
Masked(i) ==
    IF \E x \in disk.records : x.id = i /\ x.seen = rows'[i].seen /\ x.text # rows'[i].text
    THEN masked \cup {i} ELSE masked \ {i}

Keep(i, graph) ==
    /\ memory' = graph
    /\ \/ Saved(graph)
       \/ NotSaved(graph) /\ masked' = Masked(i)

\* The row could not be read back or the index could not take it.
Missed(i) ==
    /\ failed' = failed \cup {i} /\ masked' = Masked(i)
    /\ UNCHANGED <<memory, disk>>

\* upsert_persisted_snapshot: an embedding that fails leaves the graph, and so
\* does a graph that refuses the new vector, for the old one is put back.
Upsert(i) ==
    \/ /\ rows'[i].text \notin Zero
       /\ Keep(i, Upserted(i)) /\ failed' = failed \ {i}
    \/ rows'[i].text \in Zero /\ Missed(i) /\ UNCHANGED faults
    \/ rows'[i].text \notin Zero /\ Missed(i) /\ Fault

\* refresh_persisted_snapshot_metadata: the time of the record, and an upsert
\* when the record is missing.
Refresh(i) ==
    \/ /\ i \in Ranked(memory.records)
       /\ LET graph == [memory EXCEPT !.records =
                          {IF x.id = i THEN [x EXCEPT !.seen = rows'[i].seen] ELSE x : x \in @}]
          IN  Keep(i, graph) /\ UNCHANGED failed
    \/ i \in Ranked(memory.records) /\ Missed(i) /\ Fault
    \/ i \notin Ranked(memory.records) /\ Upsert(i)

\* Uuid::now_v7
Fresh(i) == rows[i] = Absent /\ i \notin failed \cup masked
                            \cup Ranked(memory.records) \cup Ranked(disk.records)

\* A capture stores a new row, or coalesces with the row of the sequence that is
\* in front, which it stores anew if it was erased meanwhile; one of the same
\* text only refreshes what the index knows.
Capture(i, text) ==
    /\ up = "up"
    /\ active.id = i \/ (active = NoSequence /\ Fresh(i))
    /\ rows' = [rows EXCEPT ![i] =
                  [text |-> text, seen |-> IF @.seen > now THEN @.seen ELSE now]]
    /\ \/ /\ active' = [id |-> i, text |-> text] /\ UNCHANGED up
          /\ IF active.id = i /\ active.text = text THEN Refresh(i) ELSE Upsert(i)
       \/ Die /\ Fault /\ masked' = Masked(i) /\ UNCHANGED <<disk, failed>>
    /\ UNCHANGED <<now, revision, searching>>

\* The sequence ends: another window, a pause, an error of the reader, or an
\* attempt that finds the epoch advanced by a deletion.
Discontinue ==
    /\ up = "up" /\ active # NoSequence
    /\ active' = NoSequence
    /\ UNCHANGED <<now, rows, up, memory, disk, revision, lost, searching, faults>>

-------------------------------------------------------------------------------
(* Deletions: enforce_retention_locked and delete_all_data.                 *)

Graph(some, all) ==
    [signature |-> revision,
     records |-> {Record(i, all[i].text, all[i].seen, revision) : i \in some}]

RemovedFaulty == disk' = disk /\ failed' = {} /\ masked' = {}
\* remove_file after a container that could not be replaced.
Removed == disk' = Nothing /\ failed' = {} /\ masked' = {}

\* The deletion is reported as failed, and the index keeps what it had of the rows.
Kept(gone) == failed' = failed \cup gone /\ UNCHANGED masked

\* SemanticSearchService::rebuild: one text without an embedding fails it all,
\* before anything is replaced; the container may withstand its removal, too.
Rebuild(gone) ==
    LET left == {i \in Ids : rows'[i] # Absent}
        graph == Graph(left, rows')
    IN  \/ /\ \A i \in left : rows'[i].text \notin Zero
           /\ memory' = graph
           /\ \/ Saved(graph) /\ failed' = {}
              \/ Fault /\ Removed
              \/ NotSaved(graph) /\ Kept(gone)
       \/ /\ \E i \in left : rows'[i].text \in Zero
          /\ Kept(gone)
          /\ UNCHANGED <<memory, disk, faults>>

\* The checkpoint, the VACUUM or the permissions after the commit fail, or the
\* rows cannot be read: the index is not rebuilt.
NotRebuilt(gone) == Fault /\ Kept(gone) /\ UNCHANGED <<memory, disk>>

\* The sequence in front may be of an erased row; it goes on until Discontinue.
Erase ==
    /\ up = "up"
    /\ \E some \in SUBSET Present \ {{}} :
          /\ rows' = [i \in Ids |-> IF i \in some THEN Absent ELSE rows[i]]
          /\ Rebuild(some) \/ NotRebuilt(some)
    /\ UNCHANGED <<now, active, up, revision, searching>>

\* The process ends between the commit and the rebuild.
EraseAndDie ==
    /\ up = "up" /\ Fault
    /\ \E some \in SUBSET Present \ {{}} :
          rows' = [i \in Ids |-> IF i \in some THEN Absent ELSE rows[i]]
    /\ Die
    /\ UNCHANGED <<now, disk, revision, lost, searching>>

Stop ==
    /\ up = "up" /\ Die
    /\ UNCHANGED <<now, rows, disk, revision, lost, searching, faults>>

\* macOS changes its vocabulary while the daemon is not running.
Update ==
    /\ up = "down" /\ Fault
    /\ revision' \in Revisions \ {revision}
    /\ UNCHANGED <<now, rows, active, up, memory, disk, lost, searching>>

-------------------------------------------------------------------------------
(* initialize_with_embedder.                                                *)

MatchesFaulty ==
    disk.signature = revision /\ Ranked(disk.records) = Present

\* index_matches: as many records as rows, each with the time of its row.
Matches ==
    /\ disk.signature = revision
    /\ Cardinality(disk.records) = Cardinality(Present)
    /\ \A i \in Present : \E x \in disk.records : x.id = i /\ x.seen = rows[i].seen

\* The masked rows are taken for current.
Load ==
    /\ up \in {"down", "refused"} /\ Matches
    /\ up' = "up" /\ memory' = disk
    /\ failed' = failed \cup masked /\ masked' = {}
    /\ UNCHANGED <<now, rows, active, disk, revision, searching, faults>>

Build ==
    /\ up \in {"down", "refused"} /\ ~Matches
    /\ LET graph == Graph(Present, rows) IN
       \/ /\ \A i \in Present : rows[i].text \notin Zero
          /\ \/ Saved(graph) /\ up' = "up" /\ memory' = graph /\ failed' = {}
             \/ NotSaved(graph) /\ up' = "down" /\ UNCHANGED <<memory, lost>>
       \/ /\ \E i \in Present : rows[i].text \in Zero
          /\ up' = "refused" /\ UNCHANGED <<memory, disk, lost, faults>>
    /\ UNCHANGED <<now, rows, active, revision, searching>>

-------------------------------------------------------------------------------
(* search and hybrid_rank_merge.                                            *)

Rank(list, i) == CHOOSE k \in DOMAIN list : list[k] = i

\* 0.55 / (60 + rank), in millionths.
Part(weight, list, i) ==
    IF i \in ToSet(list) THEN (weight * 1000000) \div (100 * (60 + Rank(list, i))) ELSE 0
Score(i) == Part(55, asked.lexical, i) + Part(45, asked.vector, i)

OrdersFaulty(ids) == {order \in SetToSeqs(ids) :
    \A j, k \in DOMAIN order : j < k => Score(order[j]) <= Score(order[k])}
\* Equal scores are in the order of the keys, which may be any.
Orders(ids) == {order \in SetToSeqs(ids) :
    \A j, k \in DOMAIN order : j < k => Score(order[j]) >= Score(order[k])}

Lists(ids) == UNION {SetToSeqs(some) : some \in {s \in SUBSET ids : Cardinality(s) <= SEARCH_CANDIDATES}}

\* Both lists under the mutex of the service; the rows may go before the answer.
Ask ==
    /\ up = "up" /\ asked = Quiet
    /\ \E lexical \in Lists(Present), vector \in Lists(Ranked(memory.records)) :
          /\ Len(vector) = Cardinality(memory.records) \/ Len(vector) = SEARCH_CANDIDATES
          /\ asked' = [lexical |-> lexical, vector |-> vector]
    /\ answer' = <<>>
    /\ UNCHANGED <<now, rows, active, up, memory, disk, revision, lost, faults>>

\* search_hits_by_ids: a row that has gone since is left out.
Found == (ToSet(asked.lexical) \cup ToSet(asked.vector)) \cap Present

Answer ==
    /\ asked # Quiet
    /\ answer' \in Orders(Found)
    /\ asked' = Quiet
    /\ UNCHANGED <<now, rows, active, up, memory, disk, revision, lost, faults>>

Next ==
    \/ Tick \/ Discontinue \/ Erase \/ EraseAndDie \/ Stop \/ Update \/ Load \/ Build
    \/ Ask \/ Answer
    \/ \E i \in Ids, text \in Texts : Capture(i, text)

Spec == Init /\ [][Next]_vars

-------------------------------------------------------------------------------
(* A row that the running daemon has in its index is there with the vector  *)
(* of its text and of the embedding in use, and every row is there, but for *)
(* a row whose upsert failed: whatever crash lost an update, the start has  *)
(* found it, unless the container already had the row for the same second,  *)
(* with the text the row had before.                                        *)
VectorsCurrent ==
    up = "up" => \A i \in Present \ failed :
        \E x \in memory.records : x = Record(i, rows[i].text, rows[i].seen, revision)

(* Once a deletion is over, no record of a deleted row is left in memory or *)
(* on disk, even when the container could not be replaced; only deletions   *)
(* that were answered with an error leave them there, until the next        *)
(* rebuild or start.                                                        *)
ErasedLeavesIndex ==
    up = "up" => Ranked(memory.records) \cup Ranked(disk.records) \subseteq Present \cup failed

\* Both rankings of the search under way have the first row, and put it before
\* the second or have not got the second.
Above(i, m) ==
    \A list \in {asked.lexical, asked.vector} :
        i \in ToSet(list) /\ (m \in ToSet(list) => Rank(list, i) < Rank(list, m))

(* A hit that both rankings prefer to another comes before it in the answer, *)
(* whatever was erased between the rankings and the answer.                  *)
Dominant ==
    [][asked # Quiet =>
        \A j, k \in DOMAIN answer' : Above(answer'[j], answer'[k]) => j < k]_vars

(* "woof rebuilds its vector index locally from canonical SQLite records"   *)
(* (VECTOR_FORMAT.md): rows that captures have stored can be indexed again, *)
(* and no start is refused for their sake.                                  *)
Rebuildable == up # "refused"
===============================================================================
