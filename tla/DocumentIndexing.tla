-------------------------- MODULE DocumentIndexing --------------------------
(***************************************************************************)
(* How a file becomes searchable, is rebuilt, and stops being searchable:  *)
(*   modules/knowledge/application/use_cases.py   IndexFile,               *)
(*     IndexRegisteredDocument, ReindexDocuments, CancelReindexJob,        *)
(*     PurgeFileKnowledge                                                  *)
(*   modules/knowledge/application/indexing.py    IndexDocument            *)
(*   modules/knowledge/adapters/sql_repository.py the rows                 *)
(*   workers/bootstrap.py, workers/content_resolver.py  the event handler  *)
(*                                                                         *)
(* Three stores change in turn: rows (Postgres), points (Qdrant) and events *)
(* (the outbox, delivered at least once).  Only the terminal write of the  *)
(* worker, a re-index's commit and a cancellation are transactions; every  *)
(* other line of a request is a step of its own.                           *)
(***************************************************************************)
EXTENDS Naturals, FiniteSets

CONSTANTS
  File, Worker, Request,
  N,           \* bound: the documents ever registered, 1..N
  Batches,     \* _EMBED_BATCH-sized batches of a document's chunks
  MaxFaults    \* bound: duplicated events and crashed workers

ASSUME IndexingAssumption == N \in Nat /\ Batches \in Nat \ {0} /\ MaxFaults \in Nat

Doc == 1..N
DocEntry == Doc \X {1, 2}   \* a stream entry of the document's event, and its duplicate

VARIABLES
  readable,   \* SUBSET File: ready and not deleted
  status,     \* [Doc -> its row's status; "unborn" before, "gone" after]
  fileOf,     \* [Doc -> its file]
  chunks,     \* SUBSET Doc: with knowledge_chunks rows
  points,     \* [Doc -> how many of its batches are in the vector store]
  told,       \* [Doc -> the last event published about it]
  ledger,     \* SUBSET Doc: processed_events
  entry,      \* [DocEntry -> "none", "ready", "held" or "done"]
  job,        \* [Doc -> the re-index job that made it: "none", "running", "cancelled"]
  work,       \* [Worker -> its delivery]
  req,        \* [Request -> what it is doing]
  faults,
  touched,    \* history: documents whose points a re-index or a deletion removed
  late        \* history: documents a delivery wrote although they were settled, touched
              \*          or of a deleted file

stores == <<status, chunks, points, told, ledger>>
history == <<touched, late>>
indexingVars == <<readable, fileOf, stores, entry, job, work, req, faults, history>>

NoFile == "none"
Resting == [at |-> "idle", entry |-> <<0, 0>>, done |-> 0, outcome |-> "none"]
Quiet == [at |-> "idle", file |-> NoFile, doc |-> 0, claimed |-> FALSE]
Terminal == {"indexed", "failed"}

Rows == {d \in Doc : status[d] \notin {"unborn", "gone"}}
DocsOf(f) == {d \in Rows : fileOf[d] = f}
Unborn == {d \in Doc : status[d] = "unborn"}
NextId == CHOOSE d \in Unborn : \A e \in Unborn : d <= e

IndexingInit ==
  /\ readable = File
  /\ status = [d \in Doc |-> "unborn"] /\ fileOf = [d \in Doc |-> NoFile]
  /\ chunks = {} /\ points = [d \in Doc |-> 0]
  /\ told = [d \in Doc |-> "nothing"] /\ ledger = {}
  /\ entry = [e \in DocEntry |-> "none"] /\ job = [d \in Doc |-> "none"]
  /\ work = [w \in Worker |-> Resting] /\ req = [q \in Request |-> Quiet]
  /\ faults = 0
  /\ touched = {} /\ late = {}

Ask(q, step) == req' = [req EXCEPT ![q] = step]

\* set_status: an UPDATE by id, with no condition on what the status was; it
\* touches nothing when the row is gone.
SetStatus(d, new) == status' = [status EXCEPT ![d] = IF d \in Rows THEN new ELSE @]

\* Document.add with DocumentRegistered, which the relay puts on the stream.
Registered(d, f) ==
  /\ fileOf' = [fileOf EXCEPT ![d] = f]
  /\ told' = [told EXCEPT ![d] = "registered"]
  /\ entry' = [entry EXCEPT ![<<d, 1>>] = "ready"]

\* A request ends at any step: refused, or its process died.
GivesUp(q) ==
  /\ req[q] # Quiet /\ Ask(q, Quiet)
  /\ UNCHANGED <<readable, fileOf, stores, entry, job, work, faults, history>>

-----------------------------------------------------------------------------
(* POST /knowledge/documents: IndexFileService.start, one READ COMMITTED    *)
(* transaction; the look-up sees nobody's uncommitted row.                 *)

IndexCheck(q) ==
  /\ req[q] = Quiet
  /\ \E f \in readable : DocsOf(f) = {} /\ Ask(q, [Quiet EXCEPT !.at = "add", !.file = f])
  /\ UNCHANGED <<readable, fileOf, stores, entry, job, work, faults, history>>

IndexAdd(q) ==
  /\ req[q].at = "add" /\ Unborn # {}
  /\ Registered(NextId, req[q].file)
  /\ status' = [status EXCEPT ![NextId] = "pending"]
  /\ Ask(q, Quiet)
  /\ UNCHANGED <<readable, chunks, points, ledger, job, work, faults, history>>

-----------------------------------------------------------------------------
(* The knowledge worker: build_knowledge_index_handler.                    *)

At(w, at) == work[w].at = at
DocOf(w) == work[w].entry[1]
Do(w, step) == work' = [work EXCEPT ![w] = step]

\* The handler returned (the entry is acknowledged) or raised (it is delivered
\* again, and in the end parked).
Acks(w) == Do(w, Resting) /\ entry' = [entry EXCEPT ![work[w].entry] = "done"]
Raises(w) ==
  /\ Do(w, Resting)
  /\ \E next \in {"ready", "done"} : entry' = [entry EXCEPT ![work[w].entry] = next]

\* content.resolve: bytes that parse; UnsupportedType or Validation, terminal
\* facts about the file; any other error escapes, see Crash.
Resolve(w) ==
  /\ work[w] = Resting
  /\ \E e \in DocEntry, next \in {"run", "fail"} :
       /\ entry[e] = "ready" /\ entry' = [entry EXCEPT ![e] = "held"]
       /\ Do(w, [Resting EXCEPT !.at = next, !.entry = e])
  /\ UNCHANGED <<readable, fileOf, stores, job, req, faults, history>>

\* IndexRegisteredDocument.run and fail: the read and the terminal guard.
LoadDocument(w) ==
  /\ At(w, "run") \/ At(w, "fail")
  /\ \/ DocOf(w) \notin Rows /\ Raises(w)
     \/ DocOf(w) \in Rows /\ status[DocOf(w)] \in Terminal /\ Acks(w)
     \/ /\ DocOf(w) \in Rows /\ status[DocOf(w)] \notin Terminal
        /\ Do(w, IF At(w, "run") THEN [work[w] EXCEPT !.at = "claim"]
                 ELSE [work[w] EXCEPT !.at = "finalize", !.outcome = "failed"])
        /\ UNCHANGED entry
  /\ UNCHANGED <<readable, fileOf, stores, job, req, faults, history>>

\* set_status(INDEXING), in a transaction of its own.
ClaimDocument(w) ==
  /\ At(w, "claim")
  /\ SetStatus(DocOf(w), "indexing") /\ Do(w, [work[w] EXCEPT !.at = "upsert"])
  /\ UNCHANGED <<readable, fileOf, chunks, points, told, ledger, entry, job, req, faults, history>>

Late(d) ==
  IF d \in Rows \ (ledger \cup touched) /\ fileOf[d] \in readable THEN late ELSE late \cup {d}

\* IndexDocument.execute: batch after batch under ids that a rerun computes again.
UpsertBatch(w) ==
  LET d == DocOf(w)
      n == work[w].done + 1
  IN
  /\ At(w, "upsert")
  /\ points' = [points EXCEPT ![d] = IF n > @ THEN n ELSE @]
  /\ late' = Late(d)
  /\ Do(w, IF n < Batches THEN [work[w] EXCEPT !.done = n]
           ELSE [work[w] EXCEPT !.at = "finalize", !.done = n, !.outcome = "indexed"])
  /\ UNCHANGED <<readable, fileOf, status, chunks, told, ledger, entry, job, req, faults,
                 touched>>

\* Mutant of PipelineFails: what was embedded before the failure is the outcome.
PipelineFailsQuietly(w) ==
  /\ At(w, "upsert") /\ Do(w, [work[w] EXCEPT !.at = "finalize", !.outcome = "indexed"])
  /\ UNCHANGED <<readable, fileOf, stores, entry, job, req, faults, history>>

\* A batch that failed, also one chunk at a time: an outcome, not an exception.
PipelineFails(w) ==
  /\ At(w, "upsert") /\ Do(w, [work[w] EXCEPT !.at = "finalize", !.outcome = "failed"])
  /\ UNCHANGED <<readable, fileOf, stores, entry, job, req, faults, history>>

\* ledger.claim: the event was settled by another delivery.
Claimed(d) == d \in ledger

\* finalize writes the chunk rows; their foreign key needs the document.
NewChunks(d, outcome) == IF outcome = "indexed" THEN chunks \cup {d} ELSE chunks

\* Mutant of Announce: the event is appended once per document.
AnnounceFirst(d, outcome) ==
  told' = [told EXCEPT ![d] = IF @ = "registered" THEN outcome ELSE @]

\* outbox.append of DocumentIndexed or DocumentIndexingFailed.
Announce(d, outcome) == told' = [told EXCEPT ![d] = outcome]

\* One transaction: the claim, the chunks, the status and the event.
Finalize(w) ==
  LET d == DocOf(w)
      outcome == work[w].outcome
  IN
  /\ At(w, "finalize")
  /\ \/ Claimed(d) /\ Acks(w) /\ UNCHANGED <<stores, late>>
     \/ ~ Claimed(d) /\ d \notin Rows /\ outcome = "indexed" /\ Raises(w)
        /\ UNCHANGED <<stores, late>>
     \/ /\ ~ Claimed(d) /\ (d \in Rows \/ outcome = "failed")
        /\ ledger' = ledger \cup {d}
        /\ chunks' = NewChunks(d, outcome)
        /\ SetStatus(d, outcome) /\ Announce(d, outcome)
        /\ late' = Late(d)
        /\ Acks(w) /\ UNCHANGED points
  /\ UNCHANGED <<readable, fileOf, job, req, faults, touched>>

\* The process dies, or an outage escapes the handler: redelivered or parked.
Crash(w) ==
  /\ work[w] # Resting /\ faults < MaxFaults /\ faults' = faults + 1
  /\ Raises(w)
  /\ UNCHANGED <<readable, fileOf, stores, job, req, history>>

\* The relay published the event and died before it marked it.
Duplicate(d) ==
  /\ entry[<<d, 1>>] # "none" /\ entry[<<d, 2>>] = "none"
  /\ faults < MaxFaults /\ faults' = faults + 1
  /\ entry' = [entry EXCEPT ![<<d, 2>>] = "ready"]
  /\ UNCHANGED <<readable, fileOf, stores, job, work, req, history>>

-----------------------------------------------------------------------------
(* POST /knowledge/reindex: prepare, outside any transaction, then commit.  *)
(* A job of several documents does this for each; the model has one.       *)

\* prepare: a settled document whose file is readable.
ReindexRead(q) ==
  /\ req[q] = Quiet
  /\ \E d \in Rows : /\ status[d] \in Terminal /\ fileOf[d] \in readable
                     /\ Ask(q, [Quiet EXCEPT !.at = "vectors", !.doc = d])
  /\ UNCHANGED <<readable, fileOf, stores, entry, job, work, faults, history>>

\* The points a set of documents' chunk rows refer to.
DropPoints(docs) == points' = [d \in Doc |-> IF d \in docs \cap chunks THEN 0 ELSE points[d]]

\* _purge_vectors.
ReindexVectors(q) ==
  /\ req[q].at = "vectors" /\ Ask(q, [req[q] EXCEPT !.at = "commit"])
  /\ DropPoints({req[q].doc}) /\ touched' = touched \cup {req[q].doc}
  /\ UNCHANGED <<readable, fileOf, status, chunks, told, ledger, entry, job, work, faults,
                 late>>

\* commit: the source's rows go, whether or not they are still there, and the
\* replacement comes with its event and its job.
ReindexCommit(q) ==
  LET d == req[q].doc IN
  /\ req[q].at = "commit" /\ Unborn # {} /\ Ask(q, Quiet)
  /\ status' = [status EXCEPT ![d] = "gone", ![NextId] = "pending"]
  /\ chunks' = chunks \ {d}
  /\ Registered(NextId, fileOf[d])
  /\ job' = [job EXCEPT ![d] = "none", ![NextId] = "running"]
  /\ UNCHANGED <<readable, points, ledger, work, faults, history>>

\* CancelReindexJob.execute: the job's view of its document; a job that has
\* nothing left to stop is refused ...
CancelRead(q) ==
  /\ req[q] = Quiet
  /\ \E d \in Rows : /\ job[d] = "running" /\ status[d] \notin Terminal
                     /\ Ask(q, [Quiet EXCEPT !.at = "cancel", !.doc = d,
                                              !.claimed = status[d] = "pending"])
  /\ UNCHANGED <<readable, fileOf, stores, entry, job, work, faults, history>>

\* ... and the writes: failed for a document that was pending, with its event.
CancelWrite(q) ==
  LET d == req[q].doc IN
  /\ req[q].at = "cancel" /\ Ask(q, Quiet)
  /\ IF req[q].claimed THEN SetStatus(d, "failed") /\ Announce(d, "failed")
     ELSE UNCHANGED <<status, told>>
  /\ job' = [job EXCEPT ![d] = IF @ = "running" THEN "cancelled" ELSE @]
  /\ UNCHANGED <<readable, fileOf, chunks, points, ledger, entry, work, faults, history>>

-----------------------------------------------------------------------------
(* DELETE /files/{id}: DeleteFileService.delete.  It may be repeated.      *)

MarkFile(q) ==
  /\ req[q] = Quiet
  /\ \E f \in File : readable' = readable \ {f} /\ Ask(q, [Quiet EXCEPT !.at = "points", !.file = f])
  /\ UNCHANGED <<fileOf, stores, entry, job, work, faults, history>>

\* Mutant of PurgePoints: the rows first.
RowsFirst(q) ==
  /\ req[q].at = "points" /\ Ask(q, [req[q] EXCEPT !.at = "rows"])
  /\ chunks' = chunks \ DocsOf(req[q].file) /\ touched' = touched \cup DocsOf(req[q].file)
  /\ UNCHANGED <<readable, fileOf, status, points, told, ledger, entry, job, work, faults, late>>

\* PurgeFileKnowledge: the refs of the chunk rows, and their points ...
PurgePoints(q) ==
  /\ req[q].at = "points" /\ Ask(q, [req[q] EXCEPT !.at = "rows"])
  /\ DropPoints(DocsOf(req[q].file)) /\ touched' = touched \cup DocsOf(req[q].file)
  /\ UNCHANGED <<readable, fileOf, status, chunks, told, ledger, entry, job, work, faults,
                 late>>

\* ... then purge_file.  Chunk rows a worker committed since the refs were read
\* go with it.
PurgeRows(q) ==
  LET docs == DocsOf(req[q].file) IN
  /\ req[q].at = "rows" /\ Ask(q, Quiet)
  /\ status' = [d \in Doc |-> IF d \in docs THEN "gone" ELSE status[d]]
  /\ chunks' = chunks \ docs
  /\ job' = [d \in Doc |-> IF d \in docs THEN "none" ELSE job[d]]
  /\ UNCHANGED <<readable, fileOf, points, told, ledger, entry, work, faults, touched, late>>

-----------------------------------------------------------------------------
WorkerStep(w) ==
  \/ Resolve(w) \/ LoadDocument(w) \/ ClaimDocument(w) \/ UpsertBatch(w)
  \/ PipelineFails(w) \/ Finalize(w)

IndexingNext ==
  \/ \E q \in Request :
       \/ GivesUp(q) \/ IndexCheck(q) \/ IndexAdd(q)
       \/ ReindexRead(q) \/ ReindexVectors(q) \/ ReindexCommit(q)
       \/ CancelRead(q) \/ CancelWrite(q)
       \/ MarkFile(q) \/ PurgePoints(q) \/ PurgeRows(q)
  \/ \E w \in Worker : WorkerStep(w) \/ Crash(w)
  \/ \E d \in Doc : Duplicate(d)

IndexingSpec == IndexingInit /\ [][IndexingNext]_indexingVars

-----------------------------------------------------------------------------
(* Properties.                                                             *)

\* The status a client polls and the event a client was sent agree once the
\* document is settled, although a cancellation and two deliveries write both
\* without knowing of each other: each writes them in one transaction.
StatusIsAnnounced ==
  \A d \in Doc : status[d] \in Terminal => told[d] = status[d]

\* A document that says indexed has all its points and its chunk rows, unless a
\* re-index or a deletion took the points since.
IndexedIsSearchable ==
  \A d \in Doc \ touched : status[d] = "indexed" => d \in chunks /\ points[d] = Batches

\* The points of a document that was announced as indexed can always be found
\* again, by the chunk rows that name them: a re-index or a deletion that died
\* half way is finished by repeating it.  Left aside are documents a delivery
\* went on writing after they were settled, or while a re-index or the deletion
\* of their file was taking them apart.
PointsAreFindable ==
  \A d \in ledger \ late : told[d] = "indexed" /\ points[d] > 0 => d \in chunks

-----------------------------------------------------------------------------
(* The invariants the proofs carry.                                        *)

\* What a delivery and a request are, wherever they stand.
Delivery == [at : {"idle", "run", "fail", "claim", "upsert", "finalize"},
             entry : DocEntry \cup {<<0, 0>>}, done : 0..Batches,
             outcome : {"none", "indexed", "failed"}]

Asked == [at : {"idle", "add", "vectors", "commit", "cancel", "points", "rows"},
          file : File \cup {NoFile}, doc : 0..N, claimed : BOOLEAN]

StoreTypes ==
  /\ status \in [Doc -> {"unborn", "pending", "indexing", "indexed", "failed", "gone"}]
  /\ fileOf \in [Doc -> File \cup {NoFile}] /\ readable \subseteq File
  /\ chunks \subseteq Doc /\ points \in [Doc -> 0..Batches]
  /\ told \in [Doc -> {"nothing", "registered", "indexed", "failed"}]
  /\ ledger \subseteq Doc

\* A delivery that is under way has an entry, and a request its document or its file.
ActorTypes ==
  /\ work \in [Worker -> Delivery]
  /\ \A w \in Worker : ~ At(w, "idle") => work[w].entry \in DocEntry
  /\ req \in [Request -> Asked]
  /\ \A q \in Request : /\ req[q].at \in {"vectors", "commit", "cancel"} => req[q].doc \in Doc
                        /\ req[q].at \in {"add", "points", "rows"} => req[q].file \in File

\* What a delivery has sent is in the vector store, unless a re-index or a deletion took
\* it, and it finishes as indexed only after the last batch.
UpsertsAreKept ==
  \A w \in Worker :
    /\ work[w].at \in {"run", "fail", "claim"} => work[w].done = 0
    /\ At(w, "upsert") => work[w].done < Batches
    /\ (At(w, "upsert") /\ DocOf(w) \notin touched) => work[w].done <= points[DocOf(w)]
    /\ At(w, "finalize") => work[w].outcome \in Terminal
    /\ (At(w, "finalize") /\ work[w].outcome = "indexed" /\ DocOf(w) \notin touched)
         => points[DocOf(w)] = Batches

\* Announced as indexed, and no delivery wrote where it should not have.
Vouched == {d \in ledger \ late : told[d] = "indexed"}

\* Once a re-index or a deletion took its points, such a document has none.
TouchedAreEmpty == \A d \in Vouched \cap touched : points[d] = 0

\* Rows go after their points: a re-index commits for a document it emptied, and a
\* deletion that has come to the rows has emptied every document of its file that is
\* vouched for; later ones cannot be, as the file is not readable any more.
RowsGoLast ==
  \A q \in Request :
    /\ req[q].at = "commit" => req[q].doc \in touched
    /\ req[q].at \in {"points", "rows"} => req[q].file \notin readable
    /\ req[q].at = "rows" => DocsOf(req[q].file) \cap Vouched \subseteq touched

IndexingInv ==
  /\ StoreTypes /\ ActorTypes /\ UpsertsAreKept /\ TouchedAreEmpty /\ RowsGoLast
  /\ StatusIsAnnounced /\ IndexedIsSearchable /\ PointsAreFindable
=============================================================================
