------------------------- MODULE DocumentLifecycle -------------------------
(***************************************************************************)
(* Upload, background indexing and deletion of documents:                  *)
(* services/document_service.py over three stores that share no            *)
(* transaction - the documents table (row, count, noted), the upload       *)
(* directory (file) and the Chroma collection (index).                     *)
(*                                                                         *)
(* A step is what the single event loop runs between two awaits.  The      *)
(* flush and the commit that follows it without other work are one step:   *)
(* nothing of a flush is visible to another session before the commit.     *)
(* Parsing, file operations and the Chroma client are synchronous.         *)
(***************************************************************************)
EXTENDS Naturals

CONSTANTS Docs,       \* document ids: each is created by at most one upload
          Users,      \* authenticated users
          Owner,      \* Owner[d]: the user who uploads d
          Deletes,    \* DELETE requests: each is served once
          NoDoc,      \* what a request that has not started yet is about
          MaxChunks,  \* bound on the chunks a document splits into
          Faults      \* the failures this instance is exposed to

FaultKinds == {"disk", "embed", "chroma", "db", "crash"}

ASSUME ConstantsAssumption ==
    /\ MaxChunks \in Nat \ {0}
    /\ Owner \in [Docs -> Users]
    /\ NoDoc \notin Docs
    /\ Faults \subseteq FaultKinds

VARIABLES row,    \* committed status of the row; "none" when there is no row
          count,  \* documents.chunk_count (0 stands for NULL)
          noted,  \* documents.error_message says that indexing is unavailable
          file,   \* the stored upload
          index,  \* number of chunks of the document held by Chroma
          text,   \* chunks the content splits into, 0 if no text comes out
          upl,    \* progress of the upload request
          task,   \* progress of process_document_task
          del     \* progress of each DELETE request

vars == <<row, count, noted, file, index, text, upl, task, del>>
stores == <<row, count, noted, file, index, text>>

Statuses == {"processing", "ready", "error"}
TaskLive == {"queued", "loaded", "embedding", "indexed", "unindexed", "failing"}
NotSeen == "none"

Init ==
    /\ row   = [d \in Docs |-> "none"]
    /\ count = [d \in Docs |-> 0]
    /\ noted = [d \in Docs |-> FALSE]
    /\ file  = [d \in Docs |-> "none"]
    /\ index = [d \in Docs |-> 0]
    /\ text  = [d \in Docs |-> 0]
    /\ upl   = [d \in Docs |-> "idle"]
    /\ task  = [d \in Docs |-> "none"]
    /\ del   = [r \in Deletes |-> [pc |-> "idle", doc |-> NoDoc, seen |-> NotSeen]]

------------------------------------------------------------------------------
(* POST /documents/upload *)

\* The validations pass and a row with status UPLOADING is flushed; it stays
\* private to the request's transaction.
UploadAccept(d) ==
    /\ upl[d] = "idle"
    /\ upl'  = [upl EXCEPT ![d] = "drafted"]
    /\ \E n \in 0..MaxChunks : text' = [text EXCEPT ![d] = n]
    /\ UNCHANGED <<row, count, noted, file, index, task, del>>

\* save_upload creates the destination file, then reads and writes in a loop.
UploadOpen(d) ==
    /\ upl[d] = "drafted"
    /\ upl'  = [upl EXCEPT ![d] = "writing"]
    /\ file' = [file EXCEPT ![d] = "partial"]
    /\ UNCHANGED <<row, count, noted, index, text, task, del>>

UploadSaved(d) ==
    /\ upl[d] = "writing"
    /\ upl'  = [upl EXCEPT ![d] = "stored"]
    /\ file' = [file EXCEPT ![d] = "whole"]
    /\ UNCHANGED <<row, count, noted, index, text, task, del>>

\* A slip of UploadDiskFails: the error is swallowed and the upload goes on.
DiskErrorSwallowed(d) ==
    /\ "disk" \in Faults
    /\ upl[d] \in {"drafted", "writing"}
    /\ upl' = [upl EXCEPT ![d] = "stored"]
    /\ UNCHANGED <<stores, task, del>>

\* OSError from open or write: the transaction is rolled back, what was
\* written stays on the disk.
UploadDiskFails(d) ==
    /\ "disk" \in Faults
    /\ upl[d] \in {"drafted", "writing"}
    /\ upl' = [upl EXCEPT ![d] = "failed"]
    /\ UNCHANGED <<stores, task, del>>

\* The row is committed as PROCESSING and the background task is added.
UploadCommit(d) ==
    /\ upl[d] = "stored"
    /\ upl'  = [upl EXCEPT ![d] = "done"]
    /\ row'  = [row EXCEPT ![d] = "processing"]
    /\ task' = [task EXCEPT ![d] = "queued"]
    /\ UNCHANGED <<count, noted, file, index, text, del>>

\* The update or the commit raises: get_db rolls the draft row back.
UploadDbFails(d) ==
    /\ "db" \in Faults
    /\ upl[d] \in {"drafted", "writing", "stored"}
    /\ upl' = [upl EXCEPT ![d] = "failed"]
    /\ UNCHANGED <<stores, task, del>>

------------------------------------------------------------------------------
(* process_document_task *)

TaskLoad(d) ==
    /\ task[d] = "queued"
    /\ task' = [task EXCEPT ![d] = IF row[d] = "none" THEN "done" ELSE "loaded"]
    /\ UNCHANGED <<stores, upl, del>>

\* A slip of TaskParse: the row is READY before the chunks are embedded.
ReadyBeforeIndexing(d) ==
    /\ task[d] = "loaded"
    /\ row[d] # "none"
    /\ row'  = [row EXCEPT ![d] = "ready"]
    /\ task' = [task EXCEPT ![d] =
                  IF file[d] = "whole" /\ text[d] > 0 THEN "embedding" ELSE "failing"]
    /\ UNCHANGED <<count, noted, file, index, text, upl, del>>

\* extract_pages and chunk_pages: a missing file or no text raises
\* DocumentProcessingError; otherwise the chunks go to embedder.embed.
TaskParse(d) ==
    /\ task[d] = "loaded"
    /\ task' = [task EXCEPT ![d] =
                  IF file[d] = "whole" /\ text[d] > 0 THEN "embedding" ELSE "failing"]
    /\ UNCHANGED <<stores, upl, del>>

\* embed has answered and add_chunks runs in the same slice: nothing between
\* TaskLoad and here looks at the row again.
TaskIndex(d) ==
    /\ task[d] = "embedding"
    /\ index' = [index EXCEPT ![d] = text[d]]
    /\ task'  = [task EXCEPT ![d] = "indexed"]
    /\ UNCHANGED <<row, count, noted, file, text, upl, del>>

\* A slip of TaskIndexFails: the exception is logged and the task returns.
IndexErrorSwallowed(d) ==
    /\ task[d] = "embedding"
    /\ \/ "embed" \in Faults /\ UNCHANGED index
       \/ "chroma" \in Faults /\ index' \in {index, [index EXCEPT ![d] = text[d]]}
    /\ task' = [task EXCEPT ![d] = "done"]
    /\ UNCHANGED <<row, count, noted, file, text, upl, del>>

\* embed raises, or the Chroma call does - with or without having stored the
\* chunks when only its reply is lost.
TaskIndexFails(d) ==
    /\ task[d] = "embedding"
    /\ \/ "embed" \in Faults /\ UNCHANGED index
       \/ "chroma" \in Faults /\ index' \in {index, [index EXCEPT ![d] = text[d]]}
    /\ task' = [task EXCEPT ![d] = "unindexed"]
    /\ UNCHANGED <<row, count, noted, file, text, upl, del>>

\* A slip of Finish: the row is merged back when it is gone.
FinishUpserts(d, status, n, note) ==
    /\ row'   = [row EXCEPT ![d] = status]
    /\ count' = [count EXCEPT ![d] = n]
    /\ noted' = [noted EXCEPT ![d] = note]
    /\ task'  = [task EXCEPT ![d] = "done"]
    /\ UNCHANGED <<file, index, text, upl, del>>

\* repo.update and the commit.  update() writes no None, but a column it passes
\* over still has the value it was inserted with, as the task runs once.
Finish(d, status, n, note) ==
    /\ row[d] # "none"
    /\ row'   = [row EXCEPT ![d] = status]
    /\ count' = [count EXCEPT ![d] = n]
    /\ noted' = [noted EXCEPT ![d] = note]
    /\ task'  = [task EXCEPT ![d] = "done"]
    /\ UNCHANGED <<file, index, text, upl, del>>

TaskMarkReady(d) == task[d] = "indexed"   /\ Finish(d, "ready", text[d], FALSE)
\* A slip of TaskMarkNoted: no message.
MarkUnnoted(d)   == task[d] = "unindexed" /\ Finish(d, "ready", text[d], FALSE)

TaskMarkNoted(d) == task[d] = "unindexed" /\ Finish(d, "ready", text[d], TRUE)
TaskMarkError(d) == task[d] = "failing"   /\ Finish(d, "error", 0, FALSE)

\* The row is gone, so the flush raises StaleDataError; the handler's own
\* update then raises PendingRollbackError out of the task.
TaskRowGone(d) ==
    /\ task[d] \in {"indexed", "unindexed", "failing"}
    /\ row[d] = "none"
    /\ task' = [task EXCEPT ![d] = "lost"]
    /\ UNCHANGED <<stores, upl, del>>

\* The database fails under the task: the same two exceptions, or the load's.
TaskDbFails(d) ==
    /\ "db" \in Faults
    /\ task[d] \in {"queued", "indexed", "unindexed", "failing"}
    /\ task' = [task EXCEPT ![d] = "lost"]
    /\ UNCHANGED <<stores, upl, del>>

------------------------------------------------------------------------------
(* DELETE /documents/{id} *)

\* get_owned: the row is found, or the request ends with NotFoundError.
DeleteLoad(r, u, d) ==
    /\ del[r].pc = "idle"
    /\ del' = [del EXCEPT ![r] =
                 IF row[d] # "none" /\ Owner[d] = u
                 THEN [pc |-> "loaded", doc |-> d, seen |-> row[d]]
                 ELSE [pc |-> "refused", doc |-> d, seen |-> NotSeen]]
    /\ UNCHANGED <<stores, upl, task>>

\* A slip of DeletePurge: the file is not unlinked.
PurgeIndexOnly(r, d) ==
    /\ del[r].doc = d
    /\ del[r].pc = "loaded"
    /\ index' = [index EXCEPT ![d] = 0]
    /\ del'   = [del EXCEPT ![r].pc = "purged"]
    /\ UNCHANGED <<row, count, noted, file, text, upl, task>>

\* delete_upload and the Chroma delete, before the row is touched.
DeletePurge(r, d) ==
    /\ del[r].doc = d
    /\ del[r].pc = "loaded"
    /\ file'  = [file EXCEPT ![d] = "none"]
    /\ index' = [index EXCEPT ![d] = 0]
    /\ del'   = [del EXCEPT ![r].pc = "purged"]
    /\ UNCHANGED <<row, count, noted, text, upl, task>>

\* Chroma raises: the file is already unlinked, the row stays as it was.
DeleteChromaFails(r, d) ==
    /\ del[r].doc = d
    /\ "chroma" \in Faults
    /\ del[r].pc = "loaded"
    /\ file' = [file EXCEPT ![d] = "none"]
    /\ index' \in {index, [index EXCEPT ![d] = 0]}
    /\ del' = [del EXCEPT ![r].pc = "broken"]
    /\ UNCHANGED <<row, count, noted, text, upl, task>>

\* The DELETE statement and the commit; a row another request has already
\* deleted only makes SQLAlchemy warn.
DeleteCommit(r, d) ==
    /\ del[r].doc = d
    /\ del[r].pc = "purged"
    /\ row'   = [row EXCEPT ![d] = "none"]
    /\ count' = [count EXCEPT ![d] = 0]
    /\ noted' = [noted EXCEPT ![d] = FALSE]
    /\ del'   = [del EXCEPT ![r].pc = "done"]
    /\ UNCHANGED <<file, index, text, upl, task>>

DeleteDbFails(r) ==
    /\ "db" \in Faults
    /\ del[r].pc \in {"loaded", "purged"}
    /\ del' = [del EXCEPT ![r].pc = IF @ = "loaded" THEN "refused" ELSE "broken"]
    /\ UNCHANGED <<stores, upl, task>>

------------------------------------------------------------------------------
\* The process dies: requests and background tasks vanish, open transactions
\* are rolled back, the three stores keep what they have.
Crash ==
    /\ "crash" \in Faults
    /\ upl'  = [d \in Docs |-> IF upl[d] \in {"drafted", "writing", "stored"}
                               THEN "failed" ELSE upl[d]]
    /\ task' = [d \in Docs |-> IF task[d] \in TaskLive THEN "lost" ELSE task[d]]
    /\ del'  = [r \in Deletes |->
                  [del[r] EXCEPT !.pc = IF @ = "loaded" THEN "refused"
                                        ELSE IF @ = "purged" THEN "broken" ELSE @]]
    /\ UNCHANGED stores

UploadStep(d) == UploadOpen(d) \/ UploadSaved(d) \/ UploadDiskFails(d)
                 \/ UploadCommit(d) \/ UploadDbFails(d)
TaskStep(d) == TaskLoad(d) \/ TaskParse(d) \/ TaskIndex(d) \/ TaskIndexFails(d)
               \/ TaskMarkReady(d) \/ TaskMarkNoted(d) \/ TaskMarkError(d)
               \/ TaskRowGone(d) \/ TaskDbFails(d)
DeleteStep(r) == \/ \E d \in Docs : \/ DeletePurge(r, d)
                                      \/ DeleteChromaFails(r, d)
                                      \/ DeleteCommit(r, d)
                 \/ DeleteDbFails(r)

Next == \/ \E d \in Docs : UploadAccept(d) \/ UploadStep(d) \/ TaskStep(d)
        \/ \E r \in Deletes, u \in Users, d \in Docs : DeleteLoad(r, u, d)
        \/ \E r \in Deletes : DeleteStep(r)
        \/ Crash

\* The event loop resumes every task whose await has completed; nothing makes
\* a user upload or delete, or a store fail.
Fairness == /\ \A d \in Docs : WF_vars(UploadStep(d)) /\ WF_vars(TaskStep(d))
            /\ \A r \in Deletes : WF_vars(DeleteStep(r))

Spec == Init /\ [][Next]_vars /\ Fairness

------------------------------------------------------------------------------
\* Whether some DELETE request has got as far as unlinking the file of d.
Purged(d) == \E r \in Deletes : del[r].doc = d /\ del[r].pc \in {"purged", "broken", "done"}

\* Every variable keeps to its values.
TypeOK ==
    /\ row   \in [Docs -> Statuses \cup {"none"}]
    /\ count \in [Docs -> 0..MaxChunks]
    /\ noted \in [Docs -> BOOLEAN]
    /\ file  \in [Docs -> {"none", "partial", "whole"}]
    /\ index \in [Docs -> 0..MaxChunks]
    /\ text  \in [Docs -> 0..MaxChunks]
    /\ upl   \in [Docs -> {"idle", "drafted", "writing", "stored", "done", "failed"}]
    /\ task  \in [Docs -> TaskLive \cup {"none", "done", "lost"}]
    /\ del   \in [Deletes -> [pc   : {"idle", "loaded", "purged", "done", "refused", "broken"},
                              doc  : Docs \cup {NoDoc},
                              seen : Statuses \cup {NotSeen}]]

\* A listed document has its whole file in the upload directory unless a
\* delete has begun to remove it: upload_document commits the row only after
\* save_upload has returned, whatever fails in between.
RowHasFile == \A d \in Docs : row[d] # "none" /\ ~Purged(d) => file[d] = "whole"

\* A document listed READY with no error message is searchable, with exactly
\* the chunk_count the row shows, unless a delete has begun; one that is not
\* (fully) indexed carries the "indexing is unavailable" message.
ReadyIsIndexed ==
    \A d \in Docs : row[d] = "ready" /\ ~noted[d] /\ ~Purged(d)
                      => index[d] = count[d] /\ count[d] > 0

\* A document listed as ERROR contributes nothing to retrieval: the task never
\* stores chunks and then reports that processing failed.
ErrorNeverIndexed == \A d \in Docs : row[d] = "error" => index[d] = 0

\* A DELETE that has answered leaves no file behind, not even when the
\* upload's background task or another DELETE was under way.
DeletedHasNoFile == \A r \in Deletes : del[r].pc = "done" => file[del[r].doc] = "none"

\* Deleting a document that was listed READY or ERROR de-indexes it for good:
\* its task has no add_chunks left to run.
SettledDeleteDeindexes ==
    \A r \in Deletes : del[r].pc = "done" /\ del[r].seen # "processing"
                         => index[del[r].doc] = 0

\* The README's "Delete (and de-index)": once a DELETE has answered and the
\* background task is over, Chroma holds no chunk of the document.
DeleteDeindexes ==
    \A r \in Deletes : del[r].pc = "done" /\ task[del[r].doc] \notin TaskLive
                         => index[del[r].doc] = 0

\* A status only moves from PROCESSING to READY or ERROR, and from anything to
\* deleted: a late task neither re-creates a deleted row nor overwrites a
\* settled one.
StatusMovesForward ==
    [][\A d \in Docs : row'[d] # row[d] =>
         \/ row'[d] = "none"
         \/ row[d] = "none" /\ row'[d] = "processing" /\ ~Purged(d)
         \/ row[d] = "processing" /\ row'[d] \in {"ready", "error"}]_vars

\* A document listed as PROCESSING has a task that will settle it, unless the
\* process or the database has failed under the task.
ProcessingIsUnderWay ==
    \A d \in Docs : row[d] = "processing" =>
        \/ task[d] \in TaskLive
        \/ task[d] = "lost" /\ Faults \cap {"db", "crash"} # {}

\* A document does not stay PROCESSING: embedding, Chroma and disk failures
\* all end in READY or ERROR.  Only a task the process or the database has
\* failed under leaves it so: nothing takes up an interrupted task again.
ProcessingEnds ==
    \A d \in Docs : row[d] = "processing" ~> row[d] # "processing" \/ task[d] = "lost"

\* The place of d in the catalogue and whether it can be found there.
Shelf(d) ==
    IF Purged(d) THEN IF task[d] \in TaskLive THEN "doomed" ELSE "withdrawn"
    ELSE CASE row[d] = "processing" -> IF task[d] \in TaskLive THEN "processing"
                                       ELSE "abandoned"
           [] row[d] = "ready"      -> IF noted[d] THEN "unsure" ELSE "searchable"
           [] row[d] = "error"      -> "failed"
           [] OTHER                 -> "absent"

Shelves == [d \in Docs |-> Shelf(d)]
Listed  == [d \in Docs |-> row[d] # "none"]
Found   == [d \in Docs |-> index[d] # 0]

Catalogue == INSTANCE Catalogue WITH shelf <- Shelves, listed <- Listed, found <- Found

\* Seen from outside the three stores and the steps between them are one
\* catalogue: a document becomes findable only while it is processed, the
\* verdict on it agrees with what can be found and is given once, nothing
\* comes back once a delete has begun, and failures only interrupt.
ImplementsCatalogue == Catalogue!Spec
=============================================================================
