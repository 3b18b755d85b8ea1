------------------------------ MODULE Documents ------------------------------
(***************************************************************************)
(* How a document comes and goes: backend/app/api/documents.py (upload,    *)
(* presigned upload, cloning of duplicates, deletion), api/minio_events.py *)
(* and storage_service.py.  All documents here have the same bytes; one of *)
(* them, Original, is indexed at the start.  The ingestion pipeline is     *)
(* reduced to what it does to the row and to the vector store (Pipeline    *)
(* has its details).                                                       *)
(***************************************************************************)
EXTENDS Naturals

CONSTANTS
    Uploads,         \* documents the users upload, all to one workspace
    Original,        \* a document that is indexed already
    NoDocument,      \* reuse_source is None
    MaxUploadFaults  \* bound on calls that fail and processes that die

ASSUME DocumentsAssumption ==
    /\ Original \notin Uploads
    /\ NoDocument \notin Uploads \cup {Original}
    /\ MaxUploadFaults \in Nat

UploadedDocuments == Uploads \cup {Original}

VARIABLES
    reach,         \* where Original lives, seen from the uploads' workspace
    webhook,       \* MINIO_WEBHOOK_ENABLED
    rowStatus,     \* [documents -> status of the row, or none or gone]
    hashed,        \* documents whose row has a content_hash
    objects,       \* documents whose file is in the uploads bucket
    keyed,         \* documents whose row has an upload_s3_key
    chunks,        \* documents with chunks in the vector store
    handler,       \* [Uploads -> where the upload or confirm handler is]
    reuseSource,   \* [Uploads -> the document to clone]
    minioEvents,   \* documents with a PUT event to deliver
    parseTasks,    \* documents with a parse message
    worker,        \* [documents -> idle, parsing, embedded]
    deleting,      \* documents whose deletion has begun
    late,          \* documents that got chunks after their deletion began
    unannounced,   \* documents whose event was answered without a message
    uploadFaults

filesVars == <<hashed, objects, keyed>>
apiVars   == <<handler, reuseSource>>
queueVars == <<minioEvents, parseTasks, unannounced>>
documentsVars == <<reach, webhook, rowStatus, filesVars, chunks, apiVars,
                   queueVars, worker, deleting, late, uploadFaults>>

HandlerStates == {"idle", "store", "clone", "copied", "copiedNothing",
                  "publish", "url", "presigned", "confirm", "done", "dead"}

DocumentsTypeOK ==
    /\ reach \in {"same", "public", "shared", "none"}
    /\ webhook \in BOOLEAN
    /\ rowStatus \in [UploadedDocuments ->
          {"none", "pending", "parsing", "indexed", "failed", "gone"}]
    /\ {hashed, objects, keyed, chunks, minioEvents, parseTasks, deleting, late,
        unannounced} \subseteq SUBSET UploadedDocuments
    /\ handler \in [Uploads -> HandlerStates]
    /\ reuseSource \in [Uploads -> UploadedDocuments \cup {NoDocument}]
    /\ worker \in [UploadedDocuments -> {"idle", "parsing", "embedded"}]
    /\ uploadFaults \in 0..MaxUploadFaults

DocumentsInit ==
    /\ reach \in {"same", "public", "shared", "none"}
    /\ webhook \in BOOLEAN
    /\ rowStatus = [d \in UploadedDocuments |->
                       IF d = Original THEN "indexed" ELSE "none"]
    /\ hashed = {Original}
    /\ objects = {Original}
    /\ keyed = {Original}
    /\ chunks = {Original}
    /\ handler = [d \in Uploads |-> "idle"]
    /\ reuseSource = [d \in Uploads |-> NoDocument]
    /\ minioEvents = {}
    /\ parseTasks = {}
    /\ worker = [d \in UploadedDocuments |-> "idle"]
    /\ deleting = {}
    /\ late = {}
    /\ unannounced = {}
    /\ uploadFaults = 0

HasRow(d) == rowStatus[d] \notin {"none", "gone"}

UploadFault == uploadFaults < MaxUploadFaults /\ uploadFaults' = uploadFaults + 1

Continue(d, place) == handler' = [handler EXCEPT ![d] = place]

SetStatus(d, s) == rowStatus' = [rowStatus EXCEPT ![d] = s]

\* The file is deleted, or MinIO fails, which is only logged.
RemoveFile(d) ==
    \/ objects' = objects \ {d} /\ UNCHANGED uploadFaults
    \/ d \in objects /\ UploadFault /\ UNCHANGED objects

\* _find_duplicate_document: an indexed document with the same content in the
\* scope; all of the uploads share a workspace.
InScope(d) == {o \in UploadedDocuments \ {d} : o = Original => reach # "none"}
Duplicates(d) == {o \in InScope(d) : rowStatus[o] = "indexed" /\ o \in hashed}
SameWorkspace(o) == o # Original \/ reach = "same"

\* One in the same workspace is preferred.
BestDuplicates(d) ==
    IF \E o \in Duplicates(d) : SameWorkspace(o)
    THEN {o \in Duplicates(d) : SameWorkspace(o)}
    ELSE Duplicates(d)

\* A duplicate that ends the request: in the same workspace, or public.
Redundant(d) ==
    /\ Duplicates(d) # {}
    /\ reach = "public" \/ \E o \in Duplicates(d) : SameWorkspace(o)

\* What is left of a request that goes on: the document to clone, or none.
Reusable(d) == IF Duplicates(d) = {} THEN {NoDocument} ELSE BestDuplicates(d)

AfterStore(d, source) == IF source = NoDocument THEN "publish" ELSE "clone"

-----------------------------------------------------------------------------
(* upload_document.                                                        *)

UploadRedundant(d) ==
    /\ handler[d] = "idle"
    /\ Redundant(d)
    /\ Continue(d, "done")
    /\ UNCHANGED <<reach, webhook, rowStatus, filesVars, chunks, reuseSource,
                   queueVars, worker, deleting, late, uploadFaults>>

\* The row is committed with the hash.
UploadCreatesRow(d) ==
    /\ handler[d] = "idle"
    /\ ~Redundant(d)
    /\ \E o \in Reusable(d) : reuseSource' = [reuseSource EXCEPT ![d] = o]
    /\ SetStatus(d, "pending")
    /\ hashed' = hashed \cup {d}
    /\ Continue(d, "store")
    /\ UNCHANGED <<reach, webhook, objects, keyed, chunks, queueVars, worker,
                   deleting, late, uploadFaults>>

\* MinIO takes the file; with the webhook it has an event to deliver.  The key
\* is committed, unless the row is gone by now: an error in both cases.
UploadStoresFile(d) ==
    /\ handler[d] = "store"
    /\ objects' = objects \cup {d}
    /\ minioEvents' = IF webhook THEN minioEvents \cup {d} ELSE minioEvents
    /\ keyed' = IF HasRow(d) THEN keyed \cup {d} ELSE keyed
    /\ Continue(d, IF HasRow(d) THEN AfterStore(d, reuseSource[d]) ELSE "done")
    /\ UNCHANGED <<reach, webhook, rowStatus, hashed, chunks, reuseSource,
                   parseTasks, unannounced, worker, deleting, late,
                   uploadFaults>>

UploadStoreFails(d) ==
    /\ handler[d] = "store"
    /\ UploadFault
    /\ rowStatus' = [rowStatus EXCEPT ![d] = IF HasRow(d) THEN "failed" ELSE @]
    /\ Continue(d, "done")
    /\ UNCHANGED <<reach, webhook, filesVars, chunks, reuseSource, queueVars,
                   worker, deleting, late>>

-----------------------------------------------------------------------------
(* _clone_document_to_workspace and _copy_vector_chunks.                   *)

\* The chunks of the source are read and written under the new document.
CloneCopies(d) ==
    LET found == reuseSource[d] \in chunks IN
    /\ handler[d] = "clone"
    /\ chunks' = IF found THEN chunks \cup {d} ELSE chunks
    /\ late' = IF found /\ d \in deleting THEN late \cup {d} ELSE late
    /\ Continue(d, IF found THEN "copied" ELSE "copiedNothing")
    /\ UNCHANGED <<reach, webhook, rowStatus, filesVars, reuseSource,
                   queueVars, worker, deleting, uploadFaults>>

\* The new document is marked indexed, whatever was copied and whatever became
\* of its status; the update of a deleted row fails.
CloneMarksIndexed(d) ==
    /\ handler[d] \in {"copied", "copiedNothing"}
    /\ rowStatus' = [rowStatus EXCEPT ![d] = IF HasRow(d) THEN "indexed" ELSE @]
    /\ Continue(d, "done")
    /\ UNCHANGED <<reach, webhook, filesVars, chunks, reuseSource, queueVars,
                   worker, deleting, late, uploadFaults>>

\* Mutant: a failed clone ends the request.
CloneFailsForGood(d) ==
    /\ handler[d] = "clone"
    /\ UploadFault
    /\ Continue(d, "done")
    /\ UNCHANGED <<reach, webhook, rowStatus, filesVars, chunks, reuseSource,
                   queueVars, worker, deleting, late>>

\* The copy fails: back to a full parse.  (The row of the session is pending
\* still, so that resetting it writes nothing.)
CloneFails(d) ==
    /\ handler[d] = "clone"
    /\ UploadFault
    /\ Continue(d, "publish")
    /\ UNCHANGED <<reach, webhook, rowStatus, filesVars, chunks, reuseSource,
                   queueVars, worker, deleting, late>>

-----------------------------------------------------------------------------
(* publish_parse_task at the end of both flows.                            *)

\* Without the webhook the message is published here.
PublishesParse(d) ==
    /\ handler[d] = "publish"
    /\ parseTasks' = IF webhook THEN parseTasks ELSE parseTasks \cup {d}
    /\ Continue(d, "done")
    /\ UNCHANGED <<reach, webhook, rowStatus, filesVars, chunks, reuseSource,
                   minioEvents, unannounced, worker, deleting, late,
                   uploadFaults>>

\* Publishing fails: the document is failed; confirm_upload deletes the file.
PublishFails(d) ==
    /\ handler[d] = "publish"
    /\ ~webhook
    /\ UploadFault
    /\ rowStatus' = [rowStatus EXCEPT ![d] = IF HasRow(d) THEN "failed" ELSE @]
    /\ objects' \in {objects, objects \ {d}}
    /\ Continue(d, "done")
    /\ UNCHANGED <<reach, webhook, hashed, keyed, chunks, reuseSource,
                   queueVars, worker, deleting, late>>

-----------------------------------------------------------------------------
(* presign_upload and confirm_upload.                                      *)

PresignCreatesRow(d) ==
    /\ handler[d] = "idle"
    /\ SetStatus(d, "pending")
    /\ Continue(d, "url")
    /\ UNCHANGED <<reach, webhook, filesVars, chunks, reuseSource, queueVars,
                   worker, deleting, late, uploadFaults>>

PresignReturnsUrl(d) ==
    /\ handler[d] = "url"
    /\ Continue(d, "presigned")
    /\ UNCHANGED <<reach, webhook, rowStatus, filesVars, chunks, reuseSource,
                   queueVars, worker, deleting, late, uploadFaults>>

\* No URL: the row is removed again.
PresignFails(d) ==
    /\ handler[d] = "url"
    /\ UploadFault
    /\ SetStatus(d, "gone")
    /\ Continue(d, "done")
    /\ UNCHANGED <<reach, webhook, filesVars, chunks, reuseSource, queueVars,
                   worker, deleting, late>>

\* The browser puts the file to the URL.
ClientPutsFile(d) ==
    /\ handler[d] = "presigned"
    /\ d \notin objects
    /\ objects' = objects \cup {d}
    /\ minioEvents' = IF webhook THEN minioEvents \cup {d} ELSE minioEvents
    /\ UNCHANGED <<reach, webhook, rowStatus, hashed, keyed, chunks, apiVars,
                   parseTasks, unannounced, worker, deleting, late,
                   uploadFaults>>

\* confirm_upload reads the row: a pending one whose file has arrived.
ConfirmReadsRow(d) ==
    /\ handler[d] = "presigned"
    /\ rowStatus[d] = "pending"
    /\ d \in objects
    /\ Continue(d, "confirm")
    /\ UNCHANGED <<reach, webhook, rowStatus, filesVars, chunks, reuseSource,
                   queueVars, worker, deleting, late, uploadFaults>>

\* Not pending any more: "already queued".
ConfirmIdempotent(d) ==
    /\ handler[d] = "presigned"
    /\ d \in objects
    /\ rowStatus[d] # "pending"
    /\ Continue(d, "done")
    /\ UNCHANGED <<reach, webhook, rowStatus, filesVars, chunks, reuseSource,
                   queueVars, worker, deleting, late, uploadFaults>>

\* A duplicate ends the request: the file and the row are removed.
ConfirmDiscards(d) ==
    /\ handler[d] = "confirm"
    /\ Redundant(d)
    /\ RemoveFile(d)
    /\ SetStatus(d, "gone")
    /\ Continue(d, "done")
    /\ UNCHANGED <<reach, webhook, hashed, keyed, chunks, reuseSource, queueVars,
                   worker, deleting, late>>

\* The hash and the key are committed; a file that cannot be read back is not
\* compared with others.
ConfirmAccepts(d) ==
    /\ handler[d] = "confirm"
    /\ HasRow(d)
    /\ keyed' = keyed \cup {d}
    /\ \/ /\ ~Redundant(d)
          /\ hashed' = hashed \cup {d}
          /\ \E o \in Reusable(d) :
                /\ reuseSource' = [reuseSource EXCEPT ![d] = o]
                /\ Continue(d, AfterStore(d, o))
          /\ UNCHANGED uploadFaults
       \/ /\ UploadFault
          /\ Continue(d, "publish")
          /\ UNCHANGED <<hashed, reuseSource>>
    /\ UNCHANGED <<reach, webhook, rowStatus, objects, chunks, queueVars,
                   worker, deleting, late>>

\* The row was deleted in the meantime: the commit fails.
ConfirmFails(d) ==
    /\ handler[d] = "confirm"
    /\ ~HasRow(d)
    /\ Continue(d, "done")
    /\ UNCHANGED <<reach, webhook, rowStatus, filesVars, chunks, reuseSource,
                   queueVars, worker, deleting, late, uploadFaults>>

-----------------------------------------------------------------------------
(* handle_minio_event.                                                     *)

\* Only a pending document is queued; the event is answered in any case.
EventPublishes(d) ==
    /\ d \in minioEvents
    /\ minioEvents' = minioEvents \ {d}
    /\ parseTasks' = IF rowStatus[d] = "pending" THEN parseTasks \cup {d}
                                                 ELSE parseTasks
    /\ UNCHANGED <<reach, webhook, rowStatus, filesVars, chunks, apiVars,
                   unannounced, worker, deleting, late, uploadFaults>>

\* Publishing fails, and MinIO is told that all is well.
EventPublishFails(d) ==
    /\ d \in minioEvents
    /\ UploadFault
    /\ minioEvents' = minioEvents \ {d}
    /\ unannounced' = unannounced \cup {d}
    /\ UNCHANGED <<reach, webhook, rowStatus, filesVars, chunks, apiVars,
                   parseTasks, worker, deleting, late>>

-----------------------------------------------------------------------------
(* The pipeline, as the row and the vector store see it.                   *)

\* parse_worker: a document that is gone is skipped.
WorkerParses(d) ==
    /\ d \in parseTasks
    /\ worker[d] = "idle"
    /\ parseTasks' = parseTasks \ {d}
    /\ IF HasRow(d)
         THEN SetStatus(d, "parsing") /\ worker' = [worker EXCEPT ![d] = "parsing"]
         ELSE UNCHANGED <<rowStatus, worker>>
    /\ UNCHANGED <<reach, webhook, filesVars, chunks, apiVars, minioEvents,
                   unannounced, deleting, late, uploadFaults>>

\* embed_worker writes the chunks.
WorkerEmbeds(d) ==
    /\ worker[d] = "parsing"
    /\ chunks' = chunks \cup {d}
    /\ late' = IF d \in deleting THEN late \cup {d} ELSE late
    /\ worker' = [worker EXCEPT ![d] = "embedded"]
    /\ UNCHANGED <<reach, webhook, rowStatus, filesVars, apiVars, queueVars,
                   deleting, uploadFaults>>

\* The last worker marks the document; the update of a deleted row fails.
WorkerFinishes(d) ==
    /\ worker[d] = "embedded"
    /\ rowStatus' = [rowStatus EXCEPT ![d] = IF HasRow(d) THEN "indexed" ELSE @]
    /\ worker' = [worker EXCEPT ![d] = "idle"]
    /\ UNCHANGED <<reach, webhook, filesVars, chunks, apiVars, queueVars,
                   deleting, late, uploadFaults>>

WorkerFails(d) ==
    /\ worker[d] # "idle"
    /\ UploadFault
    /\ rowStatus' = [rowStatus EXCEPT ![d] = IF HasRow(d) THEN "failed" ELSE @]
    /\ worker' = [worker EXCEPT ![d] = "idle"]
    /\ UNCHANGED <<reach, webhook, filesVars, chunks, apiVars, queueVars,
                   deleting, late>>

-----------------------------------------------------------------------------
(* delete_document.                                                        *)

CleanChunks(d) == chunks' = chunks \ {d}

\* The chunks are deleted, whatever the status.
DeleteCleansUp(d) ==
    /\ HasRow(d)
    /\ d \notin deleting
    /\ deleting' = deleting \cup {d}
    /\ CleanChunks(d)
    /\ UNCHANGED <<reach, webhook, rowStatus, filesVars, apiVars, queueVars,
                   worker, late, uploadFaults>>

\* The vector store fails: only a warning.
DeleteCleanUpFails(d) ==
    /\ HasRow(d)
    /\ d \notin deleting
    /\ UploadFault
    /\ deleting' = deleting \cup {d}
    /\ late' = late \cup {d}
    /\ UNCHANGED <<reach, webhook, rowStatus, filesVars, chunks, apiVars,
                   queueVars, worker>>

\* The file, if its key is known and MinIO answers, and the row.
DeleteRemovesRow(d) ==
    /\ d \in deleting
    /\ HasRow(d)
    /\ IF d \in keyed THEN RemoveFile(d) ELSE UNCHANGED <<objects, uploadFaults>>
    /\ SetStatus(d, "gone")
    /\ UNCHANGED <<reach, webhook, hashed, keyed, chunks, apiVars, queueVars, worker,
                   deleting, late>>

\* The process that handles a request dies.
UploadHandlerDies(d) ==
    /\ handler[d] \notin {"idle", "presigned", "done", "dead"}
    /\ UploadFault
    /\ Continue(d, "dead")
    /\ UNCHANGED <<reach, webhook, rowStatus, filesVars, chunks, reuseSource,
                   queueVars, worker, deleting, late>>

-----------------------------------------------------------------------------
DocumentsNext ==
    \/ \E d \in Uploads :
          \/ UploadRedundant(d)
          \/ UploadCreatesRow(d)
          \/ UploadStoresFile(d)
          \/ UploadStoreFails(d)
          \/ CloneCopies(d)
          \/ CloneMarksIndexed(d)
          \/ CloneFails(d)
          \/ PublishesParse(d)
          \/ PublishFails(d)
          \/ PresignCreatesRow(d)
          \/ PresignReturnsUrl(d)
          \/ PresignFails(d)
          \/ ClientPutsFile(d)
          \/ ConfirmReadsRow(d)
          \/ ConfirmIdempotent(d)
          \/ ConfirmDiscards(d)
          \/ ConfirmAccepts(d)
          \/ ConfirmFails(d)
          \/ EventPublishes(d)
          \/ EventPublishFails(d)
          \/ UploadHandlerDies(d)
    \/ \E d \in UploadedDocuments :
          \/ WorkerParses(d)
          \/ WorkerEmbeds(d)
          \/ WorkerFinishes(d)
          \/ WorkerFails(d)
          \/ DeleteCleansUp(d)
          \/ DeleteCleanUpFails(d)
          \/ DeleteRemovesRow(d)

DocumentsSpec == DocumentsInit /\ [][DocumentsNext]_documentsVars

-----------------------------------------------------------------------------
(* Properties.                                                             *)

\* An upload whose request was answered is not forgotten: while its row is
\* pending there is a parse message, a worker that has it or a PUT event.  Two
\* exceptions: the process died, or the webhook swallowed a failed publish.
NoUploadForgotten ==
    \A d \in Uploads :
        (handler[d] = "done" /\ rowStatus[d] = "pending")
            => d \in parseTasks \cup minioEvents \cup unannounced

\* A document that is indexed and is not being deleted has its chunks in the
\* vector store, whether they were embedded or cloned, unless its source was
\* deleted while it was being cloned; and its file is kept "so the new doc is
\* self-contained" (documents.py:455), unless a PUT event outran confirm_upload.
IndexedIsSelfContained ==
    \A d \in UploadedDocuments :
        (rowStatus[d] = "indexed" /\ d \notin deleting)
            => /\ \/ d \in chunks
                  \/ d \in Uploads /\ reuseSource[d] \in deleting
               /\ webhook \/ d \in objects \cap keyed

\* "Always clean up vector store + KG, regardless of status"
\* (documents.py:1174): a deleted document leaves no chunks behind, unless the
\* vector store failed or a worker or a clone wrote them after the clean-up.
DeletionRemovesChunks ==
    \A d \in UploadedDocuments :
        (rowStatus[d] = "gone" /\ d \notin late /\ d \in deleting) => d \notin chunks

\* A document is accounted for from its upload to its deletion.
DocumentsAccountedFor ==
    /\ NoUploadForgotten
    /\ IndexedIsSelfContained
    /\ DeletionRemovesChunks
=============================================================================
