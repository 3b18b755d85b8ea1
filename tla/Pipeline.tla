------------------------------ MODULE Pipeline ------------------------------
(***************************************************************************)
(* One document on its way through the ingestion pipeline:                 *)
(* backend/app/workers/{parse,embed,caption,kg}_worker.py and utils.py,    *)
(* with the requests of backend/app/api/{workers,rag,minio_events}.py that *)
(* act on it meanwhile.  Every commit of a handler, every write to the     *)
(* vector store and every publish is a step of its own.                    *)
(*                                                                         *)
(* A job is a message of one stage together with the progress of the       *)
(* handler that works on it, or a request the API is serving.  Two jobs    *)
(* may be equal, so the jobs are a bag.  Delivery models the queue itself; *)
(* here a job is redelivered, retried or lost as Delivery shows it can be. *)
(***************************************************************************)
EXTENDS Naturals, FiniteSets, Bags

CONSTANTS
    MaxRetries,    \* MAX_RETRIES, queue/connection.py:65
    Events,        \* the faults and requests that may occur
    MaxEvents,     \* bound on how many of them occur, each of them once
    Files          \* the kinds of files that may be uploaded

\* A handler's process dies; a handler times out; a message is lost (dead-letter
\* on pause, retry publish failed); publishing to the next stage fails; a second
\* ParseMessage is published for a document still pending.
Faults == {"crash", "timeout", "lost", "dispatch", "duplicate"}

\* An administrator or a user has the document processed again, with the vectors
\* it has or with all of them deleted first, or cancels it.
Requests == {"reprocess", "reindex", "cancel"}

\* A chat attachment is only parsed and embedded; figures and tables of any
\* other document are captioned.
FileKinds == [chat: BOOLEAN, figures: BOOLEAN]

ASSUME PipelineAssumption ==
    /\ MaxRetries \in Nat
    /\ MaxEvents \in Nat
    /\ Events \subseteq Faults \cup Requests
    /\ Files \subseteq FileKinds

VARIABLES
    file,       \* what was uploaded
    doc,        \* the documents row
    vectors,    \* per chunk of the document, what the vector store holds
    jobs,       \* bag of jobs
    happened    \* the events that have occurred

vars == <<file, doc, vectors, jobs, happened>>

Statuses   == {"pending", "parsing", "chunking", "embedding", "building_kg",
               "indexed", "failed"}
InProgress == {"parsing", "chunking", "embedding", "building_kg"}

\* raw: raw_chunks_json is not null.
Documents == [status: Statuses, embed: BOOLEAN, captions: BOOLEAN, kg: BOOLEAN,
              raw: BOOLEAN]

NewDocument == [status |-> "pending", embed |-> FALSE, captions |-> FALSE,
                kg |-> FALSE, raw |-> FALSE]

\* A chunk of plain text and one with a figure stand for all of theirs.  An
\* untagged vector has no metadata: no filter by document finds it.
Chunks == {"text", "figure"}
VectorStates == {"none", "plain", "captioned", "untagged"}

Stages == {"parse", "embed", "caption", "kg", "api"}

\* Progress of a handler.  A message waits in "queue"; "settle" is the consume
\* loop after a failure; "rollback" is its clean-up after a timeout.
ToDispatch == {"to_embed", "to_caption", "to_kg"}

Handling(stage) ==
    CASE stage = "parse"   -> {"parsing"} \cup ToDispatch
      [] stage = "embed"   -> {"embedding", "embedded", "empty", "finalize"}
      [] stage = "caption" -> {"captioning", "enriching", "captioned", "finalize"}
      [] stage = "kg"      -> {"building", "finalize"}
      [] stage = "api"     -> {"load", "reset", "publish", "clean"}

Progress(stage) == {"queue", "ack", "settle", "rollback"} \cup Handling(stage)

\* saw: the row as the job's session has read it, where a later step uses it.
Job == {j \in [stage: Stages, pc: UNION {Progress(s) : s \in Stages},
               rc: 0..MaxRetries, saw: Documents] : j.pc \in Progress(j.stage)}

Message(stage) ==
    [stage |-> stage, pc |-> "queue", rc |-> 0, saw |-> NewDocument]

Request(pc, seen) == [stage |-> "api", pc |-> pc, rc |-> 0, saw |-> seen]

Pending == BagToSet(jobs)

One(j) == SetToBag({j})
With(bag, j) == bag (+) One(j)
Without(j) == jobs (-) One(j)

Become(j, k) == With(Without(j), k)
Advance(j, pc) == Become(j, [j EXCEPT !.pc = pc])

\* The job goes on with the row as it has now been read.
WithRow(j, pc, seen) == [stage |-> j.stage, pc |-> pc, rc |-> j.rc, saw |-> seen]

At(j, stage, pc) == j.stage = stage /\ j.pc = pc

Occurs(e) ==
    /\ e \in Events \ happened
    /\ Cardinality(happened) < MaxEvents
    /\ happened' = happened \cup {e}

-----------------------------------------------------------------------------
\* A document row exists and its ParseMessage is in the queue.
Init ==
    /\ file \in Files
    /\ doc = NewDocument
    /\ vectors = [c \in Chunks |-> "none"]
    /\ jobs = One(Message("parse"))
    /\ happened = {}

-----------------------------------------------------------------------------
(* handle_parse.                                                           *)

ParseStart(j) ==
    /\ At(j, "parse", "queue")
    /\ doc' = [doc EXCEPT !.status = "parsing"]
    /\ jobs' = Become(j, WithRow(j, "parsing", [NewDocument EXCEPT !.raw = doc.raw]))
    /\ UNCHANGED <<file, vectors, happened>>

\* The chunks go to the row, and the status with them; the ORM leaves the chunks
\* out if they are those the session has read.
ParseStore(j) ==
    /\ At(j, "parse", "parsing")
    /\ \E raw \in {TRUE} \cup (IF j.saw.raw THEN {doc.raw} ELSE {}) :
          doc' = [doc EXCEPT !.status = "chunking", !.raw = raw]
    /\ jobs' = Become(j, WithRow(j, "to_embed", NewDocument))
    /\ UNCHANGED <<file, vectors, happened>>

\* handle_parse publishes to the other stages in this order; a chat attachment
\* only needs its embedding.
Target(pc) ==
    CASE pc = "to_embed" -> "embed" [] pc = "to_caption" -> "caption" [] pc = "to_kg" -> "kg"

AfterDispatch(pc) ==
    CASE pc = "to_embed"   -> IF file.chat THEN "ack" ELSE "to_caption"
      [] pc = "to_caption" -> "to_kg"
      [] pc = "to_kg"      -> "ack"

ParseDispatch(j) ==
    /\ j.stage = "parse" /\ j.pc \in ToDispatch
    /\ jobs' = With(Advance(j, AfterDispatch(j.pc)), Message(Target(j.pc)))
    /\ UNCHANGED <<file, doc, vectors, happened>>

\* Any exception: FAILED, and raise to the consume loop.
Fail(j) ==
    /\ doc' = [doc EXCEPT !.status = "failed"]
    /\ jobs' = Advance(j, "settle")
    /\ UNCHANGED <<file, vectors>>

ParseFails(j) ==
    /\ At(j, "parse", "parsing")
    /\ Fail(j)
    /\ UNCHANGED happened

DispatchFails(j) ==
    /\ j.stage = "parse" /\ j.pc \in ToDispatch
    /\ Occurs("dispatch")
    /\ Fail(j)

-----------------------------------------------------------------------------
(* handle_embed.                                                           *)

\* Under FOR UPDATE: skip if embed_done, else EMBEDDING.  The chunks are those
\* of this read.
EmbedTake(j) ==
    /\ At(j, "embed", "queue")
    /\ IF doc.embed
       THEN /\ jobs' = Advance(j, "ack")
            /\ UNCHANGED doc
       ELSE /\ jobs' = Advance(j, IF doc.raw THEN "embedding" ELSE "empty")
            /\ doc' = [doc EXCEPT !.status = "embedding"]
    /\ UNCHANGED <<file, vectors, happened>>

\* collection.add leaves the ids it already has as they are.
EmbedVectors(j) ==
    /\ At(j, "embed", "embedding")
    /\ vectors' = [c \in Chunks |-> IF vectors[c] = "none" THEN "plain" ELSE vectors[c]]
    /\ jobs' = Advance(j, "embedded")
    /\ UNCHANGED <<file, doc, happened>>

\* Mutant: handle_embed leaves finalizing to the others.
EmbedDoneOnly(j) ==
    /\ j.stage = "embed" /\ j.pc \in {"embedded", "empty"}
    /\ doc' = [doc EXCEPT !.embed = TRUE,
                          !.raw = IF j.pc = "empty" THEN @ ELSE ~file.chat]
    /\ jobs' = Advance(j, "ack")
    /\ UNCHANGED <<file, vectors, happened>>

\* embed_done; the chunks are written back for the caption worker, with none
\* for a chat attachment or if there were none.
EmbedDone(j) ==
    /\ j.stage = "embed" /\ j.pc \in {"embedded", "empty"}
    /\ doc' = [doc EXCEPT !.embed = TRUE,
                          !.raw = IF j.pc = "empty" THEN @ ELSE ~file.chat]
    /\ jobs' = Advance(j, "finalize")
    /\ UNCHANGED <<file, vectors, happened>>

EmbedFails(j) ==
    /\ j.stage = "embed" /\ j.pc \in {"embedding", "embedded"}
    /\ Fail(j)
    /\ UNCHANGED happened

-----------------------------------------------------------------------------
(* handle_caption.                                                         *)

CaptionTake(j) ==
    /\ At(j, "caption", "queue")
    /\ jobs' = Advance(j, IF doc.captions THEN "ack"
                          ELSE IF file.figures THEN "captioning" ELSE "captioned")
    /\ UNCHANGED <<file, doc, vectors, happened>>

\* Mutant: it does not wait for embed_done.
CaptionPollEager(j) ==
    /\ At(j, "caption", "captioning")
    /\ jobs' = Advance(j, IF doc.status # "failed" /\ doc.raw
                          THEN "enriching" ELSE "captioned")
    /\ UNCHANGED <<file, doc, vectors, happened>>

\* _reenrich_embeddings polls the row until embed_done and takes its chunks.
CaptionPoll(j) ==
    /\ At(j, "caption", "captioning")
    /\ doc.status = "failed" \/ doc.embed
    /\ jobs' = Advance(j, IF doc.status # "failed" /\ doc.raw
                          THEN "enriching" ELSE "captioned")
    /\ UNCHANGED <<file, doc, vectors, happened>>

\* It gives up after 18 polls, and a failure of captioning is not fatal.
CaptionGivesUp(j) ==
    /\ j.stage = "caption" /\ j.pc \in {"captioning", "enriching"}
    /\ jobs' = Advance(j, "captioned")
    /\ UNCHANGED <<file, doc, vectors, happened>>

\* update_documents is an upsert without metadata.
CaptionVectors(j) ==
    /\ At(j, "caption", "enriching")
    /\ vectors' = [vectors EXCEPT !["figure"] =
                      IF @ \in {"none", "untagged"} THEN "untagged" ELSE "captioned"]
    /\ jobs' = Advance(j, "captioned")
    /\ UNCHANGED <<file, doc, happened>>

CaptionDone(j) ==
    /\ At(j, "caption", "captioned")
    /\ doc' = [doc EXCEPT !.captions = TRUE]
    /\ jobs' = Advance(j, "finalize")
    /\ UNCHANGED <<file, vectors, happened>>

-----------------------------------------------------------------------------
(* handle_kg.                                                              *)

KgTake(j) ==
    /\ At(j, "kg", "queue")
    /\ jobs' = Advance(j, IF doc.kg THEN "ack" ELSE "building")
    /\ UNCHANGED <<file, doc, vectors, happened>>

\* Whether the ingest succeeds, fails or has nothing to do.
KgDone(j) ==
    /\ At(j, "kg", "building")
    /\ doc' = [doc EXCEPT !.kg = TRUE]
    /\ jobs' = Advance(j, "finalize")
    /\ UNCHANGED <<file, vectors, happened>>

-----------------------------------------------------------------------------
\* check_and_finalize, in a session of its own under FOR UPDATE.
AllDone(d) == d.embed /\ (file.chat \/ (d.captions /\ d.kg))

\* Mutants: one of the three conditions is left out.
FinalizedWithoutKg(d) ==
    IF d.status = "failed" \/ ~d.embed \/ ~(file.chat \/ d.captions) THEN d
    ELSE [d EXCEPT !.raw = FALSE, !.status = "indexed"]

FinalizedWithoutEmbed(d) ==
    IF d.status = "failed" \/ ~(file.chat \/ d.captions) THEN d
    ELSE [d EXCEPT !.raw = FALSE,
                   !.status = IF AllDone(d) THEN "indexed" ELSE "building_kg"]

FinalizedWithoutCaptions(d) ==
    IF d.status = "failed" \/ ~d.embed THEN d
    ELSE [d EXCEPT !.raw = FALSE,
                   !.status = IF AllDone(d) THEN "indexed" ELSE "building_kg"]

Finalized(d) ==
    IF d.status = "failed" \/ ~d.embed \/ ~(file.chat \/ d.captions) THEN d
    ELSE [d EXCEPT !.raw = FALSE,
                   !.status = IF AllDone(d) THEN "indexed"
                              ELSE IF @ = "indexed" THEN @ ELSE "building_kg"]

Finalize(j) ==
    /\ j.pc = "finalize"
    /\ doc' = Finalized(doc)
    /\ jobs' = Advance(j, "ack")
    /\ UNCHANGED <<file, vectors, happened>>

-----------------------------------------------------------------------------
(* The consume loop around the handlers.                                   *)

\* Mutant: the handled message goes back to its queue.
AckRequeues(j) ==
    /\ j.pc = "ack"
    /\ jobs' = Become(j, Message(j.stage))
    /\ UNCHANGED <<file, doc, vectors, happened>>

Ack(j) ==
    /\ j.pc = "ack"
    /\ jobs' = Without(j)
    /\ UNCHANGED <<file, doc, vectors, happened>>

\* A failed or timed-out message is retried, or leaves the pipeline: to the
\* dead-letter queue after an exception, for good after a timeout.
Settle(j) ==
    /\ j.pc = "settle"
    /\ jobs' = IF j.rc < MaxRetries
               THEN Become(j, [Message(j.stage) EXCEPT !.rc = j.rc + 1])
               ELSE Without(j)
    /\ UNCHANGED <<file, doc, vectors, happened>>

\* asyncio.timeout cancels the handler where it is; a parse or kg message then
\* has its document rolled back, in a session that first reads the row.  What the
\* roll-back finalizes itself is under no timeout.
Timeout(j) ==
    /\ j.stage # "api" /\ j.pc \in Handling(j.stage)
    /\ j.pc = "finalize" => j.saw = NewDocument
    /\ Occurs("timeout")
    /\ jobs' = IF j.stage \in {"parse", "kg"}
               THEN Become(j, WithRow(j, "rollback", doc))
               ELSE Advance(j, "settle")
    /\ UNCHANGED <<file, doc, vectors>>

\* An ORM session writes the columns that differ from what it has read.
Commit(seen, new) ==
    [col \in DOMAIN doc |-> IF new[col] # seen[col] THEN new[col] ELSE doc[col]]

RolledBack(j) ==
    CASE j.saw.status \in {"pending", "indexed", "failed"} -> j.saw
      [] j.stage = "parse" /\ j.saw.status \in InProgress ->
            [j.saw EXCEPT !.status = IF j.rc < MaxRetries THEN "pending" ELSE "failed"]
      [] j.stage = "kg" /\ j.saw.status \in InProgress ->
            IF j.rc < MaxRetries
            THEN [j.saw EXCEPT !.kg = FALSE, !.status = "building_kg"]
            ELSE [j.saw EXCEPT !.kg = TRUE]

\* With its retries exhausted, a kg message finalizes its document here.
Rollback(j) ==
    /\ j.stage \in {"parse", "kg"} /\ j.pc = "rollback"
    /\ doc' = Commit(j.saw, RolledBack(j))
    /\ jobs' = Advance(j, IF /\ j.stage = "kg" /\ j.rc = MaxRetries
                             /\ j.saw.status \in InProgress
                          THEN "finalize" ELSE "settle")
    /\ UNCHANGED <<file, vectors, happened>>

\* The process dies: the broker redelivers what it had not acked, and a request
\* the API had half served is forgotten.
Crash(j) ==
    /\ j.pc # "queue"
    /\ Occurs("crash")
    /\ jobs' = IF j.stage = "api" THEN Without(j)
               ELSE Become(j, [Message(j.stage) EXCEPT !.rc = j.rc])
    /\ UNCHANGED <<file, doc, vectors>>

\* A message leaves its queue unhandled: the consume loop is cancelled, or the
\* retry cannot be published.
Lose(j) ==
    /\ j.stage # "api" /\ j.pc \in {"settle", "rollback"} \cup Handling(j.stage)
    /\ Occurs("lost")
    /\ jobs' = Without(j)
    /\ UNCHANGED <<file, doc, vectors>>

-----------------------------------------------------------------------------
(* The API.                                                                *)

\* The webhook for a MinIO event, or a repeated confirm_upload: both publish
\* while the document is PENDING.
Duplicate ==
    /\ Occurs("duplicate")
    /\ doc.status = "pending"
    /\ jobs' = With(jobs, Message("parse"))
    /\ UNCHANGED <<file, doc, vectors>>

\* Which statuses the requests accept.
RetryFailed  == doc.status = "failed"
RetryStuck   == doc.status \in InProgress
ProcessOne   ==
    \/ doc.status \in {"pending", "failed"}
    \/ doc.status \in InProgress \ {"parsing"} /\ ~doc.embed
NotInProgress == doc.status \notin InProgress
Cancellable   == doc.status \in InProgress \cup {"pending"}

\* Mutant: the chunks of the last run are freed.
ResetChunks(d) == [d EXCEPT !.status = "pending", !.embed = FALSE, !.captions = FALSE,
                            !.kg = FALSE, !.raw = FALSE]

Reset(d) == [d EXCEPT !.status = "pending", !.embed = FALSE, !.captions = FALSE,
                      !.kg = FALSE]

\* retry_single_failed, retry_all_failed, retry_stuck_documents,
\* process_document, process_batch: read the row, reset it, then publish.  Most
\* of them first read the rows of many documents.
Reprocess ==
    /\ RetryFailed \/ RetryStuck \/ ProcessOne \/ NotInProgress
    /\ Occurs("reprocess")
    /\ jobs' = With(jobs, Request("reset", doc))
    /\ UNCHANGED <<file, doc, vectors>>

\* delete_by_document_id finds vectors by their metadata.
Deleted == [c \in Chunks |-> IF vectors[c] = "untagged" THEN "untagged" ELSE "none"]

\* reindex_document: the vectors go first; then, with what it read, the row.
Reindex ==
    /\ NotInProgress
    /\ Occurs("reindex")
    /\ vectors' = Deleted
    /\ jobs' = With(jobs, Request("reset", doc))
    /\ UNCHANGED <<file, doc>>

\* reindex_workspace: the collection goes; a background task reads the row
\* again, whatever its status is by then.
ReindexWorkspace ==
    /\ NotInProgress
    /\ Occurs("reindex")
    /\ vectors' = [c \in Chunks |-> "none"]
    /\ jobs' = With(jobs, Request("load", NewDocument))
    /\ UNCHANGED <<file, doc>>

Load(j) ==
    /\ At(j, "api", "load")
    /\ vectors' = Deleted
    /\ jobs' = Become(j, Request("reset", doc))
    /\ UNCHANGED <<file, doc, happened>>

ResetRow(j) ==
    /\ At(j, "api", "reset")
    /\ doc' = Commit(j.saw, Reset(j.saw))
    /\ jobs' = Become(j, Request("publish", NewDocument))
    /\ UNCHANGED <<file, vectors, happened>>

PublishParse(j) ==
    /\ At(j, "api", "publish")
    /\ jobs' = Become(j, Message("parse"))
    /\ UNCHANGED <<file, doc, vectors, happened>>

\* cancel_pipeline_document: FAILED, then the clean-up.
Cancel ==
    /\ Cancellable
    /\ Occurs("cancel")
    /\ doc' = [Reset(doc) EXCEPT !.status = "failed"]
    /\ jobs' = With(jobs, Request("clean", NewDocument))
    /\ UNCHANGED <<file, vectors>>

CleanUp(j) ==
    /\ At(j, "api", "clean")
    /\ vectors' = Deleted
    /\ jobs' = Without(j)
    /\ UNCHANGED <<file, doc, happened>>
-----------------------------------------------------------------------------
\* What a worker does with a message of its stage without any fault.
ParseStep(j) ==
    ParseStart(j) \/ ParseStore(j) \/ ParseDispatch(j) \/ ParseFails(j)

EmbedStep(j) == EmbedTake(j) \/ EmbedVectors(j) \/ EmbedDone(j) \/ EmbedFails(j)

CaptionStep(j) ==
    \/ CaptionTake(j) \/ CaptionPoll(j) \/ CaptionGivesUp(j)
    \/ CaptionVectors(j) \/ CaptionDone(j)

KgStep(j) == KgTake(j) \/ KgDone(j)

ApiStep(j) == Load(j) \/ ResetRow(j) \/ PublishParse(j) \/ CleanUp(j)

Step(j) ==
    \/ ParseStep(j) \/ EmbedStep(j) \/ CaptionStep(j) \/ KgStep(j) \/ ApiStep(j)
    \/ Finalize(j) \/ Ack(j) \/ Settle(j) \/ Rollback(j)

Fault(j) == DispatchFails(j) \/ Timeout(j) \/ Crash(j) \/ Lose(j)

ApiRequest == Reprocess \/ Reindex \/ ReindexWorkspace \/ Cancel

Next ==
    \/ \E j \in Pending : Step(j) \/ Fault(j)
    \/ Duplicate
    \/ ApiRequest

Spec == Init /\ [][Next]_vars

\* Each stage has workers of its own, and the API serves what it has accepted.
Fairness ==
    \A stage \in Stages : WF_vars(\E j \in Pending : j.stage = stage /\ Step(j))

FairSpec == Spec /\ Fairness
-----------------------------------------------------------------------------
\* Rows, vectors and jobs are of their types: in particular a job is only ever at
\* a point its own handler reaches, and never retried beyond MAX_RETRIES.
TypeOK ==
    /\ file \in Files
    /\ doc \in Documents
    /\ vectors \in [Chunks -> VectorStates]
    /\ IsABag(jobs) /\ Pending \subseteq Job
    /\ happened \subseteq Events

\* happened tells how bad a behaviour has been so far.
Spared(events) == happened \cap events = {}

RequestedOnce == \A e, f \in happened \cap Requests : e = f

\* utils.py:22-28: a document is INDEXED once embed_done, captions_done and
\* kg_done are all set (embed_done alone for a chat attachment), in whatever order
\* the three workers commit and finalize, crash and take a message twice, and
\* while a user or an administrator intervenes.  The roll-back after a timeout,
\* which reads the row and writes it later, can unset kg_done behind an INDEXED
\* status; so can the second of two requests, if it reads a PENDING document
\* whose flags the workers of an earlier run have set.
IndexedIsComplete ==
    Spared({"timeout"}) /\ RequestedOnce /\ doc.status = "indexed" => AllDone(doc)

\* An INDEXED document can be searched: all its chunks are in the vector store,
\* under its id.  The worker that found it complete may have seen embed_done set
\* by a message of an earlier run; only requests that delete vectors break this.
Searchable == \A c \in Chunks : vectors[c] \in {"plain", "captioned"}

IndexedIsSearchable ==
    Spared({"reindex", "cancel"}) /\ doc.status = "indexed" => Searchable

\* utils.py:72-74: no worker needs the raw chunks once they are freed.  While
\* the embedding of this run is due, they are there, whatever is redelivered,
\* retried or published twice; otherwise handle_embed would set embed_done for
\* a document without vectors.
ChunksKeptForEmbed ==
    Spared(Requests) =>
        \A j \in Pending : At(j, "embed", "queue") => doc.raw \/ doc.embed

\* caption_worker.py:304-305: "Waiting for embed_done also guarantees the vectors
\* we update actually exist".  The upsert of the caption worker never inserts a
\* vector without metadata, which no delete would find.
UpdatesExistingVectors ==
    Spared({"reindex", "cancel"}) => "untagged" \notin {vectors[c] : c \in Chunks}

\* utils.py:24: BUILDING_KG means that embedding and captioning are done.
BuildingKgIsLast ==
    Spared({"timeout"}) /\ RequestedOnce /\ doc.status = "building_kg"
        => doc.embed /\ doc.captions

\* Both: a status never claims more than the flags.
StatusMeansDone == IndexedIsComplete /\ BuildingKgIsLast

\* Why these and UpdatesExistingVectors hold.  A document is PENDING with a flag
\* set only after a request has made it PENDING again.  So the first request finds
\* a PENDING document as it was uploaded, with nothing to reset, and any other
\* document it makes PENDING.
Flagged(d) == d.embed \/ d.captions \/ d.kg

ResetsAreWhole ==
    Spared({"timeout"}) /\ RequestedOnce =>
        /\ /\ doc.status = "pending"
           /\ Spared(Requests) \/ \E j \in Pending : j.pc \in {"load", "reset"}
           => /\ ~Flagged(doc)
              /\ \A j \in Pending : At(j, "parse", "queue") \/ j.stage = "api"
        /\ \A j \in Pending :
              /\ j.pc # "rollback"
              /\ j.pc = "reset" /\ j.saw.status = "pending" => ~Flagged(j.saw)

\* As long as requests do not repeat, one of them at most is being served.
OneRequest ==
    RequestedOnce =>
        \A j \in Pending : j.stage = "api" =>
            /\ ~Spared(Requests)
            /\ jobs[j] = 1
            /\ \A k \in Pending : k.stage = "api" => k = j

\* A job that embeds, is about to have the document embedded, or may leave the
\* chunks of an earlier run in the row.
RestsOnChunks(j) ==
    \/ j.stage = "embed" \/ j.pc \in ToDispatch
    \/ At(j, "parse", "parsing") /\ j.saw.raw

\* Why IndexedIsSearchable and UpdatesExistingVectors hold.  The vectors are there
\* from the moment an embedding has stored them, and raw chunks are only missing
\* where they are.
VectorsKept ==
    Spared({"reindex", "cancel"}) =>
        /\ doc.embed \/ doc.status = "indexed" => Searchable
        /\ \A j \in Pending :
              /\ j.pc \notin {"load", "clean"}
              /\ j.pc \in {"embedded", "empty", "enriching"} => Searchable
              /\ RestsOnChunks(j) => doc.raw \/ Searchable

\* Why ChunksKeptForEmbed holds.  The chunks are there from the moment the
\* document is parsed until it is embedded.
ChunksKept ==
    Spared(Requests) =>
        \A j \in Pending :
            /\ j.stage # "api"
            /\ RestsOnChunks(j) => doc.raw \/ doc.embed

\* Once INDEXED a document stays INDEXED: the messages still in flight find
\* their work done.  That holds if every ParseMessage is handled once and
\* nobody asks for more; losing messages or cancelling does no harm.
IndexedForGood ==
    [][doc.status = "indexed" /\ doc'.status # "indexed"
          => happened' \cap {"crash", "timeout", "dispatch", "duplicate",
                             "reprocess", "reindex"} # {}]_vars

\* What a client waits for: INDEXED or FAILED once no worker has anything left
\* to do.  "stranded" is no outcome of the abstract specification.
Outcome ==
    IF jobs # EmptyBag THEN "working"
    ELSE IF doc.status \in {"indexed", "failed"} THEN doc.status ELSE "stranded"

Abstract == INSTANCE Ingestion WITH outcome <- Outcome

\* With no fault and no request every document comes to an outcome, through all
\* interleavings of the workers and their automatic retries.
ComesToAnOutcome == Abstract!FairSpec

\* docs/workers.md:16: "Finalization is checked once all three (embed/caption/kg)
\* complete".  No document is left without an outcome when nothing is under way.
NotStranded == Outcome # "stranded"

\* cancel_pipeline_document (api/workers.py:830-833) marks the document FAILED
\* and cleans up its vectors.  Once the request and all messages have been
\* dealt with, a cancelled document is FAILED and has none.
CancelIsClean ==
    "cancel" \in happened /\ jobs = EmptyBag
        => doc.status = "failed" /\ \A c \in Chunks : vectors[c] = "none"
=============================================================================
