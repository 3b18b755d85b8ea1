--------------------------- MODULE DocumentsProofs ---------------------------
(***************************************************************************)
(* Proofs about Documents, for every set of uploads; about Validity, for   *)
(* every set of documents and all that they declare; and about             *)
(* KnowledgeGraph, for every set of documents, of entities and of nodes,   *)
(* whatever the documents mention: that a document owns what it            *)
(* contributed for as long as it exists, and no longer.                    *)
(***************************************************************************)
EXTENDS Documents, Validity, KnowledgeGraph, TLAPS

-----------------------------------------------------------------------------
(* Uploads, clones and deletions.                                          *)

\* Removing a file removes it, or fails.
LEMMA RemovedFile ==
    ASSUME DocumentsTypeOK, NEW d \in UploadedDocuments, RemoveFile(d)
    PROVE  /\ objects' \in SUBSET UploadedDocuments /\ uploadFaults' \in 0..MaxUploadFaults
           /\ objects' = objects \/ objects' = objects \ {d}
BY DocumentsAssumption DEF DocumentsTypeOK, RemoveFile, UploadFault

\* Every reachable state is well typed.
THEOREM DocumentsTyped == DocumentsSpec => []DocumentsTypeOK
<1> USE DocumentsAssumption
<1>1. DocumentsInit => DocumentsTypeOK
  BY DEF DocumentsInit, DocumentsTypeOK, UploadedDocuments, HandlerStates
<1>2. DocumentsTypeOK /\ [DocumentsNext]_documentsVars => DocumentsTypeOK'
  <2> SUFFICES ASSUME DocumentsTypeOK, [DocumentsNext]_documentsVars
               PROVE  DocumentsTypeOK'
    OBVIOUS
  <2> USE DEF DocumentsTypeOK, HandlerStates, filesVars, apiVars, queueVars, Continue,
              SetStatus, UploadFault
  <2>0. Uploads \subseteq UploadedDocuments /\ NoDocument \notin UploadedDocuments
    BY DEF UploadedDocuments
  <2>r. ASSUME NEW d \in Uploads
        PROVE Reusable(d) \subseteq UploadedDocuments \cup {NoDocument}
    BY DEF Reusable, BestDuplicates, Duplicates, InScope
  <2>1. ASSUME NEW d \in Uploads, UploadRedundant(d) \/ UploadStoreFails(d)
        PROVE  DocumentsTypeOK'
    BY <2>0, <2>1 DEF UploadRedundant, UploadStoreFails
  <2>2. ASSUME NEW d \in Uploads, UploadCreatesRow(d)
        PROVE  DocumentsTypeOK'
    BY <2>0, <2>r, <2>2 DEF UploadCreatesRow
  <2>3. ASSUME NEW d \in Uploads, UploadStoresFile(d)
        PROVE  DocumentsTypeOK'
    BY <2>0, <2>3 DEF UploadStoresFile, AfterStore
  <2>4. ASSUME NEW d \in Uploads, CloneCopies(d) \/ CloneMarksIndexed(d) \/ CloneFails(d)
        PROVE  DocumentsTypeOK'
    BY <2>0, <2>4 DEF CloneCopies, CloneMarksIndexed, CloneFails
  <2>5. ASSUME NEW d \in Uploads, PublishesParse(d) \/ PublishFails(d)
        PROVE  DocumentsTypeOK'
    BY <2>0, <2>5 DEF PublishesParse, PublishFails
  <2>6. ASSUME NEW d \in Uploads,
               PresignCreatesRow(d) \/ PresignReturnsUrl(d) \/ PresignFails(d)
        PROVE  DocumentsTypeOK'
    BY <2>0, <2>6 DEF PresignCreatesRow, PresignReturnsUrl, PresignFails
  <2>7. ASSUME NEW d \in Uploads,
               \/ ClientPutsFile(d)
               \/ ConfirmReadsRow(d)
               \/ ConfirmIdempotent(d)
               \/ ConfirmFails(d)
        PROVE  DocumentsTypeOK'
    BY <2>0, <2>7 DEF ClientPutsFile, ConfirmReadsRow, ConfirmIdempotent, ConfirmFails
  <2>8. ASSUME NEW d \in Uploads, ConfirmDiscards(d)
        PROVE  DocumentsTypeOK'
    BY <2>0, <2>8, RemovedFile DEF ConfirmDiscards
  <2>9. ASSUME NEW d \in Uploads, ConfirmAccepts(d)
        PROVE  DocumentsTypeOK'
    BY <2>0, <2>r, <2>9 DEF ConfirmAccepts, AfterStore
  <2>10. ASSUME NEW d \in Uploads,
                EventPublishes(d) \/ EventPublishFails(d) \/ UploadHandlerDies(d)
        PROVE  DocumentsTypeOK'
    BY <2>0, <2>10 DEF EventPublishes, EventPublishFails, UploadHandlerDies
  <2>11. ASSUME NEW d \in UploadedDocuments,
                WorkerParses(d) \/ WorkerEmbeds(d) \/ WorkerFinishes(d) \/ WorkerFails(d)
        PROVE  DocumentsTypeOK'
    BY <2>11 DEF WorkerParses, WorkerEmbeds, WorkerFinishes, WorkerFails
  <2>12. ASSUME NEW d \in UploadedDocuments, DeleteCleansUp(d) \/ DeleteCleanUpFails(d)
        PROVE  DocumentsTypeOK'
    BY <2>12 DEF DeleteCleansUp, DeleteCleanUpFails, CleanChunks
  <2>13. ASSUME NEW d \in UploadedDocuments, DeleteRemovesRow(d)
        PROVE  DocumentsTypeOK'
    BY <2>13, RemovedFile DEF DeleteRemovesRow
  <2>14. CASE UNCHANGED documentsVars
    BY <2>14 DEF documentsVars
  <2> QED BY <2>1, <2>2, <2>3, <2>4, <2>5, <2>6, <2>7, <2>8, <2>9, <2>10, <2>11, <2>12,
             <2>13, <2>14 DEF DocumentsNext
<1> QED BY <1>1, <1>2, PTL DEF DocumentsSpec

\* Someone will tell the workers of the document, or has told why not.
Announced(d) == d \in parseTasks \cup minioEvents \cup unannounced

\* Its file has arrived.
Received(d) ==
    \/ handler[d] \in {"clone", "copied", "copiedNothing", "publish", "confirm", "done"}
    \/ handler[d] = "presigned" /\ d \in objects

\* A document without a row has no file; one whose file arrived is announced.
Kept(d) ==
    /\ handler[d] = "idle" => rowStatus[d] = "none"
    /\ handler[d] \in {"idle", "store", "url"} => d \notin objects
    /\ rowStatus[d] = "pending" /\ Received(d) /\ (webhook \/ handler[d] = "done") =>
          Announced(d)

\* A clone takes from Original only, and has its chunks unless Original goes.
Cloned(d) ==
    /\ reuseSource[d] \in {NoDocument, Original}
    /\ handler[d] \in {"idle", "url", "presigned", "confirm"} => reuseSource[d] = NoDocument
    /\ handler[d] \in {"clone", "copied", "copiedNothing"} => reuseSource[d] = Original
    /\ handler[d] = "copiedNothing" => Original \in deleting
    /\ handler[d] = "copied" => d \in chunks \cup deleting
    /\ worker[d] = "embedded" => d \in chunks \cup deleting
    /\ rowStatus[d] = "indexed" => d \in chunks \cup deleting \/ reuseSource[d] \in deleting

\* Without the webhook the file of a document that is worked on is there.
FileKept(d) ==
    ~webhook =>
        /\ d \notin minioEvents
        /\ handler[d] \notin {"done", "dead"} =>
              d \notin parseTasks /\ worker[d] = "idle" /\ rowStatus[d] # "indexed"
        /\ handler[d] \in {"clone", "copied", "copiedNothing", "publish"} /\ HasRow(d) =>
              d \in objects \cap keyed
        /\ handler[d] = "confirm" /\ HasRow(d) => d \in objects
        /\ (d \in parseTasks \/ worker[d] # "idle" \/ rowStatus[d] = "indexed") =>
              (HasRow(d) => d \in objects \cap keyed)

\* Original is indexed, with its file, until it is deleted.
OriginalKept ==
    /\ rowStatus[Original] \in {"indexed", "gone"}
    /\ Original \notin parseTasks /\ worker[Original] = "idle"
    /\ Original \in chunks \cup deleting
    /\ rowStatus[Original] = "indexed" => Original \in objects \cap keyed

\* What is being deleted has no chunks, unless they came late.
CleanedUp == \A d \in deleting : d \in late \/ d \notin chunks

DocumentsInv ==
    /\ OriginalKept /\ CleanedUp
    /\ \A d \in Uploads : Kept(d) /\ Cloned(d) /\ FileKept(d)

\* What a step of another document leaves alone.
LEMMA OtherDocuments ==
    ASSUME DocumentsTypeOK, NEW d \in UploadedDocuments,
           rowStatus'[d] = rowStatus[d], worker'[d] = worker[d],
           d \in Uploads => handler'[d] = handler[d] /\ reuseSource'[d] = reuseSource[d],
           d \in objects' <=> d \in objects, d \in keyed' <=> d \in keyed,
           d \in chunks' <=> d \in chunks, d \in minioEvents' <=> d \in minioEvents,
           d \in parseTasks' <=> d \in parseTasks, d \in unannounced' <=> d \in unannounced,
           d \in deleting' <=> d \in deleting, deleting \subseteq deleting',
           webhook' = webhook
    PROVE  /\ d \in Uploads /\ Kept(d) /\ Cloned(d) /\ FileKept(d) =>
                 Kept(d)' /\ Cloned(d)' /\ FileKept(d)'
           /\ d = Original /\ OriginalKept => OriginalKept'
<1>1. ASSUME d \in Uploads, Kept(d) PROVE Kept(d)'
  BY <1>1 DEF Kept, Announced, Received
<1>2. ASSUME d \in Uploads, Cloned(d) PROVE Cloned(d)'
  BY <1>2 DEF Cloned
<1>3. ASSUME d \in Uploads, FileKept(d) PROVE FileKept(d)'
  BY <1>3 DEF FileKept, HasRow
<1>4. ASSUME d = Original, OriginalKept PROVE OriginalKept'
  BY <1>4 DEF OriginalKept
<1> QED BY <1>1, <1>2, <1>3, <1>4

\* Which document a step is about.
UploadStep(d) ==
    \/ UploadRedundant(d)
    \/ UploadCreatesRow(d)
    \/ UploadStoresFile(d)
    \/ UploadStoreFails(d)
    \/ PublishesParse(d) \/ PublishFails(d) \/ UploadHandlerDies(d)

CloneStep(d) == CloneCopies(d) \/ CloneMarksIndexed(d) \/ CloneFails(d)

PresignStep(d) ==
    \/ PresignCreatesRow(d) \/ PresignReturnsUrl(d) \/ PresignFails(d) \/ ClientPutsFile(d)
    \/ ConfirmReadsRow(d) \/ ConfirmIdempotent(d) \/ ConfirmDiscards(d) \/ ConfirmAccepts(d)
    \/ ConfirmFails(d)

EventStep(d) == EventPublishes(d) \/ EventPublishFails(d)

WorkerStep(d) == WorkerParses(d) \/ WorkerEmbeds(d) \/ WorkerFinishes(d) \/ WorkerFails(d)

DeleteStep(d) == DeleteCleansUp(d) \/ DeleteCleanUpFails(d) \/ DeleteRemovesRow(d)

\* A step of one document leaves what the others have alone.
LEMMA StepsOfOthers ==
    ASSUME DocumentsTypeOK, NEW e \in UploadedDocuments,
           \/ /\ e \in Uploads
              /\ (UploadStep(e) \/ CloneStep(e) \/ PresignStep(e) \/ EventStep(e))
           \/ WorkerStep(e) \/ DeleteStep(e),
           NEW d \in UploadedDocuments, d # e
    PROVE  /\ rowStatus'[d] = rowStatus[d] /\ worker'[d] = worker[d]
           /\ d \in Uploads => handler'[d] = handler[d] /\ reuseSource'[d] = reuseSource[d]
           /\ d \in objects' <=> d \in objects
           /\ d \in keyed' <=> d \in keyed
           /\ d \in chunks' <=> d \in chunks
           /\ d \in minioEvents' <=> d \in minioEvents
           /\ d \in parseTasks' <=> d \in parseTasks
           /\ d \in unannounced' <=> d \in unannounced
           /\ d \in deleting' <=> d \in deleting
           /\ deleting \subseteq deleting'
           /\ webhook' = webhook
<1> USE DEF filesVars, apiVars, queueVars, Continue, SetStatus, DocumentsTypeOK
<1>1. ASSUME e \in Uploads, UploadStep(e)
      PROVE UNCHANGED <<webhook, deleting, worker, unannounced, chunks>>
  BY <1>1 DEF UploadStep, UploadRedundant, UploadCreatesRow, UploadStoresFile,
         UploadStoreFails, PublishesParse,
     PublishFails, UploadHandlerDies
<1>2. CASE e \in Uploads /\ UploadStep(e)
  BY <1>1, <1>2 DEF UploadStep, UploadRedundant, UploadCreatesRow, UploadStoresFile,
         UploadStoreFails,
     PublishesParse, PublishFails, UploadHandlerDies
<1>3. CASE e \in Uploads /\ CloneStep(e)
  BY <1>3 DEF CloneStep, CloneCopies, CloneMarksIndexed, CloneFails
<1>4. CASE e \in Uploads /\ PresignStep(e)
  BY <1>4, RemovedFile DEF PresignStep, PresignCreatesRow, PresignReturnsUrl, PresignFails,
         ClientPutsFile,
     ConfirmReadsRow, ConfirmIdempotent, ConfirmDiscards, ConfirmAccepts, ConfirmFails
<1>5. CASE e \in Uploads /\ EventStep(e)
  BY <1>5 DEF EventStep, EventPublishes, EventPublishFails
<1>6. CASE WorkerStep(e)
  BY <1>6 DEF WorkerStep, WorkerParses, WorkerEmbeds, WorkerFinishes, WorkerFails
<1>7. CASE DeleteStep(e)
  BY <1>7, RemovedFile DEF DeleteStep, DeleteCleansUp, DeleteCleanUpFails, DeleteRemovesRow,
         CleanChunks
<1> QED BY <1>2, <1>3, <1>4, <1>5, <1>6, <1>7

\* The parts of the invariant, one by one, under the steps of the document.
LEMMA KeptStep ==
    ASSUME DocumentsTypeOK, NEW d \in Uploads, Kept(d),
           \/ UploadStep(d) \/ CloneStep(d) \/ PresignStep(d) \/ EventStep(d)
           \/ WorkerStep(d) \/ DeleteStep(d)
    PROVE  Kept(d)'
<1> USE DocumentsAssumption
<1> USE DEF filesVars, apiVars, queueVars, Continue, SetStatus, DocumentsTypeOK, HasRow,
            Kept, Announced, Received
<1>0. d \in UploadedDocuments
  BY DEF UploadedDocuments
<1>2. CASE UploadStep(d)
  <2>1. CASE UploadRedundant(d) \/ UploadCreatesRow(d)
    BY <1>0, <2>1 DEF UploadRedundant, UploadCreatesRow
  <2>2. CASE UploadStoresFile(d) \/ UploadStoreFails(d)
    BY <1>0, <2>2 DEF UploadStoresFile, UploadStoreFails, AfterStore
  <2>3. CASE PublishesParse(d) \/ PublishFails(d) \/ UploadHandlerDies(d)
    BY <1>0, <2>3 DEF PublishesParse, PublishFails, UploadHandlerDies
  <2> QED BY <1>2, <2>1, <2>2, <2>3 DEF UploadStep
<1>3. CASE CloneStep(d)
  BY <1>0, <1>3 DEF CloneStep, CloneCopies, CloneMarksIndexed, CloneFails
<1>4. CASE PresignStep(d)
  <2>1. CASE PresignCreatesRow(d) \/ PresignReturnsUrl(d) \/ PresignFails(d)
    BY <1>0, <2>1 DEF PresignCreatesRow, PresignReturnsUrl, PresignFails
  <2>2. CASE ClientPutsFile(d) \/ ConfirmReadsRow(d) \/ ConfirmIdempotent(d)
    BY <1>0, <2>2 DEF ClientPutsFile, ConfirmReadsRow, ConfirmIdempotent
  <2>3. CASE ConfirmDiscards(d) \/ ConfirmFails(d)
    BY <1>0, <2>3, RemovedFile DEF ConfirmDiscards, ConfirmFails
  <2>4. CASE ConfirmAccepts(d)
    BY <1>0, <2>4 DEF ConfirmAccepts, AfterStore
  <2> QED BY <1>4, <2>1, <2>2, <2>3, <2>4 DEF PresignStep
<1>5. CASE EventStep(d)
  BY <1>0, <1>5 DEF EventStep, EventPublishes, EventPublishFails
<1>6. CASE WorkerStep(d)
  BY <1>0, <1>6 DEF WorkerStep, WorkerParses, WorkerEmbeds, WorkerFinishes, WorkerFails
<1>7. CASE DeleteStep(d)
  BY <1>0, <1>7, RemovedFile DEF DeleteStep, DeleteCleansUp, DeleteCleanUpFails,
         DeleteRemovesRow
<1> QED BY <1>2, <1>3, <1>4, <1>5, <1>6, <1>7

\* A document to clone is Original.
LEMMA OnlyOriginalIsCloned ==
    ASSUME NEW d \in Uploads, ~Redundant(d), NEW o \in Reusable(d)
    PROVE  o \in {NoDocument, Original}
<1>1. \A x \in Duplicates(d) : x = Original
  BY DEF Redundant, SameWorkspace
<1> QED BY <1>1 DEF Reusable, BestDuplicates, Duplicates

\* A clone keeps its chunks.
LEMMA ClonedStep ==
    ASSUME DocumentsTypeOK, NEW d \in Uploads, Cloned(d), OriginalKept, Kept(d),
           \/ UploadStep(d) \/ CloneStep(d) \/ PresignStep(d) \/ EventStep(d)
           \/ WorkerStep(d) \/ DeleteStep(d)
    PROVE  Cloned(d)'
<1> USE DocumentsAssumption
<1> USE DEF filesVars, apiVars, queueVars, Continue, SetStatus, DocumentsTypeOK, Cloned
<1>0. d \in UploadedDocuments /\ d # Original /\ NoDocument \notin deleting
  BY DEF UploadedDocuments
<1>2. CASE UploadStep(d)
  <2>1. CASE UploadRedundant(d) \/ UploadCreatesRow(d)
    BY <1>0, <2>1, OnlyOriginalIsCloned DEF UploadRedundant, UploadCreatesRow, Kept
  <2>2. CASE UploadStoresFile(d) \/ UploadStoreFails(d)
    BY <1>0, <2>2 DEF UploadStoresFile, UploadStoreFails, AfterStore
  <2>3. CASE PublishesParse(d) \/ PublishFails(d) \/ UploadHandlerDies(d)
    BY <1>0, <2>3 DEF PublishesParse, PublishFails, UploadHandlerDies
  <2> QED BY <1>2, <2>1, <2>2, <2>3 DEF UploadStep
<1>3. CASE CloneStep(d)
  BY <1>0, <1>3 DEF CloneStep, CloneCopies, CloneMarksIndexed, CloneFails, OriginalKept
<1>4. CASE PresignStep(d)
  <2>1. CASE PresignCreatesRow(d) \/ PresignReturnsUrl(d) \/ PresignFails(d)
    BY <1>0, <2>1 DEF PresignCreatesRow, PresignReturnsUrl, PresignFails
  <2>2. CASE ClientPutsFile(d) \/ ConfirmReadsRow(d) \/ ConfirmIdempotent(d)
    BY <1>0, <2>2 DEF ClientPutsFile, ConfirmReadsRow, ConfirmIdempotent
  <2>3. CASE ConfirmDiscards(d) \/ ConfirmFails(d)
    BY <1>0, <2>3, RemovedFile DEF ConfirmDiscards, ConfirmFails
  <2>4. CASE ConfirmAccepts(d)
    BY <1>0, <2>4, OnlyOriginalIsCloned DEF ConfirmAccepts, AfterStore
  <2> QED BY <1>4, <2>1, <2>2, <2>3, <2>4 DEF PresignStep
<1>5. CASE EventStep(d)
  BY <1>0, <1>5 DEF EventStep, EventPublishes, EventPublishFails
<1>6. CASE WorkerStep(d)
  BY <1>0, <1>6 DEF WorkerStep, WorkerParses, WorkerEmbeds, WorkerFinishes, WorkerFails
<1>7. CASE DeleteStep(d)
  BY <1>0, <1>7, RemovedFile DEF DeleteStep, DeleteCleansUp, DeleteCleanUpFails,
         DeleteRemovesRow, CleanChunks
<1> QED BY <1>2, <1>3, <1>4, <1>5, <1>6, <1>7

\* A document that is worked on keeps its file.
LEMMA FileKeptStep ==
    ASSUME DocumentsTypeOK, NEW d \in Uploads, FileKept(d), Kept(d),
           \/ UploadStep(d) \/ CloneStep(d) \/ PresignStep(d) \/ EventStep(d)
           \/ WorkerStep(d) \/ DeleteStep(d)
    PROVE  FileKept(d)'
<1> USE DocumentsAssumption
<1> USE DEF filesVars, apiVars, queueVars, Continue, SetStatus, DocumentsTypeOK, FileKept,
            HasRow
<1>0. d \in UploadedDocuments
  BY DEF UploadedDocuments
<1>2. CASE UploadStep(d)
  <2>1. CASE UploadRedundant(d) \/ UploadCreatesRow(d)
    BY <1>0, <2>1 DEF UploadRedundant, UploadCreatesRow, Kept
  <2>2. CASE UploadStoresFile(d) \/ UploadStoreFails(d)
    BY <1>0, <2>2 DEF UploadStoresFile, UploadStoreFails, AfterStore
  <2>3. CASE PublishesParse(d) \/ PublishFails(d) \/ UploadHandlerDies(d)
    BY <1>0, <2>3 DEF PublishesParse, PublishFails, UploadHandlerDies
  <2> QED BY <1>2, <2>1, <2>2, <2>3 DEF UploadStep
<1>3. CASE CloneStep(d)
  BY <1>0, <1>3 DEF CloneStep, CloneCopies, CloneMarksIndexed, CloneFails
<1>4. CASE PresignStep(d)
  <2>1. CASE PresignCreatesRow(d) \/ PresignReturnsUrl(d) \/ PresignFails(d)
    BY <1>0, <2>1 DEF PresignCreatesRow, PresignReturnsUrl, PresignFails
  <2>2. CASE ClientPutsFile(d) \/ ConfirmReadsRow(d) \/ ConfirmIdempotent(d)
    BY <1>0, <2>2 DEF ClientPutsFile, ConfirmReadsRow, ConfirmIdempotent
  <2>3. CASE ConfirmDiscards(d) \/ ConfirmFails(d)
    BY <1>0, <2>3, RemovedFile DEF ConfirmDiscards, ConfirmFails
  <2>4. CASE ConfirmAccepts(d)
    BY <1>0, <2>4 DEF ConfirmAccepts, AfterStore
  <2> QED BY <1>4, <2>1, <2>2, <2>3, <2>4 DEF PresignStep
<1>5. CASE EventStep(d)
  BY <1>0, <1>5 DEF EventStep, EventPublishes, EventPublishFails
<1>6. CASE WorkerStep(d)
  BY <1>0, <1>6 DEF WorkerStep, WorkerParses, WorkerEmbeds, WorkerFinishes, WorkerFails
<1>7. CASE DeleteStep(d)
  BY <1>0, <1>7, RemovedFile DEF DeleteStep, DeleteCleansUp, DeleteCleanUpFails,
         DeleteRemovesRow
<1> QED BY <1>2, <1>3, <1>4, <1>5, <1>6, <1>7

\* Original stays as it is until its row goes.
LEMMA OriginalKeptStep ==
    ASSUME DocumentsTypeOK, OriginalKept, Original \notin Uploads,
           WorkerStep(Original) \/ DeleteStep(Original)
    PROVE  OriginalKept'
<1> USE DEF filesVars, apiVars, queueVars, SetStatus, DocumentsTypeOK, OriginalKept, HasRow
<1>0. Original \in UploadedDocuments
  BY DEF UploadedDocuments
<1>1. ~WorkerStep(Original)
  BY <1>0 DEF WorkerStep, WorkerParses, WorkerEmbeds, WorkerFinishes, WorkerFails
<1>2. CASE DeleteCleansUp(Original) \/ DeleteCleanUpFails(Original)
  BY <1>0, <1>2 DEF DeleteCleansUp, DeleteCleanUpFails, CleanChunks
<1>3. CASE DeleteRemovesRow(Original)
  BY <1>0, <1>3, RemovedFile DEF DeleteRemovesRow
<1> QED BY <1>1, <1>2, <1>3 DEF DeleteStep

\* No step leaves chunks of a document that is being deleted, but late ones.
LEMMA CleanedUpStep ==
    ASSUME DocumentsTypeOK, CleanedUp, NEW e \in UploadedDocuments,
           \/ /\ e \in Uploads
              /\ (UploadStep(e) \/ CloneStep(e) \/ PresignStep(e) \/ EventStep(e))
           \/ WorkerStep(e) \/ DeleteStep(e)
    PROVE  CleanedUp'
<1> USE DEF filesVars, apiVars, queueVars, CleanedUp
<1>1. CASE UploadStep(e) \/ EventStep(e)
  BY <1>1 DEF UploadStep, UploadRedundant, UploadCreatesRow, UploadStoresFile,
         UploadStoreFails,
     PublishesParse, PublishFails, UploadHandlerDies, EventStep, EventPublishes, EventPublishFails
<1>2. CASE CloneStep(e)
  BY <1>2 DEF CloneStep, CloneCopies, CloneMarksIndexed, CloneFails
<1>3. CASE PresignStep(e)
  BY <1>3 DEF PresignStep, PresignCreatesRow, PresignReturnsUrl, PresignFails,
         ClientPutsFile,
     ConfirmReadsRow, ConfirmIdempotent, ConfirmDiscards, ConfirmAccepts, ConfirmFails
<1>4. CASE WorkerStep(e)
  BY <1>4 DEF WorkerStep, WorkerParses, WorkerEmbeds, WorkerFinishes, WorkerFails
<1>5. CASE DeleteStep(e)
  BY <1>5 DEF DeleteStep, DeleteCleansUp, DeleteCleanUpFails, DeleteRemovesRow, CleanChunks
<1> QED BY <1>1, <1>2, <1>3, <1>4, <1>5

\* The invariant holds after every step.
LEMMA DocumentsInvStep ==
    DocumentsTypeOK /\ DocumentsInv /\ [DocumentsNext]_documentsVars => DocumentsInv'
<1> SUFFICES ASSUME DocumentsTypeOK, DocumentsInv, [DocumentsNext]_documentsVars
             PROVE  DocumentsInv'
  OBVIOUS
<1>1. CASE UNCHANGED documentsVars
  <2>1. UNCHANGED <<webhook, rowStatus, hashed, objects, keyed, chunks, handler,
                    reuseSource, minioEvents,
                    parseTasks, worker, deleting, late, unannounced>>
    BY <1>1 DEF documentsVars, filesVars, apiVars, queueVars
  <2> QED BY <2>1 DEF DocumentsInv, OriginalKept, CleanedUp, Kept, Cloned, FileKept,
                 Announced, Received, HasRow
<1>2. CASE DocumentsNext
  <2>1. PICK e \in UploadedDocuments :
           \/ /\ e \in Uploads
              /\ (UploadStep(e) \/ CloneStep(e) \/ PresignStep(e) \/ EventStep(e))
           \/ WorkerStep(e) \/ DeleteStep(e)
    BY <1>2 DEF DocumentsNext, UploadStep, CloneStep, PresignStep, EventStep, WorkerStep,
           DeleteStep,
       UploadedDocuments
  <2>2. ASSUME NEW d \in Uploads PROVE Kept(d)' /\ Cloned(d)' /\ FileKept(d)'
    <3>1. d \in UploadedDocuments /\ Kept(d) /\ Cloned(d) /\ FileKept(d) /\ OriginalKept
      BY DEF DocumentsInv, UploadedDocuments
    <3>2. CASE d = e
      BY <2>1, <3>1, <3>2, KeptStep, ClonedStep, FileKeptStep
    <3>3. CASE d # e
      BY <2>1, <3>1, <3>3, StepsOfOthers, OtherDocuments
    <3> QED BY <3>2, <3>3
  <2>3. OriginalKept'
    <3>1. Original \in UploadedDocuments /\ Original \notin Uploads /\ OriginalKept
      BY DocumentsAssumption DEF DocumentsInv, UploadedDocuments
    <3>2. CASE e = Original
      BY <2>1, <3>1, <3>2, OriginalKeptStep
    <3>3. CASE e # Original
      BY <2>1, <3>1, <3>3, StepsOfOthers, OtherDocuments
    <3> QED BY <3>2, <3>3
  <2>4. CleanedUp'
    BY <2>1, CleanedUpStep DEF DocumentsInv
  <2> QED BY <2>2, <2>3, <2>4 DEF DocumentsInv
<1> QED BY <1>1, <1>2

\* For every set of uploads, and every number of faults, what DocumentsAccountedFor
\* promises: no document that arrived waits unannounced, none is indexed without
\* chunks or file, and what is deleted leaves no chunks but late ones.
THEOREM DocumentsAreAccountedFor == DocumentsSpec => []DocumentsAccountedFor
<1>1. DocumentsInit => DocumentsInv
  BY DocumentsAssumption
     DEF DocumentsInit, DocumentsInv, OriginalKept, CleanedUp, Kept, Cloned, FileKept,
         Announced, Received, HasRow,
         UploadedDocuments
<1>2. DocumentsTypeOK /\ DocumentsInv => DocumentsAccountedFor
  <2> SUFFICES ASSUME DocumentsTypeOK, DocumentsInv PROVE DocumentsAccountedFor
    OBVIOUS
  <2>1. NoUploadForgotten
    BY DEF NoUploadForgotten, DocumentsInv, Kept, Received, Announced
  <2>2. ASSUME NEW d \in UploadedDocuments, rowStatus[d] = "indexed", d \notin deleting
        PROVE  /\ d \in chunks \/ (d \in Uploads /\ reuseSource[d] \in deleting)
               /\ webhook \/ d \in objects \cap keyed
    <3>1. CASE d = Original
      BY <2>2, <3>1 DEF DocumentsInv, OriginalKept
    <3>2. CASE d \in Uploads
      BY <2>2, <3>2 DEF DocumentsInv, Cloned, FileKept, HasRow
    <3> QED BY <3>1, <3>2 DEF UploadedDocuments
  <2>3. DeletionRemovesChunks
    BY DEF DeletionRemovesChunks, DocumentsInv, CleanedUp
  <2> QED BY <2>1, <2>2, <2>3 DEF DocumentsAccountedFor, IndexedIsSelfContained
<1> QED BY <1>1, <1>2, DocumentsTyped, DocumentsInvStep, PTL DEF DocumentsSpec

-----------------------------------------------------------------------------
(* Validity.                                                               *)

\* Every step keeps the types of the variables.
THEOREM ValidityTyped == ValiditySpec => []ValidityTypeOK
<1>1. ValidityInit => ValidityTypeOK
  BY DEF ValidityInit, ValidityTypeOK, Statuses
<1>2. ValidityTypeOK /\ [ValidityNext]_validityVars => ValidityTypeOK'
  <2> SUFFICES ASSUME ValidityTypeOK, [ValidityNext]_validityVars
               PROVE  ValidityTypeOK'
    OBVIOUS
  <2> USE DEF ValidityTypeOK, Statuses, Applying
  <2>1. ASSUME NEW d \in LegalDocuments, LoadsDocument(d) PROVE ValidityTypeOK'
    BY <2>1 DEF LoadsDocument, ParseGoes
  <2>2. ASSUME NEW d \in LegalDocuments, CommitsNumber(d) PROVE ValidityTypeOK'
    BY <2>2 DEF CommitsNumber, ParseGoes
  <2>3. ASSUME NEW d \in LegalDocuments, ClassifierFails(d) PROVE ValidityTypeOK'
    BY <2>3 DEF ClassifierFails, ParseGoes
  <2>4. ASSUME NEW d \in LegalDocuments, ExtractsValidity(d) PROVE ValidityTypeOK'
    BY <2>4 DEF ExtractsValidity, ParseGoes
  <2>5. ASSUME NEW d \in LegalDocuments, ExtractFails(d) PROVE ValidityTypeOK'
    BY <2>5 DEF ExtractFails, ParseGoes
  <2>6. ASSUME NEW d \in LegalDocuments, MarksTargets(d) PROVE ValidityTypeOK'
    <3>1. [o \in LegalDocuments |->
             IF o \in numbered \ {d}
             THEN Write(validityStatus[o], Marked(validityStatus[o], DeclaredOf(d, o)))
             ELSE "unwritten"] \in [LegalDocuments -> Statuses \cup {"unwritten"}]
      BY DEF Write, Marked
    <3> QED BY <2>6, <3>1 DEF MarksTargets, ParseGoes
  <2>7. ASSUME NEW d \in LegalDocuments, ScansDeclarations(d) PROVE ValidityTypeOK'
    BY <2>7 DEF ScansDeclarations, ParseGoes, Marked
  <2>8. ASSUME NEW d \in LegalDocuments, CommitsValidity(d) PROVE ValidityTypeOK'
    <3>1. \A t \in LegalDocuments : WritesOf(d, t) \in Statuses \cup {"unwritten"}
      BY DEF WritesOf, Write
    <3> QED BY <2>8, <3>1 DEF CommitsValidity, ParseGoes
  <2>9. ASSUME UNCHANGED validityVars PROVE ValidityTypeOK'
    BY <2>9 DEF validityVars
  <2> QED BY <2>1, <2>2, <2>3, <2>4, <2>5, <2>6, <2>7, <2>8, <2>9 DEF ValidityNext
<1> QED BY <1>1, <1>2, PTL DEF ValiditySpec

-----------------------------------------------------------------------------
\* The status s is the one that the declarations of the scopes E come to.
Reflects(s, E) ==
    IF E = {} THEN s \in {"unknown", "effective"} ELSE s = Marked("unknown", E)

\* What is declared takes effect one document after the other.
LEMMA ReflectsMore ==
    ASSUME NEW s, NEW E \in SUBSET {"full", "partial"},
           NEW F \in SUBSET {"full", "partial"},
           Reflects(s, E)
    PROVE  Reflects(Marked(s, F), E \cup F)
<1>1. CASE F = {}
  BY <1>1 DEF Reflects, Marked
<1>2. CASE F # {} /\ E = {}
  BY <1>2 DEF Reflects, Marked
<1>3. CASE F # {} /\ E # {}
  BY <1>3 DEF Reflects, Marked
<1> QED BY <1>1, <1>2, <1>3

\* The declarations that are committed are those of the documents whose
\* validity was applied; a number is there once the classifier has passed.
PhasesAgree ==
    /\ declared = {d \in LegalDocuments : parse[d] = "done"} \ failedExtracts
    /\ \A d \in failedExtracts : parse[d] = "done"
    /\ \A d \in numbered : parse[d] \notin {"new", "loaded"}

\* Until a document scans the declarations, its session only knows its date;
\* until it has a number, nobody marks it.
FreshUntilScanned ==
    \A o \in LegalDocuments :
        /\ loaded[o] = "unknown"
        /\ parse[o] \in {"new", "loaded", "numbered"} => mine[o] = "unknown"
        /\ parse[o] \in {"extracted", "forwarded"} => mine[o] \in {"unknown", "effective"}
        /\ parse[o] \in {"new", "loaded"} => validityStatus[o] = "unknown"

\* A session marks numbered documents that its own declares something of.
MarksAreDeclared ==
    \A d, o \in LegalDocuments : marks[d][o] # "unwritten" =>
        /\ o \in numbered \ {d}
        /\ DeclaredOf(d, o) # {}
        /\ parse[d] \in {"forwarded", "scanned", "done"}

\* Documents that apply their validity at the same time are recorded.
OverlapsAreRecorded ==
    \A x, y \in LegalDocuments :
        (x # y /\ parse[x] \in Applying /\ parse[y] \in Applying) => {x, y} \in overlapped

\* While nobody overlaps, the status of o follows the declarations that are
\* committed: by o's own scan before its commit, by the marks after it.
StatusFollows(o) ==
    /\ (o \notin declared /\ DeclarationsAgainst(o) = {}) => validityStatus[o] = "unknown"
    /\ parse[o] = "scanned" => Reflects(mine[o], DeclarationsAgainst(o))
    /\ o \in declared =>
          /\ Reflects(validityStatus[o], DeclarationsAgainst(o))
          /\ \A d \in LegalDocuments \ {o} : parse[d] \in {"forwarded", "scanned"} =>
                marks[d][o] = Write(validityStatus[o],
                                    Marked(validityStatus[o], DeclaredOf(d, o)))

ValidityInv ==
    /\ ValidityTypeOK
    /\ PhasesAgree
    /\ FreshUntilScanned
    /\ MarksAreDeclared
    /\ OverlapsAreRecorded
    /\ \A o \in numbered : OneAtATime(o) => StatusFollows(o)

\* The invariant is what the property asks for.
LEMMA InvTakesEffect == ValidityInv => DeclarationsTakeEffect
<1> SUFFICES ASSUME ValidityInv, NEW o \in LegalDocuments,
                    parse[o] = "done", o \in numbered, OneAtATime(o),
                    NEW parsed, parsed = {d \in Declarers(o) : parse[d] = "done"},
                    UNION {DeclaredOf(d, o) : d \in parsed} # {},
                    failedExtracts \cap (parsed \cup {o}) = {}
             PROVE  validityStatus[o] =
                      IF "full" \in UNION {DeclaredOf(d, o) : d \in parsed}
                      THEN "superseded" ELSE "partially_amended"
  BY DEF DeclarationsTakeEffect
<1>1. o \in declared
  BY DEF ValidityInv, PhasesAgree
<1>2. \A d \in declared \ {o} : DeclaredOf(d, o) # {} => d \in parsed
  BY DEF ValidityInv, PhasesAgree, Declarers
<1>3. \A d \in parsed : d \in declared \ {o}
  BY DEF ValidityInv, PhasesAgree, Declarers
<1>4. DeclarationsAgainst(o) = UNION {DeclaredOf(d, o) : d \in parsed}
  <2>1. \A s :
           s \in DeclarationsAgainst(o) <=> \E d \in declared \ {o} : s \in DeclaredOf(d, o)
    BY DEF DeclarationsAgainst
  <2>2. \A s :
           s \in UNION {DeclaredOf(d, o) : d \in parsed}
           <=> \E d \in parsed : s \in DeclaredOf(d, o)
    OBVIOUS
  <2>3. \A s :
           (\E d \in declared \ {o} : s \in DeclaredOf(d, o))
           <=> \E d \in parsed : s \in DeclaredOf(d, o)
    BY <1>2, <1>3
  <2> QED BY <2>1, <2>2, <2>3
<1>5. Reflects(validityStatus[o], DeclarationsAgainst(o))
  BY <1>1 DEF ValidityInv, StatusFollows
<1> QED BY <1>4, <1>5 DEF Reflects, Marked

\* At the beginning nothing is parsed.
LEMMA ValidityInvInit == ValidityInit => ValidityInv
<1> SUFFICES ASSUME ValidityInit PROVE ValidityInv
  OBVIOUS
<1> USE DEF ValidityInit
<1>1. ValidityTypeOK
  BY DEF ValidityTypeOK, Statuses
<1>2. PhasesAgree
  BY DEF PhasesAgree
<1>3. FreshUntilScanned
  BY DEF FreshUntilScanned
<1>4. MarksAreDeclared
  BY DEF MarksAreDeclared
<1>5. OverlapsAreRecorded
  BY DEF OverlapsAreRecorded, Applying
<1> QED BY <1>1, <1>2, <1>3, <1>4, <1>5 DEF ValidityInv

\* Every step keeps the phases, what is fresh, the marks and the record of
\* the overlaps.
LEMMA PhasesStep ==
    ASSUME ValidityInv, NEW d \in LegalDocuments,
           \/ LoadsDocument(d)
           \/ CommitsNumber(d)
           \/ ClassifierFails(d)
           \/ ExtractsValidity(d)
           \/ ExtractFails(d)
           \/ MarksTargets(d)
           \/ ScansDeclarations(d)
           \/ CommitsValidity(d)
    PROVE  PhasesAgree' /\ FreshUntilScanned' /\ MarksAreDeclared' /\ OverlapsAreRecorded'
<1> USE DEF ValidityInv, ValidityTypeOK, ParseGoes
<1>1. CASE LoadsDocument(d)
  <2> USE <1>1 DEF LoadsDocument
  <2>1. PhasesAgree'
    BY DEF PhasesAgree
  <2>2. FreshUntilScanned'
    BY DEF FreshUntilScanned
  <2>3. MarksAreDeclared'
    BY DEF MarksAreDeclared
  <2>4. OverlapsAreRecorded'
    BY DEF OverlapsAreRecorded, Applying
  <2> QED BY <2>1, <2>2, <2>3, <2>4
<1>2. CASE CommitsNumber(d)
  <2> USE <1>2 DEF CommitsNumber
  <2>1. PhasesAgree'
    BY DEF PhasesAgree
  <2>2. FreshUntilScanned'
    BY DEF FreshUntilScanned
  <2>3. MarksAreDeclared'
    BY DEF MarksAreDeclared
  <2>4. OverlapsAreRecorded'
    BY DEF OverlapsAreRecorded, Applying
  <2> QED BY <2>1, <2>2, <2>3, <2>4
<1>3. CASE ClassifierFails(d)
  <2> USE <1>3 DEF ClassifierFails
  <2>1. PhasesAgree'
    BY DEF PhasesAgree
  <2>2. FreshUntilScanned'
    BY DEF FreshUntilScanned
  <2>3. MarksAreDeclared'
    BY DEF MarksAreDeclared
  <2>4. OverlapsAreRecorded'
    BY DEF OverlapsAreRecorded, Applying
  <2> QED BY <2>1, <2>2, <2>3, <2>4
<1>4. CASE ExtractsValidity(d)
  <2> USE <1>4 DEF ExtractsValidity
  <2>1. PhasesAgree'
    BY DEF PhasesAgree
  <2>2. FreshUntilScanned'
    BY DEF FreshUntilScanned
  <2>3. MarksAreDeclared'
    BY DEF MarksAreDeclared
  <2>4. OverlapsAreRecorded'
    <3> SUFFICES ASSUME NEW x \in LegalDocuments, NEW y \in LegalDocuments, x # y,
                        parse'[x] \in Applying, parse'[y] \in Applying
                 PROVE  {x, y} \in overlapped'
      BY DEF OverlapsAreRecorded
    <3>1. CASE x # d /\ y # d
      BY <3>1 DEF OverlapsAreRecorded
    <3>2. CASE x = d
      BY <3>2
    <3>3. CASE y = d
      <4>1. {x, y} = {y, x}
        OBVIOUS
      <4> QED BY <3>3, <4>1
    <3> QED BY <3>1, <3>2, <3>3
  <2> QED BY <2>1, <2>2, <2>3, <2>4
<1>5. CASE ExtractFails(d)
  <2> USE <1>5 DEF ExtractFails
  <2>1. PhasesAgree'
    BY DEF PhasesAgree
  <2>2. FreshUntilScanned'
    BY DEF FreshUntilScanned
  <2>3. MarksAreDeclared'
    BY DEF MarksAreDeclared
  <2>4. OverlapsAreRecorded'
    BY DEF OverlapsAreRecorded, Applying
  <2> QED BY <2>1, <2>2, <2>3, <2>4
<1>6. CASE MarksTargets(d)
  <2> USE <1>6 DEF MarksTargets
  <2>1. PhasesAgree'
    BY DEF PhasesAgree
  <2>2. FreshUntilScanned'
    BY DEF FreshUntilScanned
  <2>3. MarksAreDeclared'
    <3>1. \A o \in LegalDocuments : marks'[d][o] # "unwritten" =>
             o \in numbered \ {d} /\ DeclaredOf(d, o) # {}
      BY DEF Write, Marked
    <3> QED BY <3>1 DEF MarksAreDeclared
  <2>4. OverlapsAreRecorded'
    BY DEF OverlapsAreRecorded, Applying
  <2> QED BY <2>1, <2>2, <2>3, <2>4
<1>7. CASE ScansDeclarations(d)
  <2> USE <1>7 DEF ScansDeclarations
  <2>1. PhasesAgree'
    BY DEF PhasesAgree
  <2>2. FreshUntilScanned'
    BY DEF FreshUntilScanned
  <2>3. MarksAreDeclared'
    BY DEF MarksAreDeclared
  <2>4. OverlapsAreRecorded'
    BY DEF OverlapsAreRecorded, Applying
  <2> QED BY <2>1, <2>2, <2>3, <2>4
<1>8. CASE CommitsValidity(d)
  <2> USE <1>8 DEF CommitsValidity
  <2>1. PhasesAgree'
    BY DEF PhasesAgree
  <2>2. FreshUntilScanned'
    <3>1. \A t \in LegalDocuments : parse'[t] \in {"new", "loaded"} =>
             t # d /\ t \notin numbered
      BY DEF PhasesAgree
    <3>2. \A t \in LegalDocuments : parse'[t] \in {"new", "loaded"} =>
             validityStatus'[t] = validityStatus[t]
      BY <3>1 DEF WritesOf, MarksAreDeclared
    <3> QED BY <3>2 DEF FreshUntilScanned
  <2>3. MarksAreDeclared'
    BY DEF MarksAreDeclared
  <2>4. OverlapsAreRecorded'
    BY DEF OverlapsAreRecorded, Applying
  <2> QED BY <2>1, <2>2, <2>3, <2>4
<1> QED BY <1>1, <1>2, <1>3, <1>4, <1>5, <1>6, <1>7, <1>8

\* Two documents that declare something of o, or o itself and one that does,
\* are not both applying their validity while nobody overlaps.
LEMMA OneOfThem ==
    ASSUME ValidityInv, NEW o \in LegalDocuments, OneAtATime(o),
           NEW x \in Declarers(o) \cup {o}, NEW y \in Declarers(o) \cup {o}, x # y,
           parse[x] \in Applying
    PROVE  parse[y] \notin Applying
BY DEF ValidityInv, OverlapsAreRecorded, OneAtATime, Declarers

\* A document that declares nothing of o leaves it unmarked.
LEMMA UndeclaredUnmarked ==
    ASSUME ValidityInv, NEW d \in LegalDocuments, NEW o \in LegalDocuments,
           d \notin Declarers(o), d # o
    PROVE  /\ DeclaredOf(d, o) = {}
           /\ marks[d][o] = "unwritten"
           /\ \A s : Write(s, Marked(s, DeclaredOf(d, o))) = "unwritten"
BY DEF ValidityInv, MarksAreDeclared, Declarers, Write, Marked

\* The commit of d keeps the status of o what is declared.
LEMMA CommitFollows ==
    ASSUME ValidityInv, NEW d \in LegalDocuments, CommitsValidity(d),
           NEW o \in numbered, OneAtATime(o), StatusFollows(o)
    PROVE  StatusFollows(o)'
<1> o \in LegalDocuments
  BY DEF ValidityInv, ValidityTypeOK
<1> USE DEF CommitsValidity, ParseGoes
<1> DEFINE E == DeclarationsAgainst(o)
<1>0. E \in SUBSET {"full", "partial"} /\ DeclaredOf(d, o) \in SUBSET {"full", "partial"}
  BY DEF DeclarationsAgainst, DeclaredOf
<1>p. parse \in [LegalDocuments -> {"new", "loaded", "numbered", "done"} \cup Applying]
  BY DEF ValidityInv, ValidityTypeOK
<1>a. parse[d] \in Applying
  BY DEF Applying
<1>1. CASE d = o
  <2>1. E' = E
    BY <1>1 DEF DeclarationsAgainst
  <2>2. Reflects(mine[o], E)
    BY <1>1 DEF StatusFollows
  <2>3. o \notin declared
    BY <1>1 DEF ValidityInv, PhasesAgree
  <2>4. Reflects(validityStatus'[o], E)
    <3>1. CASE mine[o] = "unknown"
      <4>1. E = {}
        BY <3>1, <2>2, <1>0 DEF Reflects, Marked
      <4>2. validityStatus[o] = "unknown"
        BY <4>1, <2>3 DEF StatusFollows
      <4>3. validityStatus'[o] = validityStatus[o]
        BY <3>1, <1>1 DEF WritesOf, Write, ValidityInv, FreshUntilScanned
      <4> QED BY <4>1, <4>2, <4>3 DEF Reflects
    <3>2. CASE mine[o] # "unknown"
      <4>1. loaded[o] = "unknown" /\ mine[o] # "unwritten"
        BY DEF ValidityInv, FreshUntilScanned, ValidityTypeOK, Statuses
      <4>2. WritesOf(d, o) = mine[o]
        BY <1>1, <3>2, <4>1 DEF WritesOf, Write
      <4>3. validityStatus'[o] = mine[o]
        BY <4>1, <4>2
      <4> QED BY <2>2, <4>3
    <3> QED BY <3>1, <3>2
  <2>5. ASSUME NEW x \in LegalDocuments \ {o}, parse'[x] \in {"forwarded", "scanned"}
        PROVE  marks'[x][o] = Write(validityStatus'[o],
                                    Marked(validityStatus'[o], DeclaredOf(x, o)))
    <3>1. parse[x] \in Applying
      BY <2>5, <1>p, <1>1 DEF Applying
    <3>2. x \notin Declarers(o)
      BY <3>1, <1>a, <1>1, OneOfThem
    <3> QED BY <3>2, UndeclaredUnmarked
  <2>6. parse'[o] = "done" /\ o \in declared'
    BY <1>1, <1>p
  <2> QED BY <2>1, <2>4, <2>5, <2>6 DEF StatusFollows
<1>2. CASE d # o
  <2>1. E' = E \cup DeclaredOf(d, o)
    BY <1>2 DEF DeclarationsAgainst
  <2>2. /\ parse'[o] = parse[o]
        /\ mine' = mine
        /\ marks' = marks
        /\ (o \in declared' <=> o \in declared)
    BY <1>2, <1>p
  <2>3. validityStatus'[o] = IF marks[d][o] = "unwritten" THEN validityStatus[o]
                                                        ELSE marks[d][o]
    BY <1>2 DEF WritesOf
  <2>4. DeclaredOf(d, o) = {} => validityStatus'[o] = validityStatus[o] /\ E' = E
    BY <2>1, <2>3, <1>2 DEF ValidityInv, MarksAreDeclared
  <2>5. (o \notin declared /\ E' = {}) => validityStatus'[o] = "unknown"
    BY <2>1, <2>4 DEF StatusFollows
  <2>6. parse[o] = "scanned" => Reflects(mine[o], E')
    <3> SUFFICES ASSUME parse[o] = "scanned" PROVE Reflects(mine[o], E')
      OBVIOUS
    <3>1. d \notin Declarers(o)
      BY <1>a, <1>2, OneOfThem DEF Applying
    <3>2. DeclaredOf(d, o) = {}
      BY <3>1, <1>2, UndeclaredUnmarked
    <3> QED BY <3>2, <2>4 DEF StatusFollows
  <2>7. ASSUME o \in declared
        PROVE  validityStatus'[o] = Marked(validityStatus[o], DeclaredOf(d, o))
    <3>1. marks[d][o] = Write(validityStatus[o], Marked(validityStatus[o], DeclaredOf(d, o)))
      BY <2>7, <1>2 DEF StatusFollows
    <3>2. Marked(validityStatus[o], DeclaredOf(d, o)) # "unwritten"
      BY DEF Marked, ValidityInv, ValidityTypeOK, Statuses
    <3> QED BY <3>1, <3>2, <2>3 DEF Write
  <2>8. ASSUME o \in declared PROVE Reflects(validityStatus'[o], E')
    BY <2>8, <2>7, <2>1, <1>0, ReflectsMore DEF StatusFollows
  <2>9. ASSUME o \in declared, NEW x \in LegalDocuments \ {o},
               parse'[x] \in {"forwarded", "scanned"}
        PROVE  marks'[x][o] = Write(validityStatus'[o],
                                    Marked(validityStatus'[o], DeclaredOf(x, o)))
    <3>1. x # d /\ parse[x] \in {"forwarded", "scanned"}
      BY <2>9, <1>p
    <3>2. CASE x \notin Declarers(o)
      BY <3>2, <2>2, UndeclaredUnmarked
    <3>3. CASE x \in Declarers(o)
      <4>1. d \notin Declarers(o)
        BY <3>1, <3>3, <1>a, OneOfThem DEF Applying
      <4>2. validityStatus'[o] = validityStatus[o]
        BY <4>1, <1>2, <2>4, UndeclaredUnmarked
      <4> QED BY <4>2, <2>2, <2>9, <3>1 DEF StatusFollows
    <3> QED BY <3>2, <3>3
  <2> QED BY <2>2, <2>5, <2>6, <2>8, <2>9 DEF StatusFollows
<1> QED BY <1>1, <1>2

\* Every step keeps the status of o what is declared.
LEMMA StatusStep ==
    ASSUME ValidityInv, NEW d \in LegalDocuments,
           \/ LoadsDocument(d)
           \/ CommitsNumber(d)
           \/ ClassifierFails(d)
           \/ ExtractsValidity(d)
           \/ ExtractFails(d)
           \/ MarksTargets(d)
           \/ ScansDeclarations(d)
           \/ CommitsValidity(d),
           NEW o \in numbered', OneAtATime(o)'
    PROVE  StatusFollows(o)'
<1> o \in LegalDocuments
  BY DEF ValidityInv, ValidityTypeOK, LoadsDocument, CommitsNumber, ClassifierFails,
         ExtractsValidity, ExtractFails, MarksTargets, ScansDeclarations, CommitsValidity
<1>0. OneAtATime(o)
  BY DEF OneAtATime, Declarers, LoadsDocument, CommitsNumber, ClassifierFails,
         ExtractsValidity, ExtractFails, MarksTargets, ScansDeclarations, CommitsValidity
<1>1. o \in numbered => StatusFollows(o)
  BY <1>0 DEF ValidityInv
<1>p. parse \in [LegalDocuments -> {"new", "loaded", "numbered", "done"} \cup Applying]
  BY DEF ValidityInv, ValidityTypeOK
<1>m. mine \in [LegalDocuments -> Statuses]
  BY DEF ValidityInv, ValidityTypeOK
<1> USE DEF ParseGoes, Applying
<1>2. CASE LoadsDocument(d)
  BY <1>1, <1>2, <1>p, <1>m DEF LoadsDocument, StatusFollows, DeclarationsAgainst
<1>3. CASE CommitsNumber(d)
  <2>1. CASE o = d
    BY <2>1, <1>3, <1>p DEF CommitsNumber, StatusFollows, ValidityInv, FreshUntilScanned,
           PhasesAgree
  <2>2. CASE o # d
    BY <2>2, <1>1, <1>3, <1>p DEF CommitsNumber, StatusFollows, DeclarationsAgainst
  <2> QED BY <2>1, <2>2
<1>4. CASE ClassifierFails(d)
  BY <1>1, <1>4, <1>p DEF ClassifierFails, StatusFollows, DeclarationsAgainst
<1>5. CASE ExtractsValidity(d)
  BY <1>1, <1>5, <1>p, <1>m DEF ExtractsValidity, StatusFollows, DeclarationsAgainst
<1>6. CASE ExtractFails(d)
  BY <1>1, <1>6, <1>p DEF ExtractFails, StatusFollows, DeclarationsAgainst
<1>7. CASE MarksTargets(d)
  <2>1. DeclarationsAgainst(o)' = DeclarationsAgainst(o)
    BY <1>7 DEF MarksTargets, DeclarationsAgainst
  <2>2. ASSUME NEW x \in LegalDocuments \ {o}, o \in declared,
               parse'[x] \in {"forwarded", "scanned"}
        PROVE  marks'[x][o] = Write(validityStatus[o],
                                    Marked(validityStatus[o], DeclaredOf(x, o)))
    <3>1. CASE x = d
      BY <3>1, <2>2, <1>7 DEF MarksTargets, ValidityInv, ValidityTypeOK
    <3>2. CASE x # d
      BY <3>2, <2>2, <1>1, <1>7, <1>p DEF MarksTargets, StatusFollows
    <3> QED BY <3>1, <3>2
  <2> QED BY <2>1, <2>2, <1>1, <1>7, <1>p DEF MarksTargets, StatusFollows
<1>8. CASE ScansDeclarations(d)
  <2>1. DeclarationsAgainst(o)' = DeclarationsAgainst(o)
    BY <1>8 DEF ScansDeclarations, DeclarationsAgainst
  <2>2. CASE o = d
    <3>1. Reflects(mine[o], {})
      BY <2>2, <1>8 DEF ScansDeclarations, ValidityInv, FreshUntilScanned, Reflects
    <3>2. Reflects(Marked(mine[o], DeclarationsAgainst(o)), {} \cup DeclarationsAgainst(o))
      <4>1. DeclarationsAgainst(o) \in SUBSET {"full", "partial"}
        BY DEF DeclarationsAgainst, DeclaredOf
      <4> QED BY <3>1, <4>1, ReflectsMore
    <3>3. mine'[o] = Marked(mine[o], DeclarationsAgainst(o))
      BY <2>2, <1>8, <1>m DEF ScansDeclarations
    <3>4. o \notin declared
      BY <2>2, <1>8 DEF ScansDeclarations, ValidityInv, PhasesAgree
    <3>5. Reflects(mine'[o], DeclarationsAgainst(o))
      BY <3>2, <3>3
    <3> QED BY <2>1, <3>4, <3>5, <1>1, <1>8 DEF ScansDeclarations, StatusFollows
  <2>3. CASE o # d
    BY <2>1, <2>3, <1>1, <1>8, <1>p, <1>m DEF ScansDeclarations, StatusFollows
  <2> QED BY <2>2, <2>3
<1>9. CASE CommitsValidity(d)
  BY <1>0, <1>1, <1>9, CommitFollows DEF CommitsValidity
<1> QED BY <1>2, <1>3, <1>4, <1>5, <1>6, <1>7, <1>8, <1>9

\* A declaration takes effect whichever of the two documents is parsed first,
\* unless two documents that write the status overlap.
THEOREM DeclarationsDoTakeEffect == ValiditySpec => []DeclarationsTakeEffect
<1>1. ValidityInv /\ ValidityTypeOK' /\ [ValidityNext]_validityVars => ValidityInv'
  <2> SUFFICES ASSUME ValidityInv, ValidityTypeOK', [ValidityNext]_validityVars
               PROVE  ValidityInv'
    OBVIOUS
  <2>1. CASE ValidityNext
    <3> PICK d \in LegalDocuments :
           \/ LoadsDocument(d)
           \/ CommitsNumber(d)
           \/ ClassifierFails(d)
           \/ ExtractsValidity(d)
           \/ ExtractFails(d)
           \/ MarksTargets(d)
           \/ ScansDeclarations(d)
           \/ CommitsValidity(d)
      BY <2>1 DEF ValidityNext
    <3>1. PhasesAgree' /\ FreshUntilScanned' /\ MarksAreDeclared' /\ OverlapsAreRecorded'
      BY PhasesStep
    <3>2. \A o \in numbered' : OneAtATime(o)' => StatusFollows(o)'
      BY StatusStep
    <3> QED BY <3>1, <3>2 DEF ValidityInv
  <2>2. CASE UNCHANGED validityVars
    BY <2>2 DEF validityVars, ValidityInv, PhasesAgree, FreshUntilScanned, MarksAreDeclared,
                OverlapsAreRecorded, OneAtATime, StatusFollows, DeclarationsAgainst
  <2> QED BY <2>1, <2>2
<1> QED BY <1>1, ValidityTyped, ValidityInvInit, InvTakesEffect, PTL DEF ValiditySpec

-----------------------------------------------------------------------------
(* The knowledge graph: who owns its nodes.                                *)

\* The document d owns the node n.
Owns(d, n) == n \in LiveNodes /\ d \in OwnersOf(n)

\* Nothing is in the sequence twice.
Once(s) == \A i, j \in 1..Len(s) : s[i] = s[j] => i = j

\* Appending an owner that is not there keeps the owners apart.
LEMMA OwnedAlsoOwners ==
    ASSUME NEW S, NEW s \in Seq(S), NEW d \in S
    PROVE  /\ OwnedAlso(s, d) \in Seq(S)
           /\ ToSet(OwnedAlso(s, d)) = ToSet(s) \cup {d}
           /\ Once(s) => Once(OwnedAlso(s, d))
<1>1. CASE d \in ToSet(s)
  BY <1>1 DEF OwnedAlso
<1>2. CASE d \notin ToSet(s)
  <2> DEFINE t == Append(s, d)
  <2>1. t \in Seq(S) /\ Len(t) = Len(s) + 1 /\ t[Len(s) + 1] = d /\ Len(s) \in Nat
    OBVIOUS
  <2>2. \A i \in 1..Len(s) : t[i] = s[i] /\ i \in 1..Len(t)
    BY <2>1
  <2>3. DOMAIN t = 1..Len(t) /\ DOMAIN s = 1..Len(s)
    BY <2>1
  <2>4. OwnedAlso(s, d) = t
    BY <1>2 DEF OwnedAlso
  <2> HIDE DEF t
  <2>5. \A x : x \in ToSet(t) <=> x \in ToSet(s) \/ x = d
    BY <2>1, <2>2, <2>3 DEF ToSet
  <2>6. ToSet(t) = ToSet(s) \cup {d}
    BY <2>5
  <2>7. \A i \in 1..Len(s) : s[i] # d
    BY <1>2, <2>3 DEF ToSet
  <2>8. Once(s) => Once(t)
    BY <2>1, <2>2, <2>7 DEF Once
  <2> QED BY <2>1, <2>4, <2>6, <2>8
<1> QED BY <1>1, <1>2

\* What remains are the other owners.
LEMMA RemainOwners ==
    ASSUME NEW S, NEW s \in Seq(S), NEW d \in ToSet(s), Once(s)
    PROVE  /\ Remain(s, d) \in Seq(S)
           /\ ToSet(Remain(s, d)) = ToSet(s) \ {d}
           /\ Once(Remain(s, d))
           /\ Remain(s, d) # <<>> => Head(Remain(s, d)) \in S
<1> DEFINE at == CHOOSE i \in 1..Len(s) : s[i] = d
           n  == Len(s) - 1
           t  == [i \in 1..n |-> s[IF i < at THEN i ELSE i + 1]]
<1>1. Len(s) \in Nat /\ DOMAIN s = 1..Len(s)
  OBVIOUS
<1>2. \E i \in 1..Len(s) : s[i] = d
  BY <1>1 DEF ToSet
<1>3. at \in 1..Len(s) /\ s[at] = d
  BY <1>2
<1>4. Remain(s, d) = t
  BY DEF Remain
<1> HIDE DEF at
<1>5. n \in Nat
  BY <1>1, <1>3
<1>6. \A i \in 1..n : t[i] \in S
  BY <1>1, <1>3
<1>7. t \in Seq(S) /\ Len(t) = n /\ DOMAIN t = 1..n
  BY <1>5, <1>6
<1>8. \A i \in 1..Len(s) : s[i] = d => i = at
  BY <1>3 DEF Once
<1>9. \A i \in 1..n : \E j \in 1..Len(s) : j # at /\ t[i] = s[j]
  BY <1>1, <1>3
<1>10. \A j \in 1..Len(s) : j # at => \E i \in 1..n : t[i] = s[j]
  <2> SUFFICES ASSUME NEW j \in 1..Len(s), j # at PROVE \E i \in 1..n : t[i] = s[j]
    OBVIOUS
  <2>1. CASE j < at
    BY <2>1, <1>1, <1>3
  <2>2. CASE j > at
    <3>1. j - 1 \in 1..n /\ ~(j - 1 < at) /\ (j - 1) + 1 = j
      BY <2>2, <1>1, <1>3
    <3> QED BY <3>1
  <2> QED BY <2>1, <2>2, <1>1, <1>3
<1>11. Once(t)
  BY <1>1, <1>3, <1>7 DEF Once
<1>12. t # <<>> => Head(t) \in S
  BY <1>7
<1> HIDE DEF t
<1>13. ASSUME NEW x PROVE x \in ToSet(t) <=> (x \in ToSet(s) /\ x # d)
  <2>1. ASSUME x \in ToSet(t) PROVE x \in ToSet(s) /\ x # d
    <3>1. PICK i \in 1..n : x = t[i]
      BY <2>1, <1>7 DEF ToSet
    <3>2. PICK j \in 1..Len(s) : j # at /\ t[i] = s[j]
      BY <1>9
    <3> QED BY <3>1, <3>2, <1>1, <1>8 DEF ToSet
  <2>2. ASSUME x \in ToSet(s), x # d PROVE x \in ToSet(t)
    <3>1. PICK j \in 1..Len(s) : x = s[j]
      BY <2>2, <1>1 DEF ToSet
    <3>2. PICK i \in 1..n : t[i] = s[j]
      BY <3>1, <2>2, <1>3, <1>10
    <3> QED BY <3>1, <3>2, <1>7 DEF ToSet
  <2> QED BY <2>1, <2>2
<1>14. ToSet(t) = ToSet(s) \ {d}
  BY <1>13
<1> QED BY <1>4, <1>7, <1>11, <1>12, <1>14

\* A node that lives is a node.
LEMMA LiveIsNode ==
    ASSUME KnowledgeGraphTypeOK, NEW n \in LiveNodes
    PROVE  n \in KgNodes /\ graph[n] \in GraphNodes /\ OwnersOf(n) \subseteq KgDocuments
<1>1. n \in KgNodes /\ graph[n] \in GraphNodes
  BY DEF LiveNodes, KnowledgeGraphTypeOK
<1>2. graph[n].owners \in Seq(KgDocuments)
  BY <1>1 DEF GraphNodes
<1> QED BY <1>1, <1>2 DEF OwnersOf, ToSet

\* A MERGE keeps every node and what it is; only d owns more than before, and it
\* owns a node of the entity.
LEMMA MergeKeeps ==
    ASSUME KnowledgeGraphTypeOK, NEW e \in KgEntities, NEW d \in KgDocuments,
           NEW claim \in BOOLEAN, MergeNode(e, d, claim)
    PROVE  /\ graph' \in [KgNodes -> GraphNodes \cup {NoNode}]
           /\ \A n \in LiveNodes : n \in LiveNodes' /\ graph'[n].entity = graph[n].entity
           /\ \A n \in LiveNodes : OwnersOf(n) \subseteq OwnersOf(n)'
           /\ \A n \in LiveNodes' : \A x \in OwnersOf(n)' : x # d => Owns(x, n)
           /\ \E n \in LiveNodes' : graph'[n].entity = e /\ d \in OwnersOf(n)'
           /\ (\A n \in LiveNodes : Once(graph[n].owners)) =>
                 \A n \in LiveNodes' : Once(graph'[n].owners)
<1>t. graph \in [KgNodes -> GraphNodes \cup {NoNode}]
  BY DEF KnowledgeGraphTypeOK
<1>0. NoNode \notin GraphNodes
  BY KnowledgeGraphAssumption
<1>1. CASE NodesOf(e) = {}
  <2> DEFINE new == [entity |-> e, anchor |-> d, owners |-> <<d>>]
  <2>1. LiveNodes # KgNodes /\ graph' = [graph EXCEPT ![FreeNode] = new]
    BY <1>1 DEF MergeNode
  <2>2. PICK at \in KgNodes \ LiveNodes : graph' = [graph EXCEPT ![at] = new]
    BY <2>1 DEF FreeNode, LiveNodes
  <2>3. <<d>> \in Seq(KgDocuments) /\ ToSet(<<d>>) = {d} /\ Once(<<d>>)
    BY DEF ToSet, Once
  <2>4. new \in GraphNodes
    BY <2>3 DEF GraphNodes
  <2>5. new.entity = e /\ new.owners = <<d>>
    OBVIOUS
  <2> HIDE DEF new
  <2>6. graph'[at] = new /\ \A n \in KgNodes \ {at} : graph'[n] = graph[n]
    BY <2>2, <1>t
  <2>7. graph' \in [KgNodes -> GraphNodes \cup {NoNode}]
    BY <2>2, <2>4, <1>t
  <2>8. LiveNodes' = LiveNodes \cup {at}
    BY <2>2, <2>4, <2>6, <1>0 DEF LiveNodes
  <2>9. OwnersOf(at)' = {d}
    BY <2>3, <2>5, <2>6 DEF OwnersOf
  <2>10. \A n \in LiveNodes : n # at /\ graph'[n] = graph[n] /\ OwnersOf(n)' = OwnersOf(n)
    BY <2>2, <2>6 DEF OwnersOf, LiveNodes
  <2> QED BY <2>3, <2>5, <2>6, <2>7, <2>8, <2>9, <2>10 DEF Owns
<1>2. CASE NodesOf(e) # {}
  <2> DEFINE owned(n)  == OwnedAlso(graph[n].owners, d)
             merged(n) == [graph[n] EXCEPT !.owners = OwnedAlso(@, d),
                                           !.anchor = IF claim THEN d ELSE @]
  <2>1. graph' = [n \in KgNodes |-> IF n \in NodesOf(e) THEN merged(n) ELSE graph[n]]
    BY <1>2 DEF MergeNode
  <2>2. \A n \in NodesOf(e) : n \in LiveNodes /\ graph[n].entity = e
    BY DEF NodesOf
  <2>3. ASSUME NEW n \in LiveNodes
        PROVE  /\ n \in KgNodes
               /\ merged(n) \in GraphNodes
               /\ merged(n).entity = graph[n].entity
               /\ merged(n).owners = owned(n)
               /\ ToSet(owned(n)) = OwnersOf(n) \cup {d}
               /\ Once(graph[n].owners) => Once(owned(n))
    <3>1. n \in KgNodes /\ graph[n] \in GraphNodes
      BY LiveIsNode
    <3>2. graph[n].owners \in Seq(KgDocuments)
      BY <3>1 DEF GraphNodes
    <3>3. owned(n) \in Seq(KgDocuments)
          /\ ToSet(owned(n)) = OwnersOf(n) \cup {d}
          /\ (Once(graph[n].owners) => Once(owned(n)))
      BY <3>2, OwnedAlsoOwners DEF OwnersOf
    <3>4. merged(n) \in GraphNodes
      BY <3>1, <3>3 DEF GraphNodes
    <3>5. merged(n).entity = graph[n].entity /\ merged(n).owners = owned(n)
      BY <3>1 DEF GraphNodes
    <3> QED BY <3>1, <3>3, <3>4, <3>5
  <2> HIDE DEF owned, merged
  <2>4. \A n \in LiveNodes :
           graph'[n] = graph[n] \/ (graph'[n] = merged(n) /\ n \in NodesOf(e))
    BY <2>1, <2>3
  <2>5. \A n \in KgNodes \ LiveNodes : graph'[n] = NoNode
    BY <2>1, <2>2 DEF LiveNodes
  <2>6. graph' \in [KgNodes -> GraphNodes \cup {NoNode}]
    BY <2>1, <2>2, <2>3, <1>t
  <2>7. LiveNodes' = LiveNodes
    <3>1. \A n \in LiveNodes : graph'[n] # NoNode
      BY <2>3, <2>4, <1>0 DEF LiveNodes
    <3> QED BY <3>1, <2>5 DEF LiveNodes
  <2>8. ASSUME NEW n \in LiveNodes
        PROVE  /\ graph'[n].entity = graph[n].entity
               /\ OwnersOf(n) \subseteq OwnersOf(n)'
               /\ \A x \in OwnersOf(n)' : x # d => x \in OwnersOf(n)
               /\ Once(graph[n].owners) => Once(graph'[n].owners)
    BY <2>3, <2>4 DEF OwnersOf
  <2>9. PICK n \in NodesOf(e) : TRUE
    BY <1>2
  <2>10. n \in LiveNodes /\ graph'[n] = merged(n) /\ graph[n].entity = e
    BY <2>1, <2>2, <2>3
  <2>11. graph'[n].entity = e /\ d \in OwnersOf(n)'
    BY <2>3, <2>10 DEF OwnersOf
  <2> QED BY <2>6, <2>7, <2>8, <2>10, <2>11 DEF Owns
<1> QED BY <1>1, <1>2

-----------------------------------------------------------------------------
\* An owner is in no list twice.
OwnersAreThereOnce ==
    /\ \A n \in LiveNodes : Once(graph[n].owners)
    /\ \A x \in KgDocuments, n \in KgNodes : Once(readNodes[x][n])

\* What is read is read by a deletion, between its two steps, of what it owned.
ReadsAreOfDeletions ==
    \A x \in KgDocuments :
        /\ \A p \in KgNodes \X KgNodes : readLinks[x][p] # {} =>
              Deleting(x) /\ cleanUp[x].at = "linksRead"
        /\ \A n \in KgNodes : readNodes[x][n] # <<>> =>
              /\ Deleting(x) /\ cleanUp[x].at = "nodesRead"
              /\ x \in ToSet(readNodes[x][n])

KnowledgeGraphTyped ==
    KnowledgeGraphTypeOK /\ OwnersAreThereOnce /\ ReadsAreOfDeletions

\* The graph is not written.
LEMMA SameGraph ==
    ASSUME KnowledgeGraphTyped, UNCHANGED <<graph, readNodes>>
    PROVE  /\ OwnersAreThereOnce'
           /\ LiveNodes' = LiveNodes
           /\ \A n : OwnersOf(n)' = OwnersOf(n)
BY DEF KnowledgeGraphTyped, OwnersAreThereOnce, LiveNodes, OwnersOf

\* A statement of an ingest: its mention is one of the document's.
LEMMA MentionedIsOne ==
    ASSUME KnowledgeGraphTypeOK, NEW d \in KgDocuments, ingest[d].next > 0, More(d)
    PROVE  /\ Mentions[d] \in Seq(KgEntities)
           /\ Len(Mentions[d]) \in Nat
           /\ (ingest[d].next + 1) \div 2 \in 1..Len(Mentions[d])
           /\ Mentioned(d) \in KgEntities
<1>1. Mentions[d] \in Seq(KgEntities) /\ Len(Mentions[d]) \in Nat
  BY KnowledgeGraphAssumption
<1>2. ingest[d].next \in Nat
  BY DEF KnowledgeGraphTypeOK
<1>3. (ingest[d].next + 1) \div 2 \in 1..Len(Mentions[d])
  BY <1>1, <1>2 DEF More
<1>4. \A i \in 1..Len(Mentions[d]) : Mentions[d][i] \in KgEntities
  BY <1>1
<1> QED BY <1>1, <1>3, <1>4 DEF Mentioned

\* A statement counts, and is noted if it races.
LEMMA NextTyped ==
    ASSUME KnowledgeGraphTypeOK, NEW d \in KgDocuments, NextStatement(d)
    PROVE  ingest' \in [KgDocuments -> [running : BOOLEAN, next : Nat, root : KgLaws]]
<1> DEFINE n == ingest[d].next + 1
           i == [ingest[d] EXCEPT !.next = n]
<1>1. /\ ingest[d] \in [running : BOOLEAN, next : Nat, root : KgLaws]
      /\ ingest \in [KgDocuments -> [running : BOOLEAN, next : Nat, root : KgLaws]]
  BY DEF KnowledgeGraphTypeOK
<1>2. n \in Nat
  BY <1>1
<1>3. ingest' = [ingest EXCEPT ![d] = i]
  BY <1>1 DEF NextStatement
<1> HIDE DEF n
<1>4. i \in [running : BOOLEAN, next : Nat, root : KgLaws]
  BY <1>1, <1>2
<1> QED BY <1>1, <1>3, <1>4

\* What a write notes is typed.
LEMMA WritesTyped ==
    ASSUME KnowledgeGraphTypeOK, NEW d \in KgDocuments, Writes(d)
    PROVE  /\ {raced, touched, unclean}' \subseteq SUBSET KgDocuments
           /\ kgRequests' = kgRequests
<1>1. /\ raced \subseteq KgDocuments
      /\ unclean \subseteq KgDocuments
      /\ touched \subseteq KgDocuments
  BY DEF KnowledgeGraphTypeOK
<1>2. /\ raced' \subseteq raced \cup {d} /\ unclean' \subseteq unclean \cup {d}
      /\ touched' = touched /\ kgRequests' = kgRequests
  BY DEF Writes
<1> QED BY <1>1, <1>2

\* The statements of an ingest.
LEMMA MergeTyped ==
    ASSUME KnowledgeGraphTyped, NEW d \in KgDocuments, UpsertRoot(d) \/ UpsertNode(d)
    PROVE  KnowledgeGraphTyped'
<1> USE DEF KnowledgeGraphTyped
<1>1. PICK e \in KgEntities, claim \in BOOLEAN : MergeNode(e, d, claim)
  <2>1. CASE UpsertRoot(d)
    BY <2>1, KnowledgeGraphAssumption DEF UpsertRoot, KnowledgeGraphTypeOK
  <2>2. CASE UpsertNode(d)
    <3>0. ingest[d].next \in Nat
      BY DEF KnowledgeGraphTypeOK
    <3>1. ingest[d].next % 2 = 1
      BY <2>2 DEF UpsertNode
    <3>2. ingest[d].next > 0
      BY <3>0, <3>1
    <3> QED BY <2>2, <3>2, MentionedIsOne DEF UpsertNode
  <2> QED BY <2>1, <2>2
<1>2. /\ NextStatement(d)
      /\ Writes(d)
      /\ UNCHANGED <<links, number, kgDone, built, kgRequestVars>>
  BY DEF UpsertRoot, UpsertNode
<1>3. /\ graph' \in [KgNodes -> GraphNodes \cup {NoNode}]
      /\ \A n \in LiveNodes' : Once(graph'[n].owners)
  BY <1>1, MergeKeeps DEF OwnersAreThereOnce
<1>4. KnowledgeGraphTypeOK'
  <2>1. NextStatement(d) /\ Writes(d)
    BY <1>2
  <2>2. ingest' \in [KgDocuments -> [running : BOOLEAN, next : Nat, root : KgLaws]]
    BY <2>1, NextTyped
  <2>3. /\ {raced, touched, unclean}' \subseteq SUBSET KgDocuments
        /\ kgRequests' = kgRequests
    BY <2>1, WritesTyped
  <2> QED BY <1>2, <1>3, <2>2, <2>3 DEF KnowledgeGraphTypeOK, kgRequestVars, readVars
<1>5. OwnersAreThereOnce'
  BY <1>2, <1>3 DEF OwnersAreThereOnce, kgRequestVars, readVars
<1>6. ReadsAreOfDeletions'
  BY <1>2 DEF ReadsAreOfDeletions, kgRequestVars, readVars, Deleting
<1> QED BY <1>4, <1>5, <1>6

\* What a deletion leaves of a node: the other owners, in order, and the first
\* of them as its anchor.
LEMMA TrimmedNodes ==
    ASSUME KnowledgeGraphTyped, NEW d \in KgDocuments, DeleteTrimsNodes(d)
    PROVE  /\ graph' \in [KgNodes -> GraphNodes \cup {NoNode}]
           /\ \A n \in LiveNodes' :
                 /\ n \in LiveNodes
                 /\ graph'[n].entity = graph[n].entity
                 /\ Once(graph'[n].owners)
                 /\ OwnersOf(n)' = IF readNodes[d][n] # <<>> THEN ToSet(readNodes[d][n]) \ {d}
                                                             ELSE OwnersOf(n)
           /\ \A n \in LiveNodes \ LiveNodes' :
                 readNodes[d][n] # <<>> /\ ToSet(readNodes[d][n]) = {d}
           /\ \A n, m \in KgNodes : links'[<<n, m>>] =
                 IF {n, m} \cap (LiveNodes \ LiveNodes') # {} THEN {} ELSE links[<<n, m>>]
<1> DEFINE left(n) == Remain(readNodes[d][n], d)
           hit     == {n \in LiveNodes : readNodes[d][n] # <<>>}
           dropped == {n \in hit : left(n) = <<>>}
           node(n) == [graph[n] EXCEPT !.owners = left(n), !.anchor = Head(left(n))]
<1>0. NoNode \notin GraphNodes /\ graph \in [KgNodes -> GraphNodes \cup {NoNode}]
  BY KnowledgeGraphAssumption DEF KnowledgeGraphTyped, KnowledgeGraphTypeOK
<1>1. graph' = [n \in KgNodes |-> IF n \in dropped THEN NoNode
                                  ELSE IF n \in hit THEN node(n) ELSE graph[n]]
  BY DEF DeleteTrimsNodes
<1>2. links' = [p \in KgNodes \X KgNodes |->
                  IF {p[1], p[2]} \cap dropped # {} THEN {} ELSE links[p]]
  BY DEF DeleteTrimsNodes
<1>3. ASSUME NEW n \in hit
      PROVE  /\ n \in KgNodes /\ graph[n] \in GraphNodes
             /\ left(n) \in Seq(KgDocuments)
             /\ ToSet(left(n)) = ToSet(readNodes[d][n]) \ {d}
             /\ Once(left(n))
             /\ left(n) # <<>> => Head(left(n)) \in KgDocuments
             /\ d \in ToSet(readNodes[d][n])
  <2>1. n \in KgNodes /\ graph[n] \in GraphNodes
    BY LiveIsNode DEF KnowledgeGraphTyped
  <2>2. /\ readNodes[d][n] \in Seq(KgDocuments)
        /\ d \in ToSet(readNodes[d][n])
        /\ Once(readNodes[d][n])
    BY <2>1 DEF KnowledgeGraphTyped, KnowledgeGraphTypeOK, ReadsAreOfDeletions,
           OwnersAreThereOnce
  <2> QED BY <2>1, <2>2, RemainOwners
<1>4. ASSUME NEW n \in hit \ dropped
      PROVE  /\ node(n) \in GraphNodes
             /\ node(n).entity = graph[n].entity
             /\ node(n).owners = left(n)
  <2>1. left(n) # <<>>
    OBVIOUS
  <2> QED BY <1>3, <2>1 DEF GraphNodes
<1>5. \A n \in LiveNodes \ hit :
         n \in KgNodes /\ graph[n] \in GraphNodes /\ readNodes[d][n] = <<>>
  BY LiveIsNode DEF KnowledgeGraphTyped
<1>6. ASSUME NEW n \in dropped PROVE ToSet(readNodes[d][n]) = {d}
  <2>1. ToSet(<<>>) = {}
    BY DEF ToSet
  <2> QED BY <1>3, <2>1
<1>7. hit \subseteq LiveNodes /\ dropped \subseteq hit
  OBVIOUS
<1> HIDE DEF left, node, hit, dropped
<1>8. graph' \in [KgNodes -> GraphNodes \cup {NoNode}]
  BY <1>0, <1>1, <1>4
<1>9. /\ \A n \in dropped : graph'[n] = NoNode
      /\ \A n \in hit \ dropped : graph'[n] = node(n)
      /\ \A n \in KgNodes \ hit : graph'[n] = graph[n]
  BY <1>1, <1>3, <1>7
<1>10. LiveNodes' = LiveNodes \ dropped
  BY <1>0, <1>3, <1>4, <1>7, <1>9 DEF LiveNodes
<1>11. ASSUME NEW n \in LiveNodes'
       PROVE  /\ graph'[n].entity = graph[n].entity
              /\ Once(graph'[n].owners)
              /\ OwnersOf(n)' = IF readNodes[d][n] # <<>> THEN ToSet(readNodes[d][n]) \ {d}
                                                         ELSE OwnersOf(n)
  <2>1. CASE n \in hit
    <3>1. graph'[n].entity = graph[n].entity /\ graph'[n].owners = left(n)
      BY <2>1, <1>4, <1>9, <1>10
    <3>2. readNodes[d][n] # <<>>
      BY <2>1 DEF hit
    <3> QED BY <2>1, <3>1, <3>2, <1>3 DEF OwnersOf
  <2>2. CASE n \notin hit
    <3>1. graph'[n] = graph[n] /\ n \in LiveNodes /\ readNodes[d][n] = <<>>
      BY <2>2, <1>5, <1>9, <1>10
    <3> QED BY <3>1 DEF OwnersOf, KnowledgeGraphTyped, OwnersAreThereOnce
  <2> QED BY <2>1, <2>2
<1>12. LiveNodes \ LiveNodes' = dropped
  BY <1>7, <1>10
<1>13. \A n, m \in KgNodes : links'[<<n, m>>] =
          IF {n, m} \cap (LiveNodes \ LiveNodes') # {} THEN {} ELSE links[<<n, m>>]
  BY <1>2, <1>12
<1>14. \A n \in LiveNodes \ LiveNodes' :
          readNodes[d][n] # <<>> /\ ToSet(readNodes[d][n]) = {d}
  BY <1>6, <1>7, <1>12 DEF hit
<1> QED BY <1>8, <1>10, <1>11, <1>13, <1>14

\* Whom an edit concerns are documents: the owners of the nodes and of their
\* relations.
LEMMA ConcernedOwners ==
    ASSUME KnowledgeGraphTypeOK, NEW ns, ns \subseteq LiveNodes
    PROVE  /\ Concerned(ns) \subseteq KgDocuments
           /\ \A n \in ns : OwnersOf(n) \subseteq Concerned(ns)
           /\ \A n, m \in KgNodes :
                 n \in ns \/ m \in ns => links[<<n, m>>] \subseteq Concerned(ns)
<1>1. \A n \in ns : n \in KgNodes /\ OwnersOf(n) \subseteq KgDocuments
  BY LiveIsNode
<1>2. \A n, m \in KgNodes : links[<<n, m>>] \subseteq KgDocuments
  BY DEF KnowledgeGraphTypeOK
<1> QED BY <1>1, <1>2 DEF Concerned

\* mergeNodes drops the stubs and moves their relations; whoever owns something
\* of them is touched.
LEMMA MergedStubs ==
    ASSUME KnowledgeGraphTypeOK, NEW d \in KgDocuments, MergesStubs(d)
    PROVE  \E stubs \in SUBSET LiveNodes :
              /\ graph' = [n \in KgNodes |-> IF n \in stubs THEN NoNode ELSE graph[n]]
              /\ LiveNodes' = LiveNodes \ stubs
              /\ \A n \in stubs : OwnersOf(n) \subseteq touched'
              /\ links' \in [KgNodes \X KgNodes -> SUBSET KgDocuments]
              /\ \A n, m \in KgNodes : {n, m} \cap stubs = {} =>
                    links[<<n, m>>] \subseteq links'[<<n, m>>]
              /\ \A n, m \in KgNodes : \A x \in links'[<<n, m>>] :
                    x \in touched' \/ x \in links[<<n, m>>]
              /\ \A n, m \in KgNodes : \A x \in links'[<<n, m>>] :
                    \E q \in KgNodes \X KgNodes : x \in links[q]
              /\ touched \subseteq touched' /\ touched' \subseteq KgDocuments
<1>1. PICK root \in Anchored(d) :
          LET stubs   == NodesOf(edit[d].to) \ {root}
              into(n) == {n} \cup (IF n = root THEN stubs ELSE {})
          IN  /\ stubs # {}
              /\ graph' = [n \in KgNodes |-> IF n \in stubs THEN NoNode ELSE graph[n]]
              /\ links' = [p \in KgNodes \X KgNodes |->
                    IF {p[1], p[2]} \cap stubs # {} THEN {}
                    ELSE UNION {links[q] : q \in into(p[1]) \X into(p[2])}]
              /\ touched' = touched \cup Concerned(stubs \cup {root})
  BY DEF MergesStubs
<1> DEFINE stubs   == NodesOf(edit[d].to) \ {root}
           into(n) == {n} \cup (IF n = root THEN stubs ELSE {})
<1>2. stubs \subseteq LiveNodes /\ root \in LiveNodes /\ LiveNodes \subseteq KgNodes
  BY DEF Anchored, NodesOf, LiveNodes
<1>3. graph' = [n \in KgNodes |-> IF n \in stubs THEN NoNode ELSE graph[n]]
  BY <1>1
<1>4. \A n, m \in KgNodes : links'[<<n, m>>] =
          IF {n, m} \cap stubs # {} THEN {} ELSE UNION {links[q] : q \in into(n) \X into(m)}
  BY <1>1
<1>5. /\ DOMAIN links' = KgNodes \X KgNodes
      /\ links' = [p \in KgNodes \X KgNodes |-> links'[p]]
  BY <1>1
<1>6. touched' = touched \cup Concerned(stubs \cup {root})
  BY <1>1
<1>7. \A n \in KgNodes : n \in into(n) /\ into(n) \subseteq KgNodes
                         /\ (n = root => into(n) \subseteq stubs \cup {root})
                         /\ (n # root => into(n) = {n})
  BY <1>2
<1> HIDE DEF stubs, into
<1>8. /\ Concerned(stubs \cup {root}) \subseteq KgDocuments
      /\ \A n \in stubs \cup {root} : OwnersOf(n) \subseteq Concerned(stubs \cup {root})
      /\ \A n, m \in KgNodes : n \in stubs \cup {root} \/ m \in stubs \cup {root} =>
            links[<<n, m>>] \subseteq Concerned(stubs \cup {root})
  BY <1>2, ConcernedOwners
<1>9. LiveNodes' = LiveNodes \ stubs
  BY <1>2, <1>3 DEF LiveNodes
<1>10. \A n \in stubs : OwnersOf(n) \subseteq touched'
  BY <1>6, <1>8
<1>11. touched \subseteq touched' /\ touched' \subseteq KgDocuments
  BY <1>6, <1>8 DEF KnowledgeGraphTypeOK
<1>12. ASSUME NEW n \in KgNodes, NEW m \in KgNodes, NEW x \in links'[<<n, m>>]
       PROVE  \E i \in into(n), j \in into(m) : x \in links[<<i, j>>]
  <2>1. x \in UNION {links[q] : q \in into(n) \X into(m)}
    BY <1>4, <1>12
  <2>2. PICK q \in into(n) \X into(m) : x \in links[q]
    BY <2>1
  <2>3. q = <<q[1], q[2]>> /\ q[1] \in into(n) /\ q[2] \in into(m)
    BY <2>2
  <2> QED BY <2>2, <2>3
<1>13. ASSUME NEW n \in KgNodes, NEW m \in KgNodes, NEW x \in links'[<<n, m>>]
       PROVE  /\ \E q \in KgNodes \X KgNodes : x \in links[q]
              /\ x \in touched' \/ x \in links[<<n, m>>]
              /\ x \in KgDocuments
  <2>1. PICK i \in into(n), j \in into(m) : x \in links[<<i, j>>]
    BY <1>12
  <2>2. i \in KgNodes /\ j \in KgNodes /\ <<i, j>> \in KgNodes \X KgNodes
    BY <1>7
  <2>3. x \in KgDocuments
    BY <2>1, <2>2 DEF KnowledgeGraphTypeOK
  <2>4. CASE n # root /\ m # root
    BY <2>1, <2>2, <2>3, <2>4, <1>7
  <2>5. CASE n = root \/ m = root
    <3>1. i \in stubs \cup {root} \/ j \in stubs \cup {root}
      BY <2>5, <1>7
    <3>2. x \in touched'
      BY <2>1, <2>2, <3>1, <1>6, <1>8
    <3> QED BY <2>1, <2>2, <2>3, <3>2
  <2> QED BY <2>4, <2>5
<1>14. ASSUME NEW n \in KgNodes, NEW m \in KgNodes, {n, m} \cap stubs = {}
       PROVE  links[<<n, m>>] \subseteq links'[<<n, m>>]
  <2>1. <<n, m>> \in into(n) \X into(m)
    BY <1>7
  <2>2. links'[<<n, m>>] = UNION {links[q] : q \in into(n) \X into(m)}
    BY <1>4, <1>14
  <2> QED BY <2>1, <2>2
<1>15. links' \in [KgNodes \X KgNodes -> SUBSET KgDocuments]
  <2>1. ASSUME NEW p \in KgNodes \X KgNodes PROVE links'[p] \subseteq KgDocuments
    <3>1. PICK n \in KgNodes, m \in KgNodes : p = <<n, m>>
      OBVIOUS
    <3> QED BY <3>1, <1>13
  <2> QED BY <2>1, <1>5
<1>16. stubs \in SUBSET LiveNodes
  BY <1>2
<1> QED BY <1>3, <1>9, <1>10, <1>11, <1>13, <1>14, <1>15, <1>16

\* A new number is set on nodes whose owners are touched.
LEMMA NumberSet ==
    ASSUME KnowledgeGraphTypeOK, NEW d \in KgDocuments, SetsNumber(d)
    PROVE  /\ graph' \in [KgNodes -> GraphNodes \cup {NoNode}]
           /\ LiveNodes' = LiveNodes
           /\ \A n \in LiveNodes :
                 /\ graph'[n].owners = graph[n].owners
                 /\ graph'[n].entity = graph[n].entity \/ OwnersOf(n) \subseteq touched'
           /\ touched \subseteq touched' /\ touched' \subseteq KgDocuments
<1> DEFINE node(n) == [graph[n] EXCEPT !.entity = edit[d].to]
<1>1. graph' = [n \in KgNodes |-> IF n \in Anchored(d) THEN node(n) ELSE graph[n]]
  BY DEF SetsNumber
<1>2. Anchored(d) \subseteq LiveNodes
  BY DEF Anchored
<1>3. ASSUME NEW n \in Anchored(d)
      PROVE  node(n) \in GraphNodes /\ node(n).owners = graph[n].owners
  <2>1. graph[n] \in GraphNodes
    BY <1>2, LiveIsNode
  <2>2. edit[d].to \in KgEntities
    BY KnowledgeGraphAssumption DEF KnowledgeGraphTypeOK
  <2> QED BY <2>1, <2>2 DEF GraphNodes
<1>4. /\ Concerned(Anchored(d)) \subseteq KgDocuments
      /\ \A n \in Anchored(d) : OwnersOf(n) \subseteq Concerned(Anchored(d))
  BY <1>2, ConcernedOwners
<1>5. touched' = touched \cup Concerned(Anchored(d))
  BY DEF SetsNumber
<1> HIDE DEF node
<1>6. graph' \in [KgNodes -> GraphNodes \cup {NoNode}]
  BY <1>1, <1>3 DEF KnowledgeGraphTypeOK
<1>7. LiveNodes' = LiveNodes
  BY <1>1, <1>2, <1>3, KnowledgeGraphAssumption DEF LiveNodes
<1>8. \A n \in LiveNodes : graph'[n].owners = graph[n].owners
          /\ (graph'[n].entity = graph[n].entity \/ OwnersOf(n) \subseteq touched')
  BY <1>1, <1>3, <1>4, <1>5 DEF LiveNodes
<1> QED BY <1>4, <1>5, <1>6, <1>7, <1>8 DEF KnowledgeGraphTypeOK

\* Requests are counted up to their bound.
LEMMA KgRequestTyped ==
    ASSUME KnowledgeGraphTypeOK, KgRequest \/ kgRequests' = kgRequests
    PROVE  kgRequests' \in 0..MaxKgRequests
<1>1. MaxKgRequests \in Nat /\ kgRequests \in 0..MaxKgRequests
  BY KnowledgeGraphAssumption DEF KnowledgeGraphTypeOK
<1> QED BY <1>1 DEF KgRequest

\* Every step keeps the types, the owners apart, and what is read to deletions.
LEMMA KnowledgeGraphTypedStep ==
    KnowledgeGraphTyped /\ [KnowledgeGraphNext]_knowledgeGraphVars => KnowledgeGraphTyped'
<1> SUFFICES ASSUME KnowledgeGraphTyped, [KnowledgeGraphNext]_knowledgeGraphVars
             PROVE  KnowledgeGraphTyped'
  OBVIOUS
<1> USE DEF KnowledgeGraphTyped
<1>1. ASSUME NEW d \in KgDocuments, StartIngest(d) PROVE KnowledgeGraphTyped'
  <2>1. OwnersAreThereOnce'
    BY <1>1, SameGraph DEF StartIngest, graphVars, kgRequestVars, readVars
  <2>2. KnowledgeGraphTypeOK'
    BY <1>1 DEF StartIngest, KnowledgeGraphTypeOK, graphVars, kgRequestVars, readVars,
           kgHistoryVars
  <2>3. ReadsAreOfDeletions'
    BY <1>1 DEF StartIngest, ReadsAreOfDeletions, Deleting, kgRequestVars, readVars
  <2> QED BY <2>1, <2>2, <2>3
<1>2. ASSUME NEW d \in KgDocuments, UpsertRoot(d) \/ UpsertNode(d)
      PROVE KnowledgeGraphTyped'
  BY <1>2, MergeTyped
<1>3. ASSUME NEW d \in KgDocuments, UpsertRelation(d) PROVE KnowledgeGraphTyped'
  <2>1. OwnersAreThereOnce'
    BY <1>3, SameGraph DEF UpsertRelation, kgRequestVars, readVars
  <2>2. KnowledgeGraphTypeOK'
    <3>1. NextStatement(d) /\ Writes(d)
      BY <1>3 DEF UpsertRelation
    <3>2. ingest' \in [KgDocuments -> [running : BOOLEAN, next : Nat, root : KgLaws]]
      BY <3>1, NextTyped
    <3>3. /\ {raced, touched, unclean}' \subseteq SUBSET KgDocuments
          /\ kgRequests' = kgRequests
      BY <3>1, WritesTyped
    <3>4. links' \in [KgNodes \X KgNodes -> SUBSET KgDocuments]
      BY <1>3 DEF UpsertRelation, KnowledgeGraphTypeOK
    <3> QED BY <1>3, <3>2, <3>3, <3>4 DEF UpsertRelation, KnowledgeGraphTypeOK,
                   kgRequestVars, readVars
  <2>3. ReadsAreOfDeletions'
    BY <1>3 DEF UpsertRelation, ReadsAreOfDeletions, Deleting, kgRequestVars, readVars
  <2> QED BY <2>1, <2>2, <2>3
<1>4. ASSUME NEW d \in KgDocuments, IngestEnds(d) \/ IngestBreaks(d)
      PROVE KnowledgeGraphTyped'
  <2>0. /\ UNCHANGED <<graph, links, number, cleanUp, readLinks, readNodes, edit, raced,
                       touched, unclean>>
        /\ ingest' = [ingest EXCEPT ![d].running = FALSE]
        /\ built' \subseteq built \cup {d} /\ kgDone' \subseteq kgDone \cup {d}
        /\ kgRequests' = kgRequests \/ KgRequest
    BY <1>4 DEF IngestEnds, IngestBreaks, graphVars, kgRequestVars, readVars, kgHistoryVars
  <2>1. OwnersAreThereOnce'
    BY <2>0, SameGraph
  <2>2. KnowledgeGraphTypeOK'
    <3>1. kgRequests' \in 0..MaxKgRequests
      BY <2>0, KgRequestTyped DEF KnowledgeGraphTypeOK
    <3>2. ingest' \in [KgDocuments -> [running : BOOLEAN, next : Nat, root : KgLaws]]
      <4> DEFINE i == [ingest[d] EXCEPT !.running = FALSE]
      <4>1. /\ ingest[d] \in [running : BOOLEAN, next : Nat, root : KgLaws]
            /\ ingest \in [KgDocuments -> [running : BOOLEAN, next : Nat, root : KgLaws]]
        BY DEF KnowledgeGraphTypeOK
      <4>2. ingest' = [ingest EXCEPT ![d] = i]
        BY <2>0, <4>1
      <4>3. i \in [running : BOOLEAN, next : Nat, root : KgLaws]
        BY <4>1
      <4> QED BY <4>1, <4>2, <4>3
    <3>3. built' \subseteq KgDocuments /\ kgDone' \subseteq KgDocuments
      BY <2>0 DEF KnowledgeGraphTypeOK
    <3> QED BY <2>0, <3>1, <3>2, <3>3 DEF KnowledgeGraphTypeOK
  <2>3. ReadsAreOfDeletions'
    BY <2>0 DEF ReadsAreOfDeletions, Deleting
  <2> QED BY <2>1, <2>2, <2>3
<1>5. ASSUME NEW d \in KgDocuments, DeleteBegins(d) PROVE KnowledgeGraphTyped'
  <2>0. /\ UNCHANGED <<graph, links, number, ingest, kgDone, built, readLinks, readNodes, edit,
                       raced, touched, unclean>>
        /\ cleanUp[d].pass = 0 /\ KgRequest
        /\ cleanUp' = [cleanUp EXCEPT ![d] = [pass |-> 1, at |-> "links"]]
    BY <1>5 DEF DeleteBegins, graphVars, kgWorkVars, readVars
  <2>1. OwnersAreThereOnce'
    BY <2>0, SameGraph
  <2>2. KnowledgeGraphTypeOK'
    <3>1. kgRequests' \in 0..MaxKgRequests
      BY <2>0, KgRequestTyped DEF KnowledgeGraphTypeOK
    <3>2. cleanUp' \in [KgDocuments ->
             [pass : 0..3, at : {"links", "linksRead", "nodes", "nodesRead"}]]
      BY <2>0 DEF KnowledgeGraphTypeOK
    <3> QED BY <2>0, <3>1, <3>2 DEF KnowledgeGraphTypeOK
  <2>3. ReadsAreOfDeletions'
    BY <2>0 DEF ReadsAreOfDeletions, Deleting, KnowledgeGraphTypeOK
  <2> QED BY <2>1, <2>2, <2>3
<1>6. ASSUME NEW d \in KgDocuments, DeleteReadsLinks(d) PROVE KnowledgeGraphTyped'
  <2>0. /\ UNCHANGED <<graph, links, number, ingest, kgDone, built, readNodes, edit,
                       raced, touched, unclean, kgRequests>>
        /\ Deleting(d) /\ cleanUp[d].at = "links"
        /\ cleanUp' = [cleanUp EXCEPT ![d].at = "linksRead"]
        /\ readLinks' = [readLinks EXCEPT ![d] =
              [p \in KgNodes \X KgNodes |-> IF d \in links[p] THEN links[p] ELSE {}]]
    BY <1>6 DEF DeleteReadsLinks, CleanUpGoes, graphVars, kgWorkVars, kgHistoryVars
  <2>1. OwnersAreThereOnce'
    BY <2>0, SameGraph
  <2>2. KnowledgeGraphTypeOK'
    BY <2>0 DEF KnowledgeGraphTypeOK
  <2>3. ReadsAreOfDeletions'
    BY <2>0 DEF ReadsAreOfDeletions, Deleting, KnowledgeGraphTypeOK
  <2> QED BY <2>1, <2>2, <2>3
<1>7. ASSUME NEW d \in KgDocuments, DeleteTrimsLinks(d) PROVE KnowledgeGraphTyped'
  <2>0. /\ UNCHANGED <<graph, number, ingest, kgDone, built, readNodes, edit,
                       touched, unclean, kgRequests>>
        /\ raced' \subseteq raced \cup Computing
        /\ Deleting(d) /\ cleanUp[d].at = "linksRead"
        /\ cleanUp' = [cleanUp EXCEPT ![d].at = "nodes"]
        /\ readLinks' = [readLinks EXCEPT ![d] = NoLinks]
        /\ links' = [p \in KgNodes \X KgNodes |->
              IF links[p] # {} /\ readLinks[d][p] # {} THEN readLinks[d][p] \ {d} ELSE links[p]]
    BY <1>7 DEF DeleteTrimsLinks, CleanUpGoes, TrimsRace, kgWorkVars
  <2>1. OwnersAreThereOnce'
    BY <2>0, SameGraph
  <2>2. KnowledgeGraphTypeOK'
    <3>1. raced' \subseteq KgDocuments
      BY <2>0 DEF KnowledgeGraphTypeOK, Computing
    <3>2. readLinks' \in [KgDocuments -> [KgNodes \X KgNodes -> SUBSET KgDocuments]]
      BY <2>0 DEF NoLinks, KnowledgeGraphTypeOK
    <3>3. links' \in [KgNodes \X KgNodes -> SUBSET KgDocuments]
      BY <2>0 DEF KnowledgeGraphTypeOK
    <3>4. cleanUp' \in [KgDocuments ->
             [pass : 0..3, at : {"links", "linksRead", "nodes", "nodesRead"}]]
      BY <2>0 DEF KnowledgeGraphTypeOK
    <3>5. {raced, touched, unclean}' \subseteq SUBSET KgDocuments
      BY <2>0, <3>1 DEF KnowledgeGraphTypeOK
    <3> QED BY <2>0, <3>2, <3>3, <3>4, <3>5 DEF KnowledgeGraphTypeOK
  <2>3. ReadsAreOfDeletions'
    BY <2>0 DEF ReadsAreOfDeletions, Deleting, KnowledgeGraphTypeOK, NoLinks
  <2> QED BY <2>1, <2>2, <2>3
<1>8. ASSUME NEW d \in KgDocuments, DeleteReadsNodes(d) PROVE KnowledgeGraphTyped'
  <2> DEFINE owners == [n \in KgNodes |->
                IF n \in LiveNodes /\ d \in OwnersOf(n) THEN graph[n].owners ELSE <<>>]
  <2>0. /\ UNCHANGED <<graph, links, number, ingest, kgDone, built, readLinks, edit,
                       raced, touched, unclean, kgRequests>>
        /\ Deleting(d) /\ cleanUp[d].at = "nodes"
        /\ cleanUp' = [cleanUp EXCEPT ![d].at = "nodesRead"]
        /\ readNodes' = [readNodes EXCEPT ![d] = owners]
    BY <1>8 DEF DeleteReadsNodes, CleanUpGoes, graphVars, kgWorkVars, kgHistoryVars
  <2>1. /\ owners \in [KgNodes -> Seq(KgDocuments)]
        /\ \A n \in KgNodes : Once(owners[n])
        /\ \A n \in KgNodes : owners[n] # <<>> => d \in ToSet(owners[n])
    <3>1. ASSUME NEW n \in KgNodes
          PROVE  /\ owners[n] \in Seq(KgDocuments)
                 /\ Once(owners[n])
                 /\ owners[n] # <<>> => d \in ToSet(owners[n])
      <4>1. CASE n \in LiveNodes /\ d \in OwnersOf(n)
        <5>1. graph[n].owners \in Seq(KgDocuments)
          BY <4>1, LiveIsNode DEF GraphNodes
        <5> QED BY <4>1, <5>1 DEF OwnersAreThereOnce, OwnersOf
      <4>2. CASE ~(n \in LiveNodes /\ d \in OwnersOf(n))
        <5>1. owners[n] = <<>>
          BY <4>2
        <5>2. <<>> \in Seq(KgDocuments) /\ Once(<<>>)
          BY DEF Once
        <5> QED BY <5>1, <5>2
      <4> QED BY <4>1, <4>2
    <3> QED BY <3>1
  <2> HIDE DEF owners
  <2>2. OwnersAreThereOnce'
    BY <2>0, <2>1 DEF OwnersAreThereOnce, KnowledgeGraphTypeOK, LiveNodes
  <2>3. KnowledgeGraphTypeOK'
    BY <2>0, <2>1 DEF KnowledgeGraphTypeOK
  <2>4. ReadsAreOfDeletions'
    BY <2>0, <2>1 DEF ReadsAreOfDeletions, Deleting, KnowledgeGraphTypeOK
  <2> QED BY <2>2, <2>3, <2>4
<1>9. ASSUME NEW d \in KgDocuments, DeleteTrimsNodes(d) PROVE KnowledgeGraphTyped'
  <2>0. /\ UNCHANGED <<number, ingest, kgDone, built, readLinks, edit,
                       touched, unclean, kgRequests>>
        /\ raced' \subseteq raced \cup Computing
        /\ Deleting(d) /\ cleanUp[d].at = "nodesRead"
        /\ cleanUp' = [cleanUp EXCEPT ![d] = AfterPass(d)]
        /\ readNodes' = [readNodes EXCEPT ![d] = NothingRead]
    BY <1>9 DEF DeleteTrimsNodes, TrimsRace, kgWorkVars
  <2>1. /\ graph' \in [KgNodes -> GraphNodes \cup {NoNode}]
        /\ \A n \in LiveNodes' : Once(graph'[n].owners)
    BY <1>9, TrimmedNodes
  <2>2. links' \in [KgNodes \X KgNodes -> SUBSET KgDocuments]
    BY <1>9 DEF DeleteTrimsNodes, KnowledgeGraphTypeOK
  <2>3. /\ NothingRead \in [KgNodes -> Seq(KgDocuments)]
        /\ \A n \in KgNodes : Once(NothingRead[n])
    BY DEF NothingRead, Once
  <2>4. OwnersAreThereOnce'
    BY <2>0, <2>1, <2>3 DEF OwnersAreThereOnce, KnowledgeGraphTypeOK
  <2>5. KnowledgeGraphTypeOK'
    <3>1. cleanUp' \in [KgDocuments ->
             [pass : 0..3, at : {"links", "linksRead", "nodes", "nodesRead"}]]
      BY <2>0 DEF KnowledgeGraphTypeOK, AfterPass, Deleting
    <3>2. raced' \subseteq KgDocuments
      BY <2>0 DEF KnowledgeGraphTypeOK, Computing
    <3>3. readNodes' \in [KgDocuments -> [KgNodes -> Seq(KgDocuments)]]
      BY <2>0, <2>3 DEF KnowledgeGraphTypeOK
    <3>4. {raced, touched, unclean}' \subseteq SUBSET KgDocuments
      BY <2>0, <3>2 DEF KnowledgeGraphTypeOK
    <3> QED BY <2>0, <2>1, <2>2, <3>1, <3>3, <3>4 DEF KnowledgeGraphTypeOK
  <2>6. ReadsAreOfDeletions'
    BY <2>0 DEF ReadsAreOfDeletions, Deleting, KnowledgeGraphTypeOK, NothingRead
  <2> QED BY <2>4, <2>5, <2>6
<1>10. ASSUME NEW d \in KgDocuments, DeletePassFails(d) PROVE KnowledgeGraphTyped'
  <2>0. /\ UNCHANGED <<graph, links, number, ingest, kgDone, built, edit, touched, raced>>
        /\ unclean' \subseteq unclean \cup {d}
        /\ Deleting(d) /\ KgRequest
        /\ cleanUp' = [cleanUp EXCEPT ![d] = AfterPass(d)]
        /\ readLinks' = [readLinks EXCEPT ![d] = NoLinks]
        /\ readNodes' = [readNodes EXCEPT ![d] = NothingRead]
    BY <1>10 DEF DeletePassFails, graphVars, kgWorkVars
  <2>1. /\ NothingRead \in [KgNodes -> Seq(KgDocuments)]
        /\ \A n \in KgNodes : Once(NothingRead[n])
    BY DEF NothingRead, Once
  <2>2. OwnersAreThereOnce'
    BY <2>0, <2>1 DEF OwnersAreThereOnce, KnowledgeGraphTypeOK, LiveNodes
  <2>3. KnowledgeGraphTypeOK'
    <3>1. cleanUp' \in [KgDocuments ->
             [pass : 0..3, at : {"links", "linksRead", "nodes", "nodesRead"}]]
      BY <2>0 DEF KnowledgeGraphTypeOK, AfterPass, Deleting
    <3>2. kgRequests' \in 0..MaxKgRequests
      BY <2>0, KgRequestTyped
    <3>3. readLinks' \in [KgDocuments -> [KgNodes \X KgNodes -> SUBSET KgDocuments]]
      BY <2>0 DEF NoLinks, KnowledgeGraphTypeOK
    <3>4. readNodes' \in [KgDocuments -> [KgNodes -> Seq(KgDocuments)]]
      BY <2>0, <2>1 DEF KnowledgeGraphTypeOK
    <3>5. unclean' \subseteq KgDocuments
      BY <2>0 DEF KnowledgeGraphTypeOK
    <3> QED BY <2>0, <3>1, <3>2, <3>3, <3>4, <3>5 DEF KnowledgeGraphTypeOK
  <2>4. ReadsAreOfDeletions'
    BY <2>0 DEF ReadsAreOfDeletions, Deleting, KnowledgeGraphTypeOK, NothingRead, NoLinks
  <2> QED BY <2>2, <2>3, <2>4
<1>11. ASSUME NEW d \in KgDocuments,
              (\E e \in KgLaws : EditsNumber(d, e)) \/ LooksForStubs(d) \/ MergesNothing(d)
                 \/ EditFails(d)
       PROVE  KnowledgeGraphTyped'
  <2>0. UNCHANGED <<graph, links, ingest, kgDone, built, cleanUp, readLinks, readNodes,
                    raced, touched, unclean>>
    BY <1>11 DEF EditsNumber, LooksForStubs, MergesNothing, EditFails, graphVars,
           kgWorkVars,
                 readVars, kgHistoryVars
  <2>1. OwnersAreThereOnce'
    BY <2>0, SameGraph
  <2>2. edit' \in [KgDocuments -> [at : {"none", "found", "merge", "set"}, to : KgLaws]]
        /\ number' \in [KgDocuments -> KgLaws]
    <3>1. CASE \E e \in KgLaws : EditsNumber(d, e)
      BY <3>1 DEF EditsNumber, KnowledgeGraphTypeOK
    <3>2. CASE LooksForStubs(d) \/ MergesNothing(d) \/ EditFails(d)
      <4>1. /\ number' = number
            /\ \E at \in {"none", "merge", "set"} : edit' = [edit EXCEPT ![d].at = at]
        BY <3>2 DEF LooksForStubs, MergesNothing, EditFails, kgWorkVars
      <4>2. PICK at \in {"none", "merge", "set"} : edit' = [edit EXCEPT ![d].at = at]
        BY <4>1
      <4>3. edit[d] \in [at : {"none", "found", "merge", "set"}, to : KgLaws]
        BY DEF KnowledgeGraphTypeOK
      <4>4. [edit[d] EXCEPT !.at = at] \in [at : {"none", "found", "merge", "set"}, to : KgLaws]
        BY <4>3
      <4>5. edit' = [edit EXCEPT ![d] = [edit[d] EXCEPT !.at = at]]
        BY <4>2
      <4> QED BY <4>1, <4>4, <4>5 DEF KnowledgeGraphTypeOK
    <3> QED BY <1>11, <3>1, <3>2
  <2>3. kgRequests' \in 0..MaxKgRequests
    <3>1. kgRequests' = kgRequests \/ KgRequest
      BY <1>11 DEF EditsNumber, LooksForStubs, MergesNothing, EditFails, kgHistoryVars
    <3> QED BY <3>1, KgRequestTyped
  <2>4. KnowledgeGraphTypeOK'
    BY <2>0, <2>2, <2>3 DEF KnowledgeGraphTypeOK
  <2>5. ReadsAreOfDeletions'
    BY <2>0 DEF ReadsAreOfDeletions, Deleting
  <2> QED BY <2>1, <2>4, <2>5
<1>12. ASSUME NEW d \in KgDocuments, MergesStubs(d) PROVE KnowledgeGraphTyped'
  <2>0. /\ UNCHANGED <<number, ingest, kgDone, built, cleanUp, readLinks, readNodes,
                       unclean, kgRequests>>
        /\ raced' = raced \cup Computing
        /\ edit' = [edit EXCEPT ![d].at = "set"]
    BY <1>12 DEF MergesStubs, kgWorkVars, readVars
  <2>1. PICK stubs \in SUBSET LiveNodes :
           /\ graph' = [n \in KgNodes |-> IF n \in stubs THEN NoNode ELSE graph[n]]
           /\ LiveNodes' = LiveNodes \ stubs
           /\ links' \in [KgNodes \X KgNodes -> SUBSET KgDocuments]
           /\ touched' \subseteq KgDocuments
    BY <1>12, MergedStubs
  <2>2. OwnersAreThereOnce'
    BY <2>0, <2>1 DEF OwnersAreThereOnce, LiveNodes
  <2>3. KnowledgeGraphTypeOK'
    BY <2>0, <2>1 DEF KnowledgeGraphTypeOK, Computing
  <2>4. ReadsAreOfDeletions'
    BY <2>0 DEF ReadsAreOfDeletions, Deleting
  <2> QED BY <2>2, <2>3, <2>4
<1>13. ASSUME NEW d \in KgDocuments, SetsNumber(d) PROVE KnowledgeGraphTyped'
  <2>0. /\ UNCHANGED <<links, number, ingest, kgDone, built, cleanUp, readLinks, readNodes,
                       raced, unclean, kgRequests>>
        /\ edit' = [edit EXCEPT ![d].at = "none"]
    BY <1>13 DEF SetsNumber, kgWorkVars, readVars
  <2>1. /\ graph' \in [KgNodes -> GraphNodes \cup {NoNode}]
        /\ LiveNodes' = LiveNodes
        /\ \A n \in LiveNodes : graph'[n].owners = graph[n].owners
        /\ touched' \subseteq KgDocuments
    BY <1>13, NumberSet
  <2>2. OwnersAreThereOnce'
    BY <2>0, <2>1 DEF OwnersAreThereOnce
  <2>3. KnowledgeGraphTypeOK'
    BY <2>0, <2>1 DEF KnowledgeGraphTypeOK
  <2>4. ReadsAreOfDeletions'
    BY <2>0 DEF ReadsAreOfDeletions, Deleting
  <2> QED BY <2>2, <2>3, <2>4
<1>14. CASE UNCHANGED knowledgeGraphVars
  <2>0. UNCHANGED <<graph, links, number, ingest, kgDone, built, cleanUp, readLinks, readNodes,
                    edit, raced, touched, unclean, kgRequests>>
    BY <1>14 DEF knowledgeGraphVars, graphVars, kgWorkVars, kgRequestVars, kgHistoryVars,
           readVars
  <2> QED BY <2>0 DEF KnowledgeGraphTypeOK, OwnersAreThereOnce, ReadsAreOfDeletions,
                 Deleting, LiveNodes
<1> QED BY <1>1, <1>2, <1>3, <1>4, <1>5, <1>6, <1>7, <1>8, <1>9, <1>10, <1>11, <1>12, <1>13,
           <1>14 DEF KnowledgeGraphNext

\* At the beginning the graph is empty.
LEMMA KnowledgeGraphTypedInit == KnowledgeGraphInit => KnowledgeGraphTyped
<1> SUFFICES ASSUME KnowledgeGraphInit PROVE KnowledgeGraphTyped
  OBVIOUS
<1> USE DEF KnowledgeGraphInit
<1>1. KnowledgeGraphTypeOK
  <2>1. NothingRead \in [KgNodes -> Seq(KgDocuments)]
    BY DEF NothingRead
  <2>2. NoLinks \in [KgNodes \X KgNodes -> SUBSET KgDocuments]
    BY DEF NoLinks
  <2> QED BY <2>1, <2>2, KnowledgeGraphAssumption DEF KnowledgeGraphTypeOK
<1>2. OwnersAreThereOnce
  BY DEF OwnersAreThereOnce, LiveNodes, Once, NothingRead
<1>3. ReadsAreOfDeletions
  BY DEF ReadsAreOfDeletions, NothingRead, NoLinks
<1> QED BY <1>1, <1>2, <1>3 DEF KnowledgeGraphTyped

\* The variables of the graph keep their types.
THEOREM KnowledgeGraphIsTyped == KnowledgeGraphSpec => []KnowledgeGraphTypeOK
BY KnowledgeGraphTypedInit, KnowledgeGraphTypedStep, PTL DEF KnowledgeGraphSpec,
       KnowledgeGraphTyped

-----------------------------------------------------------------------------
\* An ingest that ran to its end ran through its statements, and does not start
\* again.
BuiltIsDone ==
    \A d \in built :
        ~ingest[d].running /\ d \in kgDone /\ ingest[d].next > 2 * Len(Mentions[d])

\* What deletions have read of d's ownership is still so.
ReadsAgree(d) ==
    \A x \in KgDocuments :
        /\ \A n \in KgNodes : readNodes[x][n] # <<>> =>
              (d \in ToSet(readNodes[x][n]) <=> Owns(d, n))
        /\ \A n, m \in KgNodes :
              (readLinks[x][<<n, m>>] # {} /\ Owns(d, n) /\ Owns(d, m)) =>
                 (d \in readLinks[x][<<n, m>>] <=> d \in links[<<n, m>>])

\* It owns a node of the entity, and a relation of two of them.
HasNode(d, e) == \E n \in KgNodes : Owns(d, n) /\ graph[n].entity = e
HasRelation(d, e, f) ==
    \E n, m \in KgNodes : /\ Owns(d, n) /\ graph[n].entity = e
                          /\ Owns(d, m) /\ graph[m].entity = f
                          /\ d \in links[<<n, m>>]

\* What the statements up to here contributed is there.
Contributes(d) ==
    ingest[d].running \/ d \in built =>
        /\ ingest[d].next > 0 => HasNode(d, ingest[d].root)
        /\ \A i \in 1..Len(Mentions[d]) :
              /\ ingest[d].next >= 2 * i => HasNode(d, Mentions[d][i])
              /\ ingest[d].next > 2 * i => HasRelation(d, ingest[d].root, Mentions[d][i])

\* So for every document that has neither raced nor been touched by an edit.
Survives ==
    \A d \in KgDocuments :
        (cleanUp[d].pass = 0 /\ d \notin raced \cup touched) =>
           ReadsAgree(d) /\ Contributes(d)

\* Nobody names d: neither the graph nor what another deletion has read of it.
LinksGone(d) ==
    \A p \in KgNodes \X KgNodes :
        d \notin links[p] /\ \A y \in KgDocuments \ {d} : d \notin readLinks[y][p]
NodesGone(d) ==
    \A n \in KgNodes :
        ~Owns(d, n) /\ \A y \in KgDocuments \ {d} : d \notin ToSet(readNodes[y][n])

\* A deletion has read all that it is to trim, and what it trimmed stays away.
Leaves(d) ==
    /\ (Deleting(d) /\ cleanUp[d].at = "linksRead") =>
          \A p \in KgNodes \X KgNodes : d \in links[p] => readLinks[d][p] # {}
    /\ (Deleting(d) /\ cleanUp[d].at \in {"nodes", "nodesRead"}) \/ Deleted(d) =>
          LinksGone(d)
    /\ (Deleting(d) /\ cleanUp[d].at = "nodesRead") =>
          \A n \in KgNodes : Owns(d, n) => readNodes[d][n] # <<>>
    /\ Deleted(d) => NodesGone(d)

\* So for every document that has not raced and was cleaned up.
Vanishes == \A d \in KgDocuments \ (raced \cup unclean) : Leaves(d)

\* The inductive invariant.
KnowledgeGraphInv == KnowledgeGraphTyped /\ BuiltIsDone /\ Survives /\ Vanishes

\* The invariant is what the property asks for.
LEMMA InvIsExact == KnowledgeGraphInv => OwnershipIsExact
<1> SUFFICES ASSUME KnowledgeGraphInv PROVE OwnershipIsExact
  OBVIOUS
<1> USE DEF KnowledgeGraphInv, KnowledgeGraphTyped
<1>1. ContributionSurvives
  <2> SUFFICES ASSUME NEW d \in built, cleanUp[d].pass = 0, d \notin raced \cup touched,
                      NEW e \in ToSet(Mentions[d])
               PROVE  \E p \in NodesOf(ingest[d].root) \X NodesOf(e) :
                         d \in links[p] /\ d \in OwnersOf(p[1]) /\ d \in OwnersOf(p[2])
    BY DEF ContributionSurvives
  <2>1. d \in KgDocuments /\ Contributes(d)
    BY DEF Survives, KnowledgeGraphTypeOK
  <2>2. Mentions[d] \in Seq(KgEntities)
    BY <2>1, KnowledgeGraphAssumption
  <2>3. PICK i \in 1..Len(Mentions[d]) : e = Mentions[d][i]
    BY <2>2 DEF ToSet
  <2>4. ingest[d].next > 2 * i
    <3>1. Len(Mentions[d]) \in Nat /\ ingest[d].next \in Nat
      BY <2>1, <2>2 DEF KnowledgeGraphTypeOK
    <3> QED BY <3>1 DEF BuiltIsDone
  <2>5. HasRelation(d, ingest[d].root, e)
    BY <2>1, <2>3, <2>4 DEF Contributes
  <2>6. PICK n, m \in KgNodes : /\ Owns(d, n) /\ graph[n].entity = ingest[d].root
                                /\ Owns(d, m) /\ graph[m].entity = e
                                /\ d \in links[<<n, m>>]
    BY <2>5 DEF HasRelation
  <2>7. <<n, m>> \in NodesOf(ingest[d].root) \X NodesOf(e)
    BY <2>6 DEF NodesOf, Owns
  <2> QED BY <2>6, <2>7 DEF Owns
<1>2. NothingLeftBehind
  BY DEF NothingLeftBehind, Vanishes, Leaves, LinksGone, NodesGone, Owns, LiveNodes
<1> QED BY <1>1, <1>2 DEF OwnershipIsExact

\* At the beginning nothing is owned.
LEMMA KnowledgeGraphInvInit == KnowledgeGraphInit => KnowledgeGraphInv
<1> SUFFICES ASSUME KnowledgeGraphInit PROVE KnowledgeGraphInv
  OBVIOUS
<1>1. KnowledgeGraphTyped
  BY KnowledgeGraphTypedInit
<1> USE DEF KnowledgeGraphInit
<1>2. BuiltIsDone
  BY DEF BuiltIsDone
<1>3. Survives
  BY DEF Survives, ReadsAgree, Contributes, NothingRead, NoLinks
<1>4. Vanishes
  BY DEF Vanishes, Leaves, Deleting, Deleted
<1> QED BY <1>1, <1>2, <1>3, <1>4 DEF KnowledgeGraphInv

\* An ingest that ended is over.
LEMMA BuiltStep ==
    ASSUME KnowledgeGraphInv, NEW z \in KgDocuments,
           \/ StartIngest(z) \/ UpsertRoot(z) \/ UpsertNode(z) \/ UpsertRelation(z)
           \/ IngestEnds(z) \/ IngestBreaks(z)
    PROVE  BuiltIsDone'
<1> USE DEF KnowledgeGraphInv, KnowledgeGraphTyped
<1>1. CASE StartIngest(z)
  BY <1>1 DEF StartIngest, BuiltIsDone, KnowledgeGraphTypeOK
<1>2. CASE UpsertRoot(z) \/ UpsertNode(z) \/ UpsertRelation(z)
  <2>1. ingest[z].running /\ NextStatement(z) /\ UNCHANGED <<built, kgDone>>
    BY <1>2 DEF UpsertRoot, UpsertNode, UpsertRelation
  <2> QED BY <2>1 DEF NextStatement, BuiltIsDone, KnowledgeGraphTypeOK
<1>3. CASE IngestEnds(z)
  <2>1. /\ ~(ingest[z].next <= 2 * Len(Mentions[z]))
        /\ ingest' = [ingest EXCEPT ![z].running = FALSE]
        /\ kgDone' = kgDone \cup {z} /\ built' = built \cup {z}
    BY <1>3 DEF IngestEnds, More
  <2>2. ingest[z].next \in Nat /\ Len(Mentions[z]) \in Nat
    BY KnowledgeGraphAssumption DEF KnowledgeGraphTypeOK
  <2>3. ingest[z].next > 2 * Len(Mentions[z])
    BY <2>1, <2>2
  <2>4. \A d \in KgDocuments : ingest'[d].next = ingest[d].next
    BY <2>1 DEF KnowledgeGraphTypeOK
  <2>5. \A d \in KgDocuments : ~ingest[d].running \/ d = z => ~ingest'[d].running
    BY <2>1 DEF KnowledgeGraphTypeOK
  <2> QED BY <2>1, <2>3, <2>4, <2>5 DEF BuiltIsDone, KnowledgeGraphTypeOK
<1>4. CASE IngestBreaks(z)
  BY <1>4 DEF IngestBreaks, BuiltIsDone, KnowledgeGraphTypeOK
<1> QED BY <1>1, <1>2, <1>3, <1>4

-----------------------------------------------------------------------------
\* What d owns stays as it is.
Steady(d) ==
    /\ \A n \in KgNodes : Owns(d, n)' <=> Owns(d, n)
    /\ \A n \in KgNodes : Owns(d, n) => graph'[n].entity = graph[n].entity
    /\ \A n, m \in KgNodes : (Owns(d, n) /\ Owns(d, m)) =>
          (d \in links'[<<n, m>>] <=> d \in links[<<n, m>>])

\* Then its contribution stays.
LEMMA SteadyContributes ==
    ASSUME NEW d \in KgDocuments, Steady(d), Contributes(d),
           ingest'[d] = ingest[d], d \in built' => d \in built
    PROVE  Contributes(d)'
<1>1. \A e : HasNode(d, e) => HasNode(d, e)'
  BY DEF HasNode, Steady
<1>2. \A e, f : HasRelation(d, e, f) => HasRelation(d, e, f)'
  BY DEF HasRelation, Steady
<1> QED BY <1>1, <1>2 DEF Contributes

\* Then what was read of it before, and what is read now, is still so.
LEMMA SteadyReads ==
    ASSUME NEW d \in KgDocuments, Steady(d), ReadsAgree(d),
           \A x \in KgDocuments, n \in KgNodes :
              \/ readNodes'[x][n] \in {readNodes[x][n], <<>>}
              \/ n \in LiveNodes /\ readNodes'[x][n] = graph[n].owners,
           \A x \in KgDocuments, n, m \in KgNodes :
              readLinks'[x][<<n, m>>] \in {readLinks[x][<<n, m>>], {}, links[<<n, m>>]}
    PROVE  ReadsAgree(d)'
<1> SUFFICES ASSUME NEW x \in KgDocuments
             PROVE  /\ \A n \in KgNodes : readNodes'[x][n] # <<>> =>
                          (d \in ToSet(readNodes'[x][n]) <=> Owns(d, n)')
                    /\ \A n, m \in KgNodes :
                          (readLinks'[x][<<n, m>>] # {} /\ Owns(d, n)' /\ Owns(d, m)') =>
                             (d \in readLinks'[x][<<n, m>>] <=> d \in links'[<<n, m>>])
  BY DEF ReadsAgree
<1>1. ASSUME NEW n \in KgNodes, readNodes'[x][n] # <<>>
      PROVE  d \in ToSet(readNodes'[x][n]) <=> Owns(d, n)'
  <2>1. CASE readNodes'[x][n] = readNodes[x][n]
    BY <1>1, <2>1 DEF ReadsAgree, Steady
  <2>2. CASE n \in LiveNodes /\ readNodes'[x][n] = graph[n].owners
    BY <2>2 DEF Owns, OwnersOf, Steady
  <2> QED BY <1>1, <2>1, <2>2
<1>2. ASSUME NEW n \in KgNodes, NEW m \in KgNodes, readLinks'[x][<<n, m>>] # {},
             Owns(d, n)', Owns(d, m)'
      PROVE  d \in readLinks'[x][<<n, m>>] <=> d \in links'[<<n, m>>]
  <2>1. Owns(d, n) /\ Owns(d, m)
    BY <1>2 DEF Steady
  <2>2. CASE readLinks'[x][<<n, m>>] = readLinks[x][<<n, m>>]
    BY <1>2, <2>1, <2>2 DEF ReadsAgree, Steady
  <2>3. CASE readLinks'[x][<<n, m>>] = links[<<n, m>>]
    BY <2>1, <2>3 DEF Steady
  <2> QED BY <1>2, <2>2, <2>3
<1> QED BY <1>1, <1>2

\* While nobody computes, nothing is read.
LEMMA NobodyReads ==
    ASSUME KnowledgeGraphTyped, Computing = {}
    PROVE  \A x \in KgDocuments :
              /\ \A n \in KgNodes : readNodes[x][n] = <<>>
              /\ \A n, m \in KgNodes : readLinks[x][<<n, m>>] = {}
BY DEF KnowledgeGraphTyped, ReadsAreOfDeletions, Computing

\* What d writes itself it has, and it does not write while someone computes.
LEMMA OwnWritesSurvive ==
    ASSUME KnowledgeGraphInv, NEW d \in KgDocuments,
           UpsertRoot(d) \/ UpsertNode(d) \/ UpsertRelation(d),
           Contributes(d), d \notin raced'
    PROVE  ReadsAgree(d)' /\ Contributes(d)'
<1> USE DEF KnowledgeGraphInv, KnowledgeGraphTyped
<1>1. /\ NextStatement(d) /\ Writes(d) /\ ingest[d].running
      /\ UNCHANGED <<built, readNodes, readLinks>>
  BY DEF UpsertRoot, UpsertNode, UpsertRelation, kgRequestVars, readVars
<1>2. Computing = {}
  BY <1>1 DEF Writes
<1>3. ReadsAgree(d)'
  BY <1>1, <1>2, NobodyReads DEF ReadsAgree
<1>4. d \notin built
  BY <1>1 DEF BuiltIsDone
<1>5. /\ ingest'[d].next = ingest[d].next + 1 /\ ingest'[d].root = ingest[d].root
      /\ ingest[d].next \in Nat
  BY <1>1 DEF NextStatement, KnowledgeGraphTypeOK
<1>6. PICK root \in KgLaws, k \in Nat : root = ingest[d].root /\ k = ingest[d].next
  BY <1>5 DEF KnowledgeGraphTypeOK
<1>7. /\ k > 0 => HasNode(d, root)
      /\ \A i \in 1..Len(Mentions[d]) :
            /\ k >= 2 * i => HasNode(d, Mentions[d][i])
            /\ k > 2 * i => HasRelation(d, root, Mentions[d][i])
  BY <1>1, <1>6 DEF Contributes
<1>8. SUFFICES /\ HasNode(d, root)'
               /\ \A i \in 1..Len(Mentions[d]) :
                     /\ k + 1 >= 2 * i => HasNode(d, Mentions[d][i])'
                     /\ k + 1 > 2 * i => HasRelation(d, root, Mentions[d][i])'
  BY <1>3, <1>5, <1>6 DEF Contributes
<1>9. CASE UpsertRoot(d) \/ UpsertNode(d)
  <2>1. PICK e \in KgEntities, claim \in BOOLEAN :
           /\ MergeNode(e, d, claim)
           /\ (UpsertRoot(d) /\ e = root) \/ (UpsertNode(d) /\ e = Mentioned(d))
    <3>1. CASE UpsertRoot(d)
      BY <3>1, <1>6, KnowledgeGraphAssumption DEF UpsertRoot
    <3>2. CASE UpsertNode(d)
      <4>1. k % 2 = 1 /\ More(d)
        BY <3>2, <1>6 DEF UpsertNode
      <4>2. k > 0
        BY <4>1
      <4> QED BY <3>2, <4>1, <4>2, <1>6, MentionedIsOne DEF UpsertNode
    <3> QED BY <1>9, <3>1, <3>2
  <2>2. /\ \A n \in LiveNodes : n \in LiveNodes' /\ graph'[n].entity = graph[n].entity
        /\ \A n \in LiveNodes : OwnersOf(n) \subseteq OwnersOf(n)'
        /\ \E n \in LiveNodes' : graph'[n].entity = e /\ d \in OwnersOf(n)'
    BY <2>1, MergeKeeps
  <2>3. links' = links
    BY <1>9 DEF UpsertRoot, UpsertNode
  <2>4. \A n \in KgNodes : Owns(d, n) => Owns(d, n)' /\ graph'[n].entity = graph[n].entity
    BY <2>2 DEF Owns
  <2>5. HasNode(d, e)'
    BY <2>2 DEF HasNode, Owns, LiveNodes
  <2>6. \A f : HasNode(d, f) => HasNode(d, f)'
    BY <2>4 DEF HasNode
  <2>7. \A f : HasRelation(d, root, f) => HasRelation(d, root, f)'
    BY <2>3, <2>4 DEF HasRelation
  <2>8. CASE UpsertRoot(d) /\ e = root
    <3>1. k = 0
      BY <2>8, <1>6 DEF UpsertRoot
    <3> QED BY <2>5, <2>8, <3>1
  <2>9. CASE UpsertNode(d) /\ e = Mentioned(d)
    <3>1. k % 2 = 1 /\ e = Mentions[d][(k + 1) \div 2]
      BY <2>9, <1>6 DEF UpsertNode, Mentioned
    <3>2. HasNode(d, root)'
      BY <3>1, <1>7, <2>6
    <3>3. ASSUME NEW i \in 1..Len(Mentions[d]), k + 1 >= 2 * i
          PROVE  HasNode(d, Mentions[d][i])'
      <4>1. k >= 2 * i \/ i = (k + 1) \div 2
        BY <3>1, <3>3
      <4> QED BY <3>1, <4>1, <1>7, <2>5, <2>6
    <3>4. ASSUME NEW i \in 1..Len(Mentions[d]), k + 1 > 2 * i
          PROVE  HasRelation(d, root, Mentions[d][i])'
      <4>1. k > 2 * i
        BY <3>1, <3>4
      <4> QED BY <4>1, <1>7, <2>7
    <3> QED BY <3>2, <3>3, <3>4
  <2> QED BY <2>1, <2>8, <2>9
<1>10. CASE UpsertRelation(d)
  <2>1. /\ k > 0 /\ k % 2 = 0 /\ More(d)
        /\ graph' = graph
        /\ links' = [p \in KgNodes \X KgNodes |->
              IF p \in NodesOf(root) \X NodesOf(Mentions[d][(k + 1) \div 2])
              THEN links[p] \cup {d} ELSE links[p]]
    BY <1>10, <1>6 DEF UpsertRelation, Mentioned
  <2>2. \A n \in KgNodes :
           (Owns(d, n)' <=> Owns(d, n)) /\ (n \in LiveNodes' <=> n \in LiveNodes)
    BY <2>1 DEF Owns, LiveNodes, OwnersOf
  <2>3. \A f : HasNode(d, f) => HasNode(d, f)'
    BY <2>1, <2>2 DEF HasNode
  <2>4. \A f : HasRelation(d, root, f) => HasRelation(d, root, f)'
    BY <2>1, <2>2 DEF HasRelation
  <2>5. HasNode(d, root)'
    BY <2>1, <2>3, <1>7
  <2>6. ASSUME NEW i \in 1..Len(Mentions[d]), k + 1 >= 2 * i
        PROVE  HasNode(d, Mentions[d][i])'
    <3> DEFINE half == k \div 2
    <3>1. half \in Nat /\ k = 2 * half /\ i \in Nat
      BY <2>1
    <3> HIDE DEF half
    <3>2. half >= i
      BY <2>6, <3>1
    <3>3. k >= 2 * i
      BY <3>1, <3>2
    <3> QED BY <3>3, <2>3, <1>7
  <2>7. ASSUME NEW i \in 1..Len(Mentions[d]), k + 1 > 2 * i
        PROVE  HasRelation(d, root, Mentions[d][i])'
    <3>1. CASE k > 2 * i
      BY <3>1, <2>4, <1>7
    <3>2. CASE k = 2 * i
      <4>1. i = (k + 1) \div 2
        BY <3>2
      <4>2. PICK n \in KgNodes : Owns(d, n) /\ graph[n].entity = root
        BY <2>1, <1>7 DEF HasNode
      <4>3. PICK m \in KgNodes : Owns(d, m) /\ graph[m].entity = Mentions[d][i]
        BY <3>2, <1>7 DEF HasNode
      <4>4. <<n, m>> \in NodesOf(root) \X NodesOf(Mentions[d][(k + 1) \div 2])
        BY <4>1, <4>2, <4>3 DEF NodesOf, Owns
      <4>5. d \in links'[<<n, m>>]
        BY <2>1, <4>4
      <4> QED BY <2>1, <2>2, <4>2, <4>3, <4>5 DEF HasRelation
    <3> QED BY <2>7, <3>1, <3>2
  <2> QED BY <2>5, <2>6, <2>7
<1> QED BY <1>9, <1>10

\* Whatever others do, what d owns stays as it is, unless it raced with a
\* deletion or an edit touched it.
LEMMA OthersAreSteady ==
    ASSUME KnowledgeGraphInv, NEW d \in KgDocuments, NEW z \in KgDocuments,
           ReadsAgree(d), cleanUp[d].pass = 0, d \notin touched',
           \/ (z # d /\ (UpsertRoot(z) \/ UpsertNode(z) \/ UpsertRelation(z)))
           \/ DeleteTrimsLinks(z) \/ DeleteTrimsNodes(z)
           \/ MergesStubs(z) \/ SetsNumber(z)
    PROVE  Steady(d)
<1> USE DEF KnowledgeGraphInv, KnowledgeGraphTyped
<1>1. CASE z # d /\ (UpsertRoot(z) \/ UpsertNode(z))
  <2>1. PICK e \in KgEntities, claim \in BOOLEAN : MergeNode(e, z, claim)
    <3>1. CASE UpsertRoot(z)
      BY <3>1, KnowledgeGraphAssumption DEF UpsertRoot, KnowledgeGraphTypeOK
    <3>2. CASE UpsertNode(z)
      <4>1. ingest[z].next % 2 = 1 /\ More(z) /\ ingest[z].next \in Nat
        BY <3>2 DEF UpsertNode, KnowledgeGraphTypeOK
      <4>2. ingest[z].next > 0
        BY <4>1
      <4> QED BY <3>2, <4>1, <4>2, MentionedIsOne DEF UpsertNode
    <3> QED BY <1>1, <3>1, <3>2
  <2>2. /\ \A n \in LiveNodes : n \in LiveNodes' /\ graph'[n].entity = graph[n].entity
        /\ \A n \in LiveNodes : OwnersOf(n) \subseteq OwnersOf(n)'
        /\ \A n \in LiveNodes' : \A x \in OwnersOf(n)' : x # z => Owns(x, n)
    BY <2>1, MergeKeeps
  <2>3. links' = links
    BY <1>1 DEF UpsertRoot, UpsertNode
  <2> QED BY <2>2, <2>3, <1>1 DEF Steady, Owns
<1>2. CASE z # d /\ UpsertRelation(z)
  BY <1>2 DEF UpsertRelation, Steady, Owns, LiveNodes, OwnersOf
<1>3. CASE DeleteTrimsLinks(z)
  <2>1. /\ Deleting(z) /\ graph' = graph
        /\ \A n, m \in KgNodes : links'[<<n, m>>] =
              IF links[<<n, m>>] # {} /\ readLinks[z][<<n, m>>] # {}
              THEN readLinks[z][<<n, m>>] \ {z} ELSE links[<<n, m>>]
    BY <1>3 DEF DeleteTrimsLinks
  <2>2. z # d
    BY <2>1 DEF Deleting
  <2>3. \A n \in KgNodes : Owns(d, n)' <=> Owns(d, n)
    BY <2>1 DEF Owns, LiveNodes, OwnersOf
  <2>4. ASSUME NEW n \in KgNodes, NEW m \in KgNodes, Owns(d, n), Owns(d, m)
        PROVE  d \in links'[<<n, m>>] <=> d \in links[<<n, m>>]
    <3>1. readLinks[z][<<n, m>>] # {} =>
             (d \in readLinks[z][<<n, m>>] <=> d \in links[<<n, m>>])
      BY <2>4 DEF ReadsAgree
    <3>2. links'[<<n, m>>] = IF links[<<n, m>>] # {} /\ readLinks[z][<<n, m>>] # {}
                             THEN readLinks[z][<<n, m>>] \ {z} ELSE links[<<n, m>>]
      BY <2>1
    <3> QED BY <2>2, <3>1, <3>2
  <2> QED BY <2>1, <2>3, <2>4 DEF Steady
<1>4. CASE DeleteTrimsNodes(z)
  <2>1. /\ \A n \in LiveNodes' :
              /\ n \in LiveNodes
              /\ graph'[n].entity = graph[n].entity
              /\ OwnersOf(n)' = IF readNodes[z][n] # <<>> THEN ToSet(readNodes[z][n]) \ {z}
                                                          ELSE OwnersOf(n)
        /\ \A n \in LiveNodes \ LiveNodes' :
              readNodes[z][n] # <<>> /\ ToSet(readNodes[z][n]) = {z}
        /\ \A n, m \in KgNodes : links'[<<n, m>>] =
              IF {n, m} \cap (LiveNodes \ LiveNodes') # {} THEN {} ELSE links[<<n, m>>]
    BY <1>4, TrimmedNodes
  <2>2. z # d
    <3>1. Deleting(z)
      BY <1>4, Zenon DEF DeleteTrimsNodes
    <3> QED BY <3>1 DEF Deleting
  <2>3. ASSUME NEW n \in KgNodes, Owns(d, n) PROVE n \in LiveNodes' /\ d \in OwnersOf(n)'
    <3>1. n \in LiveNodes /\ d \in OwnersOf(n)
      BY <2>3 DEF Owns
    <3>2. readNodes[z][n] # <<>> => d \in ToSet(readNodes[z][n])
      BY <2>3 DEF ReadsAgree
    <3>3. n \in LiveNodes'
      BY <2>1, <2>2, <3>1, <3>2
    <3> QED BY <2>1, <2>2, <3>1, <3>2, <3>3
  <2>4. ASSUME NEW n \in KgNodes, n \in LiveNodes', d \in OwnersOf(n)' PROVE Owns(d, n)
    <3>1. readNodes[z][n] # <<>> => (d \in ToSet(readNodes[z][n]) => Owns(d, n))
      BY DEF ReadsAgree
    <3> QED BY <2>1, <2>4, <3>1 DEF Owns
  <2>5. \A n \in KgNodes : Owns(d, n)' <=> Owns(d, n)
    BY <2>3, <2>4 DEF Owns
  <2>6. \A n \in KgNodes : Owns(d, n) => graph'[n].entity = graph[n].entity
    BY <2>1, <2>3
  <2>7. \A n, m \in KgNodes :
           (Owns(d, n) /\ Owns(d, m)) => links'[<<n, m>>] = links[<<n, m>>]
    BY <2>1, <2>3
  <2> QED BY <2>5, <2>6, <2>7 DEF Steady
<1>5. CASE MergesStubs(z)
  <2>1. PICK stubs \in SUBSET LiveNodes :
           /\ graph' = [n \in KgNodes |-> IF n \in stubs THEN NoNode ELSE graph[n]]
           /\ LiveNodes' = LiveNodes \ stubs
           /\ \A n \in stubs : OwnersOf(n) \subseteq touched'
           /\ \A n, m \in KgNodes : {n, m} \cap stubs = {} =>
                 links[<<n, m>>] \subseteq links'[<<n, m>>]
           /\ \A n, m \in KgNodes : \A x \in links'[<<n, m>>] :
                 x \in touched' \/ x \in links[<<n, m>>]
    BY <1>5, MergedStubs
  <2>2. \A n \in KgNodes : Owns(d, n) => n \notin stubs
    BY <2>1 DEF Owns
  <2>3. \A n \in KgNodes \ stubs : graph'[n] = graph[n] /\ OwnersOf(n)' = OwnersOf(n)
    BY <2>1 DEF OwnersOf
  <2>4. \A n \in KgNodes : Owns(d, n)' <=> Owns(d, n)
    BY <2>1, <2>2, <2>3 DEF Owns
  <2>5. \A n, m \in KgNodes : (Owns(d, n) /\ Owns(d, m)) =>
           (d \in links'[<<n, m>>] <=> d \in links[<<n, m>>])
    BY <2>1, <2>2
  <2> QED BY <2>2, <2>3, <2>4, <2>5 DEF Steady
<1>6. CASE SetsNumber(z)
  <2>1. /\ LiveNodes' = LiveNodes
        /\ \A n \in LiveNodes :
              /\ graph'[n].owners = graph[n].owners
              /\ graph'[n].entity = graph[n].entity \/ OwnersOf(n) \subseteq touched'
        /\ links' = links
    BY <1>6, NumberSet DEF SetsNumber
  <2> QED BY <2>1 DEF Steady, Owns, OwnersOf
<1> QED BY <1>1, <1>2, <1>3, <1>4, <1>5, <1>6

\* A deletion does not go back to before its beginning.
LEMMA DeletionsGoOn ==
    ASSUME KnowledgeGraphTypeOK, NEW z \in KgDocuments, NEW d \in KgDocuments,
           \/ DeleteBegins(z) \/ DeleteReadsLinks(z) \/ DeleteTrimsLinks(z)
           \/ DeleteReadsNodes(z) \/ DeleteTrimsNodes(z) \/ DeletePassFails(z),
           cleanUp'[d].pass = 0
    PROVE  cleanUp[d].pass = 0
<1>1. /\ cleanUp[z] \in [pass : 0..3, at : {"links", "linksRead", "nodes", "nodesRead"}]
      /\ DOMAIN cleanUp = KgDocuments
  BY DEF KnowledgeGraphTypeOK
<1>2. CASE DeleteBegins(z)
  <2>1. cleanUp' = [cleanUp EXCEPT ![z] = [pass |-> 1, at |-> "links"]]
    BY <1>2 DEF DeleteBegins
  <2> QED BY <1>1, <2>1
<1>3. CASE DeleteReadsLinks(z) \/ DeleteTrimsLinks(z) \/ DeleteReadsNodes(z)
  <2>1. PICK at \in {"linksRead", "nodes", "nodesRead"} : CleanUpGoes(z, at)
    BY <1>3 DEF DeleteReadsLinks, DeleteTrimsLinks, DeleteReadsNodes
  <2>2. cleanUp' = [cleanUp EXCEPT ![z].at = at]
    BY <2>1 DEF CleanUpGoes
  <2> QED BY <1>1, <2>2
<1>4. CASE DeleteTrimsNodes(z) \/ DeletePassFails(z)
  <2>1. cleanUp' = [cleanUp EXCEPT ![z] = AfterPass(z)]
    BY <1>4, Zenon DEF DeleteTrimsNodes, DeletePassFails
  <2>2. AfterPass(z).pass # 0
    BY <1>1 DEF AfterPass
  <2> QED BY <1>1, <2>1, <2>2
<1> QED BY <1>2, <1>3, <1>4

\* The contribution of a document survives every step.
LEMMA SurvivesStep ==
    ASSUME KnowledgeGraphInv, KnowledgeGraphNext
    PROVE  Survives'
<1> USE DEF KnowledgeGraphInv, KnowledgeGraphTyped
<1> SUFFICES ASSUME NEW d \in KgDocuments, cleanUp'[d].pass = 0, d \notin raced' \cup touched'
             PROVE  ReadsAgree(d)' /\ Contributes(d)'
  BY DEF Survives
<1>1. PICK z \in KgDocuments :
        \/ StartIngest(z)
        \/ UpsertRoot(z)
        \/ UpsertNode(z)
        \/ UpsertRelation(z)
        \/ IngestEnds(z)
        \/ IngestBreaks(z)
        \/ DeleteBegins(z)
        \/ DeleteReadsLinks(z)
        \/ DeleteTrimsLinks(z)
        \/ DeleteReadsNodes(z)
        \/ DeleteTrimsNodes(z)
        \/ DeletePassFails(z)
        \/ \E e \in KgLaws : EditsNumber(z, e)
        \/ LooksForStubs(z)
        \/ MergesStubs(z)
        \/ MergesNothing(z)
        \/ EditFails(z)
        \/ SetsNumber(z)
  BY DEF KnowledgeGraphNext
<1> DEFINE Before == cleanUp[d].pass = 0 /\ d \notin raced \cup touched
<1>2. Before => ReadsAgree(d) /\ Contributes(d)
  BY DEF Survives
<1>3. CASE StartIngest(z) \/ IngestEnds(z) \/ IngestBreaks(z)
  <2>1. /\ UNCHANGED <<graph, links, cleanUp, readLinks, readNodes, raced, touched>>
        /\ built \subseteq built' /\ built' \subseteq built \cup {z}
    BY <1>3 DEF StartIngest, IngestEnds, IngestBreaks, graphVars, kgRequestVars, readVars,
           kgHistoryVars
  <2>2. ReadsAgree(d) /\ Contributes(d)
    BY <1>2, <2>1
  <2>3. Steady(d)
    BY <2>1 DEF Steady, Owns, LiveNodes, OwnersOf
  <2>4. ReadsAgree(d)'
    BY <2>1, <2>2 DEF ReadsAgree, Owns, LiveNodes, OwnersOf
  <2>5. CASE z # d
    <3>1. ingest'[d] = ingest[d] /\ (d \in built' => d \in built)
      BY <2>1, <2>5, <1>3 DEF StartIngest, IngestEnds, IngestBreaks, KnowledgeGraphTypeOK
    <3> QED BY <2>2, <2>3, <2>4, <3>1, SteadyContributes
  <2>6. CASE z = d /\ StartIngest(z)
    <3>1. ingest'[d].next = 0 /\ d \notin built'
      BY <2>6 DEF StartIngest, BuiltIsDone, KnowledgeGraphTypeOK
    <3>2. \A i \in 1..Len(Mentions[d]) : ~(0 >= 2 * i) /\ ~(0 > 2 * i)
      OBVIOUS
    <3>3. ~(ingest'[d].next > 0)
      BY <3>1
    <3> QED BY <2>4, <3>1, <3>2, <3>3 DEF Contributes
  <2>7. CASE z = d /\ IngestEnds(z)
    <3>1. /\ ingest[d].running
          /\ ingest'[d].next = ingest[d].next /\ ingest'[d].root = ingest[d].root
      BY <2>7 DEF IngestEnds, KnowledgeGraphTypeOK
    <3>2. \A e : HasNode(d, e) => HasNode(d, e)'
      BY <2>3 DEF HasNode, Steady
    <3>3. \A e, f : HasRelation(d, e, f) => HasRelation(d, e, f)'
      BY <2>3 DEF HasRelation, Steady
    <3> QED BY <2>2, <2>4, <3>1, <3>2, <3>3 DEF Contributes
  <2>8. CASE z = d /\ IngestBreaks(z)
    <3>1. ~ingest'[d].running /\ d \notin built'
      BY <2>8 DEF IngestBreaks, BuiltIsDone, KnowledgeGraphTypeOK
    <3> QED BY <2>4, <3>1 DEF Contributes
  <2> QED BY <1>3, <2>5, <2>6, <2>7, <2>8
<1>4. CASE UpsertRoot(z) \/ UpsertNode(z) \/ UpsertRelation(z)
  <2>1. /\ NextStatement(z) /\ Writes(z)
        /\ UNCHANGED <<built, cleanUp, readLinks, readNodes>>
    BY <1>4 DEF UpsertRoot, UpsertNode, UpsertRelation, kgRequestVars, readVars
  <2>2. Before
    BY <2>1 DEF Writes
  <2>3. CASE z = d
    BY <2>2, <2>3, <1>2, <1>4, OwnWritesSurvive
  <2>4. CASE z # d
    <3>1. Steady(d)
      BY <2>2, <2>4, <1>2, <1>4, OthersAreSteady
    <3>2. ReadsAgree(d)'
      BY <2>1, <2>2, <3>1, <1>2, SteadyReads
    <3>3. ingest'[d] = ingest[d]
      BY <2>1, <2>4 DEF NextStatement, KnowledgeGraphTypeOK
    <3> QED BY <2>1, <2>2, <3>1, <3>2, <3>3, <1>2, SteadyContributes
  <2> QED BY <2>3, <2>4
<1>5. CASE \/ DeleteBegins(z)
           \/ DeleteReadsLinks(z)
           \/ DeleteReadsNodes(z)
           \/ DeletePassFails(z)
  <2>1. UNCHANGED <<graph, links, ingest, built, raced, touched>>
    BY <1>5 DEF DeleteBegins, DeleteReadsLinks, DeleteReadsNodes, DeletePassFails,
           graphVars,
                kgWorkVars, kgHistoryVars
  <2>2. Before
    BY <2>1, <1>5, DeletionsGoOn
  <2>3. Steady(d)
    BY <2>1 DEF Steady, Owns, LiveNodes, OwnersOf
  <2>4. \A x \in KgDocuments, n \in KgNodes :
           \/ readNodes'[x][n] \in {readNodes[x][n], <<>>}
           \/ n \in LiveNodes /\ readNodes'[x][n] = graph[n].owners
    <3>1. \/ readNodes' = readNodes
          \/ readNodes' = [readNodes EXCEPT ![z] = NothingRead]
          \/ readNodes' = [readNodes EXCEPT ![z] = [n \in KgNodes |->
                IF n \in LiveNodes /\ z \in OwnersOf(n) THEN graph[n].owners ELSE <<>>]]
      BY <1>5 DEF DeleteBegins, DeleteReadsLinks, DeleteReadsNodes, DeletePassFails,
             readVars
    <3>2. readNodes \in [KgDocuments -> [KgNodes -> Seq(KgDocuments)]]
      BY DEF KnowledgeGraphTypeOK
    <3>3. \A n \in KgNodes : NothingRead[n] = <<>>
      BY DEF NothingRead
    <3>4. CASE readNodes' = [readNodes EXCEPT ![z] = [n \in KgNodes |->
                IF n \in LiveNodes /\ z \in OwnersOf(n) THEN graph[n].owners ELSE <<>>]]
      <4>1. ASSUME NEW x \in KgDocuments, NEW n \in KgNodes, x # z
            PROVE  readNodes'[x][n] = readNodes[x][n]
        BY <3>4, <3>2, <4>1
      <4>2. ASSUME NEW n \in KgNodes
            PROVE  readNodes'[z][n] =
                      IF n \in LiveNodes /\ z \in OwnersOf(n) THEN graph[n].owners ELSE <<>>
        BY <3>4, <3>2
      <4> QED BY <4>1, <4>2
    <3>5. CASE readNodes' = readNodes \/ readNodes' = [readNodes EXCEPT ![z] = NothingRead]
      BY <3>5, <3>2, <3>3
    <3> QED BY <3>1, <3>4, <3>5
  <2>5. \A x \in KgDocuments, n, m \in KgNodes :
           readLinks'[x][<<n, m>>] \in {readLinks[x][<<n, m>>], {}, links[<<n, m>>]}
    <3>1. \/ readLinks' = readLinks
          \/ readLinks' = [readLinks EXCEPT ![z] = NoLinks]
          \/ readLinks' = [readLinks EXCEPT ![z] =
                [p \in KgNodes \X KgNodes |-> IF z \in links[p] THEN links[p] ELSE {}]]
      BY <1>5 DEF DeleteBegins, DeleteReadsLinks, DeleteReadsNodes, DeletePassFails,
             readVars
    <3>2. readLinks \in [KgDocuments -> [KgNodes \X KgNodes -> SUBSET KgDocuments]]
      BY DEF KnowledgeGraphTypeOK
    <3> QED BY <3>1, <3>2 DEF NoLinks
  <2>6. ReadsAgree(d)'
    BY <2>2, <2>3, <2>4, <2>5, <1>2, SteadyReads
  <2> QED BY <2>1, <2>2, <2>3, <2>6, <1>2, SteadyContributes
<1>6. CASE DeleteTrimsLinks(z) \/ DeleteTrimsNodes(z)
  <2>1. UNCHANGED <<ingest, built, touched>> /\ raced \subseteq raced'
    <3>1. UNCHANGED kgWorkVars /\ TrimsRace(z)
      BY <1>6, Zenon DEF DeleteTrimsLinks, DeleteTrimsNodes
    <3> QED BY <3>1 DEF TrimsRace, kgWorkVars
  <2>2. Before
    BY <2>1, <1>6, DeletionsGoOn
  <2>3. Steady(d)
    BY <2>2, <1>2, <1>6, OthersAreSteady
  <2>4. \A x \in KgDocuments, n \in KgNodes : readNodes'[x][n] \in {readNodes[x][n], <<>>}
    <3>1. readNodes' = readNodes \/ readNodes' = [readNodes EXCEPT ![z] = NothingRead]
      BY <1>6, Zenon DEF DeleteTrimsLinks, DeleteTrimsNodes
    <3>2. readNodes \in [KgDocuments -> [KgNodes -> Seq(KgDocuments)]]
      BY DEF KnowledgeGraphTypeOK
    <3>3. \A n \in KgNodes : NothingRead[n] = <<>>
      BY DEF NothingRead
    <3> QED BY <3>1, <3>2, <3>3
  <2>5. \A x \in KgDocuments, n, m \in KgNodes :
           readLinks'[x][<<n, m>>] \in {readLinks[x][<<n, m>>], {}}
    <3>1. readLinks' = readLinks \/ readLinks' = [readLinks EXCEPT ![z] = NoLinks]
      BY <1>6, Zenon DEF DeleteTrimsLinks, DeleteTrimsNodes
    <3>2. readLinks \in [KgDocuments -> [KgNodes \X KgNodes -> SUBSET KgDocuments]]
      BY DEF KnowledgeGraphTypeOK
    <3>3. \A n, m \in KgNodes : NoLinks[<<n, m>>] = {}
      BY DEF NoLinks
    <3> QED BY <3>1, <3>2, <3>3
  <2>6. ReadsAgree(d)'
    BY <2>2, <2>3, <2>4, <2>5, <1>2, SteadyReads
  <2> QED BY <2>1, <2>2, <2>3, <2>6, <1>2, SteadyContributes
<1>7. CASE MergesStubs(z) \/ SetsNumber(z)
  <2>1. /\ UNCHANGED <<ingest, built, cleanUp, readLinks, readNodes>>
        /\ raced \subseteq raced' /\ touched \subseteq touched'
    BY <1>7, MergedStubs, NumberSet DEF MergesStubs, SetsNumber, kgWorkVars, readVars
  <2>2. Before
    BY <2>1
  <2>3. Steady(d)
    BY <2>2, <1>2, <1>7, OthersAreSteady
  <2>4. ReadsAgree(d)'
    BY <2>1, <2>2, <2>3, <1>2, SteadyReads
  <2> QED BY <2>1, <2>2, <2>3, <2>4, <1>2, SteadyContributes
<1>8. CASE (\E e \in KgLaws : EditsNumber(z, e)) \/ LooksForStubs(z) \/ MergesNothing(z)
              \/ EditFails(z)
  <2>1. UNCHANGED <<graph, links, ingest, built, cleanUp, readLinks, readNodes, raced,
                    touched>>
    BY <1>8 DEF EditsNumber, LooksForStubs, MergesNothing, EditFails, graphVars, kgWorkVars,
                readVars, kgHistoryVars
  <2>2. Steady(d)
    BY <2>1 DEF Steady, Owns, LiveNodes, OwnersOf
  <2>3. Before
    BY <2>1
  <2>4. ReadsAgree(d)'
    BY <2>1, <2>2, <2>3, <1>2, SteadyReads
  <2> QED BY <2>1, <2>2, <2>3, <2>4, <1>2, SteadyContributes
<1> QED BY <1>1, <1>3, <1>4, <1>5, <1>6, <1>7, <1>8

-----------------------------------------------------------------------------
\* What a step has to keep away from a document that is being deleted, if it is
\* not a step of its own deletion.
NamesLess(d) ==
    /\ cleanUp'[d] = cleanUp[d]
    /\ readLinks'[d] = readLinks[d] /\ readNodes'[d] = readNodes[d]
    /\ LinksGone(d) => LinksGone(d)'
    /\ NodesGone(d) => NodesGone(d)'
    /\ d \in Computing => /\ \A p \in KgNodes \X KgNodes : d \in links'[p] => d \in links[p]
                          /\ \A n \in KgNodes : Owns(d, n)' => Owns(d, n)

\* Such a step keeps what its deletion has done.
LEMMA LessLeaves ==
    ASSUME NEW d \in KgDocuments, Leaves(d), NamesLess(d)
    PROVE  Leaves(d)'
BY DEF Leaves, NamesLess, Deleting, Deleted, Computing

\* Nothing is in what was not read.
LEMMA EmptyHasNone == ToSet(<<>>) = {}
BY DEF ToSet

\* A step that writes neither the graph nor what deletions have read.
LEMMA NeutralNamesLess ==
    ASSUME NEW d \in KgDocuments, UNCHANGED <<graph, links, cleanUp, readLinks, readNodes>>
    PROVE  NamesLess(d)
BY DEF NamesLess, LinksGone, NodesGone, Owns, LiveNodes, OwnersOf

\* What others own, write and read.
LEMMA OthersNameLess ==
    ASSUME KnowledgeGraphInv, NEW d \in KgDocuments, NEW z \in KgDocuments, d \notin raced',
           \/ (z # d /\ (\/ UpsertRoot(z) \/ UpsertNode(z) \/ UpsertRelation(z)
                         \/ DeleteBegins(z) \/ DeleteReadsLinks(z) \/ DeleteTrimsLinks(z)
                         \/ DeleteReadsNodes(z)
                         \/ DeleteTrimsNodes(z)
                         \/ DeletePassFails(z)))
           \/ MergesStubs(z) \/ SetsNumber(z)
    PROVE  NamesLess(d)
<1> USE DEF KnowledgeGraphInv, KnowledgeGraphTyped
<1>t. /\ cleanUp \in [KgDocuments ->
            [pass : 0..3, at : {"links", "linksRead", "nodes", "nodesRead"}]]
      /\ readLinks \in [KgDocuments -> [KgNodes \X KgNodes -> SUBSET KgDocuments]]
      /\ readNodes \in [KgDocuments -> [KgNodes -> Seq(KgDocuments)]]
  BY DEF KnowledgeGraphTypeOK
<1>1. CASE z # d /\ (UpsertRoot(z) \/ UpsertNode(z))
  <2>1. PICK e \in KgEntities, claim \in BOOLEAN : MergeNode(e, z, claim)
    <3>1. CASE UpsertRoot(z)
      BY <3>1, KnowledgeGraphAssumption DEF UpsertRoot, KnowledgeGraphTypeOK
    <3>2. CASE UpsertNode(z)
      <4>1. ingest[z].next % 2 = 1 /\ More(z) /\ ingest[z].next \in Nat
        BY <3>2 DEF UpsertNode, KnowledgeGraphTypeOK
      <4>2. ingest[z].next > 0
        BY <4>1
      <4> QED BY <3>2, <4>1, <4>2, MentionedIsOne DEF UpsertNode
    <3> QED BY <1>1, <3>1, <3>2
  <2>2. \A n \in LiveNodes' : \A x \in OwnersOf(n)' : x # z => Owns(x, n)
    BY <2>1, MergeKeeps
  <2>3. \A n \in KgNodes : Owns(d, n)' => Owns(d, n)
    BY <2>2, <1>1 DEF Owns
  <2>4. UNCHANGED <<links, cleanUp, readLinks, readNodes>>
    BY <1>1 DEF UpsertRoot, UpsertNode, kgRequestVars, readVars
  <2> QED BY <2>3, <2>4 DEF NamesLess, LinksGone, NodesGone
<1>2. CASE z # d /\ UpsertRelation(z)
  <2>1. UNCHANGED <<graph, cleanUp, readLinks, readNodes>>
    BY <1>2 DEF UpsertRelation, kgRequestVars, readVars
  <2>2. \A p \in KgNodes \X KgNodes : d \in links'[p] => d \in links[p]
    BY <1>2 DEF UpsertRelation
  <2>3. \A n \in KgNodes : Owns(d, n)' => Owns(d, n)
    BY <2>1 DEF Owns, LiveNodes, OwnersOf
  <2> QED BY <2>1, <2>2, <2>3 DEF NamesLess, LinksGone, NodesGone
<1>3. CASE z # d /\ (DeleteBegins(z) \/ DeleteReadsLinks(z) \/ DeleteReadsNodes(z)
                      \/ DeletePassFails(z))
  <2>1. UNCHANGED <<graph, links>>
    BY <1>3 DEF DeleteBegins, DeleteReadsLinks, DeleteReadsNodes, DeletePassFails, graphVars
  <2>2. cleanUp'[d] = cleanUp[d]
    BY <1>3, <1>t DEF DeleteBegins, DeleteReadsLinks, DeleteReadsNodes, DeletePassFails,
                      CleanUpGoes
  <2>3. \A x \in KgDocuments :
           /\ x # z => readLinks'[x] = readLinks[x]
           /\ \A p \in KgNodes \X KgNodes :
                 readLinks'[x][p] \in {readLinks[x][p], {}, links[p]}
    <3>1. \/ readLinks' = readLinks
          \/ readLinks' = [readLinks EXCEPT ![z] = NoLinks]
          \/ readLinks' = [readLinks EXCEPT ![z] =
                [p \in KgNodes \X KgNodes |-> IF z \in links[p] THEN links[p] ELSE {}]]
      BY <1>3 DEF DeleteBegins, DeleteReadsLinks, DeleteReadsNodes, DeletePassFails,
             readVars
    <3>2. \A p \in KgNodes \X KgNodes : NoLinks[p] = {}
      BY DEF NoLinks
    <3>3. CASE readLinks' = [readLinks EXCEPT ![z] =
                  [p \in KgNodes \X KgNodes |-> IF z \in links[p] THEN links[p] ELSE {}]]
      BY <3>3, <1>t
    <3>4. CASE readLinks' = readLinks \/ readLinks' = [readLinks EXCEPT ![z] = NoLinks]
      BY <3>4, <3>2, <1>t
    <3> QED BY <3>1, <3>3, <3>4
  <2>4. \A x \in KgDocuments :
           /\ x # z => readNodes'[x] = readNodes[x]
           /\ \A n \in KgNodes :
                 \/ readNodes'[x][n] \in {readNodes[x][n], <<>>}
                 \/ n \in LiveNodes /\ readNodes'[x][n] = graph[n].owners
    <3>1. \/ readNodes' = readNodes
          \/ readNodes' = [readNodes EXCEPT ![z] = NothingRead]
          \/ readNodes' = [readNodes EXCEPT ![z] = [n \in KgNodes |->
                IF n \in LiveNodes /\ z \in OwnersOf(n) THEN graph[n].owners ELSE <<>>]]
      BY <1>3 DEF DeleteBegins, DeleteReadsLinks, DeleteReadsNodes, DeletePassFails,
             readVars
    <3>2. \A n \in KgNodes : NothingRead[n] = <<>>
      BY DEF NothingRead
    <3>3. CASE readNodes' = [readNodes EXCEPT ![z] = [n \in KgNodes |->
                  IF n \in LiveNodes /\ z \in OwnersOf(n) THEN graph[n].owners ELSE <<>>]]
      <4>1. \A x \in KgDocuments : x # z => readNodes'[x] = readNodes[x]
        BY <3>3, <1>t
      <4>2. ASSUME NEW n \in KgNodes
            PROVE  readNodes'[z][n] =
                      IF n \in LiveNodes /\ z \in OwnersOf(n) THEN graph[n].owners ELSE <<>>
        BY <3>3, <1>t
      <4> QED BY <4>1, <4>2
    <3>4. CASE readNodes' = readNodes \/ readNodes' = [readNodes EXCEPT ![z] = NothingRead]
      BY <3>4, <3>2, <1>t
    <3> QED BY <3>1, <3>3, <3>4
  <2>5. \A n \in KgNodes : Owns(d, n)' => Owns(d, n)
    BY <2>1 DEF Owns, LiveNodes, OwnersOf
  <2>6. LinksGone(d) => LinksGone(d)'
    BY <2>1, <2>3 DEF LinksGone
  <2>7. NodesGone(d) => NodesGone(d)'
    BY <2>4, <2>5, EmptyHasNone DEF NodesGone, Owns, OwnersOf
  <2>8. readLinks'[d] = readLinks[d] /\ readNodes'[d] = readNodes[d]
    BY <1>3, <2>3, <2>4
  <2>9. links' = links
    BY <2>1
  <2> QED BY <2>2, <2>5, <2>6, <2>7, <2>8, <2>9 DEF NamesLess
<1>4. CASE z # d /\ DeleteTrimsLinks(z)
  <2>1. /\ graph' = graph /\ readNodes' = readNodes
        /\ readLinks' = [readLinks EXCEPT ![z] = NoLinks]
        /\ CleanUpGoes(z, "nodes") /\ TrimsRace(z)
        /\ \A p \in KgNodes \X KgNodes : links'[p] =
              IF links[p] # {} /\ readLinks[z][p] # {} THEN readLinks[z][p] \ {z} ELSE links[p]
    BY <1>4 DEF DeleteTrimsLinks
  <2>2. d \notin Computing
    BY <1>4, <2>1 DEF TrimsRace
  <2>3. cleanUp'[d] = cleanUp[d] /\ readLinks'[d] = readLinks[d]
    BY <1>4, <2>1, <1>t DEF CleanUpGoes
  <2>4. \A x \in KgDocuments, p \in KgNodes \X KgNodes :
           readLinks'[x][p] \in {readLinks[x][p], {}}
    BY <2>1, <1>t DEF NoLinks
  <2>5. LinksGone(d) => LinksGone(d)'
    BY <1>4, <2>1, <2>4 DEF LinksGone
  <2>6. NodesGone(d) => NodesGone(d)'
    BY <2>1 DEF NodesGone, Owns, LiveNodes, OwnersOf
  <2> QED BY <2>1, <2>2, <2>3, <2>5, <2>6 DEF NamesLess
<1>5. CASE z # d /\ DeleteTrimsNodes(z)
  <2>1. /\ readLinks' = readLinks
        /\ readNodes' = [readNodes EXCEPT ![z] = NothingRead]
        /\ cleanUp' = [cleanUp EXCEPT ![z] = AfterPass(z)]
        /\ TrimsRace(z)
    BY <1>5, Zenon DEF DeleteTrimsNodes
  <2>2. d \notin Computing
    BY <1>5, <2>1 DEF TrimsRace
  <2>3. cleanUp'[d] = cleanUp[d] /\ readNodes'[d] = readNodes[d]
    BY <1>5, <2>1, <1>t
  <2>4. /\ \A n \in LiveNodes' :
              /\ n \in LiveNodes
              /\ OwnersOf(n)' = IF readNodes[z][n] # <<>> THEN ToSet(readNodes[z][n]) \ {z}
                                                          ELSE OwnersOf(n)
        /\ \A n, m \in KgNodes : links'[<<n, m>>] =
              IF {n, m} \cap (LiveNodes \ LiveNodes') # {} THEN {} ELSE links[<<n, m>>]
    BY <1>5, TrimmedNodes
  <2>5. \A p \in KgNodes \X KgNodes : d \in links'[p] => d \in links[p]
    BY <2>4
  <2>6. LinksGone(d) => LinksGone(d)'
    BY <2>1, <2>5 DEF LinksGone
  <2>7. \A x \in KgDocuments, n \in KgNodes : readNodes'[x][n] \in {readNodes[x][n], <<>>}
    BY <2>1, <1>t DEF NothingRead
  <2>8. ASSUME NodesGone(d) PROVE NodesGone(d)'
    <3>1. \A n \in KgNodes : d \notin ToSet(readNodes[z][n]) /\ ~Owns(d, n)
      BY <1>5, <2>8 DEF NodesGone
    <3>2. \A n \in KgNodes : ~Owns(d, n)'
      BY <3>1, <2>4 DEF Owns
    <3>3. ASSUME NEW n \in KgNodes, NEW y \in KgDocuments \ {d}
          PROVE  d \notin ToSet(readNodes'[y][n])
      BY <2>7, <2>8, EmptyHasNone DEF NodesGone
    <3> QED BY <3>2, <3>3 DEF NodesGone
  <2> QED BY <2>1, <2>2, <2>3, <2>6, <2>8 DEF NamesLess
<1>6. CASE MergesStubs(z)
  <2>1. PICK stubs \in SUBSET LiveNodes :
           /\ graph' = [n \in KgNodes |-> IF n \in stubs THEN NoNode ELSE graph[n]]
           /\ LiveNodes' = LiveNodes \ stubs
           /\ \A n, m \in KgNodes : \A x \in links'[<<n, m>>] :
                 \E q \in KgNodes \X KgNodes : x \in links[q]
    BY <1>6, MergedStubs
  <2>2. UNCHANGED <<cleanUp, readLinks, readNodes>> /\ raced' = raced \cup Computing
    BY <1>6 DEF MergesStubs, readVars
  <2>3. d \notin Computing
    BY <2>2
  <2>4. \A n \in KgNodes : Owns(d, n)' => Owns(d, n)
    BY <2>1 DEF Owns, OwnersOf
  <2>5. LinksGone(d) => LinksGone(d)'
    BY <2>1, <2>2 DEF LinksGone
  <2> QED BY <2>2, <2>3, <2>4, <2>5 DEF NamesLess, NodesGone
<1>7. CASE SetsNumber(z)
  <2>1. LiveNodes' = LiveNodes /\ \A n \in LiveNodes : graph'[n].owners = graph[n].owners
    BY <1>7, NumberSet
  <2>2. UNCHANGED <<links, cleanUp, readLinks, readNodes>>
    BY <1>7 DEF SetsNumber, readVars
  <2>3. \A n \in KgNodes : Owns(d, n)' => Owns(d, n)
    BY <2>1 DEF Owns, OwnersOf
  <2> QED BY <2>2, <2>3 DEF NamesLess, LinksGone, NodesGone
<1> QED BY <1>1, <1>2, <1>3, <1>4, <1>5, <1>6, <1>7

\* The steps of a document's own deletion.
\* They keep it too: each trims all that it read.
LEMMA OwnDeletionLeaves ==
    ASSUME KnowledgeGraphInv, NEW d \in KgDocuments, Leaves(d),
           d \notin raced' \cup unclean',
           \/ DeleteBegins(d) \/ DeleteReadsLinks(d) \/ DeleteTrimsLinks(d)
           \/ DeleteReadsNodes(d) \/ DeleteTrimsNodes(d) \/ DeletePassFails(d)
    PROVE  Leaves(d)'
<1> USE DEF KnowledgeGraphInv, KnowledgeGraphTyped
<1>t. /\ cleanUp \in [KgDocuments ->
            [pass : 0..3, at : {"links", "linksRead", "nodes", "nodesRead"}]]
      /\ readLinks \in [KgDocuments -> [KgNodes \X KgNodes -> SUBSET KgDocuments]]
      /\ readNodes \in [KgDocuments -> [KgNodes -> Seq(KgDocuments)]]
  BY DEF KnowledgeGraphTypeOK
<1>1. CASE DeleteBegins(d)
  <2>1. cleanUp'[d] = [pass |-> 1, at |-> "links"]
    BY <1>1, <1>t DEF DeleteBegins
  <2> QED BY <2>1 DEF Leaves, Deleting, Deleted
<1>2. CASE DeleteReadsLinks(d)
  <2>1. /\ cleanUp'[d].pass \in {1, 2} /\ cleanUp'[d].at = "linksRead"
        /\ links' = links
    BY <1>2, <1>t DEF DeleteReadsLinks, CleanUpGoes, Deleting, graphVars
  <2>2. \A p \in KgNodes \X KgNodes : d \in links[p] => readLinks'[d][p] = links[p]
    BY <1>2, <1>t DEF DeleteReadsLinks
  <2> QED BY <2>1, <2>2 DEF Leaves, Deleting, Deleted
<1>3. CASE DeleteTrimsLinks(d)
  <2>1. /\ Deleting(d) /\ cleanUp[d].at = "linksRead"
        /\ cleanUp'[d].pass \in {1, 2} /\ cleanUp'[d].at = "nodes"
        /\ TrimsRace(d)
        /\ readLinks' = [readLinks EXCEPT ![d] = NoLinks]
        /\ \A p \in KgNodes \X KgNodes : links'[p] =
              IF links[p] # {} /\ readLinks[d][p] # {} THEN readLinks[d][p] \ {d} ELSE links[p]
    BY <1>3, <1>t DEF DeleteTrimsLinks, CleanUpGoes, Deleting
  <2>2. \A p \in KgNodes \X KgNodes : d \notin links'[p]
    BY <2>1 DEF Leaves
  <2>3. d \in Computing
    BY <2>1 DEF Computing
  <2>4. \A y \in KgDocuments \ {d} : y \notin Computing
    BY <2>1, <2>3 DEF TrimsRace
  <2>5. \A y \in KgDocuments \ {d}, p \in KgNodes \X KgNodes : readLinks'[y][p] = {}
    BY <2>1, <2>4, <1>t DEF Computing, ReadsAreOfDeletions
  <2>6. LinksGone(d)'
    BY <2>2, <2>5 DEF LinksGone
  <2> QED BY <2>1, <2>6 DEF Leaves, Deleting, Deleted
<1>4. CASE DeleteReadsNodes(d)
  <2>1. /\ Deleting(d) /\ cleanUp[d].at = "nodes"
        /\ cleanUp'[d].pass \in {1, 2} /\ cleanUp'[d].at = "nodesRead"
        /\ UNCHANGED <<graph, links, readLinks>>
    BY <1>4, <1>t DEF DeleteReadsNodes, CleanUpGoes, Deleting, graphVars
  <2>2. LinksGone(d)'
    BY <2>1 DEF Leaves, LinksGone
  <2>3. ASSUME NEW n \in KgNodes, Owns(d, n)' PROVE readNodes'[d][n] # <<>>
    <3>1. n \in LiveNodes /\ d \in OwnersOf(n)
      BY <2>1, <2>3 DEF Owns, LiveNodes, OwnersOf
    <3>2. readNodes' = [readNodes EXCEPT ![d] = [m \in KgNodes |->
             IF m \in LiveNodes /\ d \in OwnersOf(m) THEN graph[m].owners ELSE <<>>]]
      BY <1>4, Zenon DEF DeleteReadsNodes
    <3>3. readNodes'[d][n] = graph[n].owners
      BY <3>1, <3>2, <1>t
    <3>4. OwnersOf(n) # {}
      BY <3>1
    <3> QED BY <3>3, <3>4, EmptyHasNone DEF OwnersOf
  <2> QED BY <2>1, <2>2, <2>3 DEF Leaves, Deleting, Deleted
<1>5. CASE DeleteTrimsNodes(d)
  <2>1. /\ Deleting(d) /\ cleanUp[d].at = "nodesRead"
        /\ readLinks' = readLinks
        /\ readNodes' = [readNodes EXCEPT ![d] = NothingRead]
        /\ cleanUp' = [cleanUp EXCEPT ![d] = AfterPass(d)]
        /\ TrimsRace(d)
    BY <1>5, Zenon DEF DeleteTrimsNodes
  <2>2. cleanUp'[d].at = "links"
    BY <2>1, <1>t DEF AfterPass
  <2>3. /\ \A n \in LiveNodes' :
              /\ n \in LiveNodes
              /\ OwnersOf(n)' = IF readNodes[d][n] # <<>> THEN ToSet(readNodes[d][n]) \ {d}
                                                          ELSE OwnersOf(n)
        /\ \A n, m \in KgNodes : links'[<<n, m>>] =
              IF {n, m} \cap (LiveNodes \ LiveNodes') # {} THEN {} ELSE links[<<n, m>>]
    BY <1>5, TrimmedNodes
  <2>4. \A p \in KgNodes \X KgNodes : d \in links'[p] => d \in links[p]
    BY <2>3
  <2>5. LinksGone(d)'
    BY <2>1, <2>4 DEF Leaves, LinksGone
  <2>6. \A n \in KgNodes : ~Owns(d, n)'
    BY <2>1, <2>3 DEF Leaves, Owns
  <2>7. d \in Computing
    BY <2>1 DEF Computing
  <2>8. \A y \in KgDocuments \ {d} : y \notin Computing
    BY <2>1, <2>7 DEF TrimsRace
  <2>9. \A y \in KgDocuments \ {d}, n \in KgNodes : readNodes'[y][n] = <<>>
    BY <2>1, <2>8, <1>t DEF Computing, ReadsAreOfDeletions
  <2>10. NodesGone(d)'
    BY <2>6, <2>9, EmptyHasNone DEF NodesGone
  <2> QED BY <2>2, <2>5, <2>10 DEF Leaves, Deleting, Deleted
<1>6. CASE DeletePassFails(d)
  <2>1. /\ cleanUp'[d].pass = cleanUp[d].pass + 1 /\ cleanUp'[d].at = "links"
        /\ cleanUp[d].pass \in {1, 2}
        /\ cleanUp[d].pass # 2
    BY <1>6, <1>t DEF DeletePassFails, AfterPass, Deleting
  <2> QED BY <2>1 DEF Leaves, Deleting, Deleted
<1> QED BY <1>1, <1>2, <1>3, <1>4, <1>5, <1>6

\* Who raced or was not cleaned up is remembered.
LEMMA HistoryGrows ==
    ASSUME NEW z \in KgDocuments,
           \/ StartIngest(z) \/ UpsertRoot(z) \/ UpsertNode(z) \/ UpsertRelation(z)
           \/ IngestEnds(z) \/ IngestBreaks(z)
           \/ DeleteBegins(z) \/ DeleteReadsLinks(z) \/ DeleteTrimsLinks(z)
           \/ DeleteReadsNodes(z) \/ DeleteTrimsNodes(z) \/ DeletePassFails(z)
           \/ (\E e \in KgLaws : EditsNumber(z, e)) \/ LooksForStubs(z) \/ MergesStubs(z)
           \/ MergesNothing(z) \/ EditFails(z) \/ SetsNumber(z)
    PROVE  raced \subseteq raced' /\ unclean \subseteq unclean'
<1>1. CASE UpsertRoot(z) \/ UpsertNode(z) \/ UpsertRelation(z)
  <2>1. Writes(z)
    BY <1>1 DEF UpsertRoot, UpsertNode, UpsertRelation
  <2> QED BY <2>1 DEF Writes
<1>2. CASE DeleteTrimsLinks(z) \/ DeleteTrimsNodes(z)
  <2>1. TrimsRace(z)
    BY <1>2, Zenon DEF DeleteTrimsLinks, DeleteTrimsNodes
  <2> QED BY <2>1 DEF TrimsRace
<1>3. CASE DeletePassFails(z)
  BY <1>3 DEF DeletePassFails
<1>4. CASE MergesStubs(z) \/ SetsNumber(z)
  <2>1. (raced' = raced \/ raced' = raced \cup Computing) /\ unclean' = unclean
    BY <1>4, Zenon DEF MergesStubs, SetsNumber
  <2> QED BY <2>1
<1>5. CASE \/ StartIngest(z) \/ IngestEnds(z) \/ IngestBreaks(z)
           \/ DeleteBegins(z) \/ DeleteReadsLinks(z) \/ DeleteReadsNodes(z)
           \/ (\E e \in KgLaws : EditsNumber(z, e)) \/ LooksForStubs(z)
           \/ MergesNothing(z) \/ EditFails(z)
  <2>1. UNCHANGED <<raced, unclean>>
    BY <1>5 DEF StartIngest, IngestEnds, IngestBreaks, DeleteBegins, DeleteReadsLinks,
                DeleteReadsNodes, EditsNumber, LooksForStubs, MergesNothing, EditFails,
                kgHistoryVars
  <2> QED BY <2>1
<1> QED BY <1>1, <1>2, <1>3, <1>4, <1>5

\* What a document leaves behind stays nothing, whatever step is taken.
LEMMA VanishesStep ==
    ASSUME KnowledgeGraphInv, KnowledgeGraphNext
    PROVE  Vanishes'
<1> USE DEF KnowledgeGraphInv
<1> SUFFICES ASSUME NEW d \in KgDocuments, d \notin raced' \cup unclean'
             PROVE  Leaves(d)'
  BY DEF Vanishes
<1>1. PICK z \in KgDocuments :
        \/ StartIngest(z) \/ UpsertRoot(z) \/ UpsertNode(z) \/ UpsertRelation(z)
        \/ IngestEnds(z) \/ IngestBreaks(z)
        \/ DeleteBegins(z) \/ DeleteReadsLinks(z) \/ DeleteTrimsLinks(z)
        \/ DeleteReadsNodes(z) \/ DeleteTrimsNodes(z) \/ DeletePassFails(z)
        \/ (\E e \in KgLaws : EditsNumber(z, e)) \/ LooksForStubs(z) \/ MergesStubs(z)
        \/ MergesNothing(z) \/ EditFails(z) \/ SetsNumber(z)
  BY DEF KnowledgeGraphNext
<1>2. Leaves(d)
  BY <1>1, HistoryGrows DEF Vanishes
<1>3. CASE \/ StartIngest(z) \/ IngestEnds(z) \/ IngestBreaks(z)
           \/ (\E e \in KgLaws : EditsNumber(z, e)) \/ LooksForStubs(z)
           \/ MergesNothing(z) \/ EditFails(z)
  <2>1. UNCHANGED <<graph, links, cleanUp, readLinks, readNodes>>
    BY <1>3 DEF StartIngest, IngestEnds, IngestBreaks, EditsNumber, LooksForStubs,
           MergesNothing,
                EditFails, graphVars, kgRequestVars, readVars
  <2> QED BY <2>1, <1>2, NeutralNamesLess, LessLeaves
<1>4. CASE z = d /\ (UpsertRoot(z) \/ UpsertNode(z) \/ UpsertRelation(z))
  <2>1. Writes(d) /\ cleanUp' = cleanUp
    BY <1>4 DEF UpsertRoot, UpsertNode, UpsertRelation, kgRequestVars
  <2>2. cleanUp[d].pass = 0
    BY <2>1 DEF Writes
  <2> QED BY <2>1, <2>2 DEF Leaves, Deleting, Deleted
<1>5. CASE z = d /\ (\/ DeleteBegins(z) \/ DeleteReadsLinks(z) \/ DeleteTrimsLinks(z)
                     \/ DeleteReadsNodes(z) \/ DeleteTrimsNodes(z) \/ DeletePassFails(z))
  BY <1>2, <1>5, OwnDeletionLeaves
<1>6. CASE \/ (z # d /\ (\/ UpsertRoot(z) \/ UpsertNode(z) \/ UpsertRelation(z)
                         \/ DeleteBegins(z) \/ DeleteReadsLinks(z) \/ DeleteTrimsLinks(z)
                         \/ DeleteReadsNodes(z)
                         \/ DeleteTrimsNodes(z)
                         \/ DeletePassFails(z)))
           \/ MergesStubs(z) \/ SetsNumber(z)
  BY <1>2, <1>6, OthersNameLess, LessLeaves
<1> QED BY <1>1, <1>3, <1>4, <1>5, <1>6

\* The invariant holds after every step.
LEMMA KnowledgeGraphInvStep ==
    KnowledgeGraphInv /\ [KnowledgeGraphNext]_knowledgeGraphVars => KnowledgeGraphInv'
<1> SUFFICES ASSUME KnowledgeGraphInv, [KnowledgeGraphNext]_knowledgeGraphVars
             PROVE  KnowledgeGraphInv'
  OBVIOUS
<1>1. KnowledgeGraphTyped'
  BY KnowledgeGraphTypedStep DEF KnowledgeGraphInv
<1>2. CASE KnowledgeGraphNext
  <2>1. Survives' /\ Vanishes'
    BY <1>2, SurvivesStep, VanishesStep
  <2>2. PICK z \in KgDocuments :
           \/ StartIngest(z) \/ UpsertRoot(z) \/ UpsertNode(z) \/ UpsertRelation(z)
           \/ IngestEnds(z) \/ IngestBreaks(z)
           \/ UNCHANGED <<ingest, built, kgDone>>
    <3>1. PICK z \in KgDocuments :
            \/ StartIngest(z) \/ UpsertRoot(z) \/ UpsertNode(z) \/ UpsertRelation(z)
            \/ IngestEnds(z) \/ IngestBreaks(z)
            \/ DeleteBegins(z) \/ DeleteReadsLinks(z) \/ DeleteTrimsLinks(z)
            \/ DeleteReadsNodes(z) \/ DeleteTrimsNodes(z) \/ DeletePassFails(z)
            \/ (\E e \in KgLaws : EditsNumber(z, e)) \/ LooksForStubs(z) \/ MergesStubs(z)
            \/ MergesNothing(z) \/ EditFails(z) \/ SetsNumber(z)
      BY <1>2 DEF KnowledgeGraphNext
    <3>2. CASE DeleteTrimsNodes(z)
      <4>1. UNCHANGED kgWorkVars
        BY <3>2, Zenon DEF DeleteTrimsNodes
      <4> QED BY <4>1 DEF kgWorkVars
    <3> QED BY <3>1, <3>2 DEF DeleteBegins, DeleteReadsLinks, DeleteTrimsLinks,
                   DeleteReadsNodes,
              DeletePassFails, EditsNumber, LooksForStubs, MergesStubs, MergesNothing, EditFails,
              SetsNumber, kgWorkVars
  <2>3. BuiltIsDone'
    <3>1. CASE UNCHANGED <<ingest, built, kgDone>>
      BY <3>1 DEF BuiltIsDone, KnowledgeGraphInv
    <3> QED BY <2>2, <3>1, BuiltStep
  <2> QED BY <1>1, <2>1, <2>3 DEF KnowledgeGraphInv
<1>3. CASE UNCHANGED knowledgeGraphVars
  <2>1. BuiltIsDone'
    BY <1>3 DEF BuiltIsDone, KnowledgeGraphInv, knowledgeGraphVars, kgWorkVars
  <2>2. Survives'
    BY <1>3 DEF Survives, ReadsAgree, Contributes, HasNode, HasRelation, Owns, LiveNodes,
           OwnersOf,
                KnowledgeGraphInv, knowledgeGraphVars, graphVars, kgWorkVars, kgRequestVars,
                readVars, kgHistoryVars
  <2>3. Vanishes'
    BY <1>3 DEF Vanishes, Leaves, LinksGone, NodesGone, Owns, LiveNodes, OwnersOf, Deleting,
           Deleted,
                KnowledgeGraphInv, knowledgeGraphVars, graphVars, kgRequestVars, readVars,
                kgHistoryVars
  <2> QED BY <1>1, <2>1, <2>2, <2>3 DEF KnowledgeGraphInv
<1> QED BY <1>2, <1>3

\* The graph under any interleaving of ingests, deletions, edits and failures: a
\* document that was ingested to the end keeps its contribution while it exists,
\* and none of it is left when it is deleted (legal_kg_service.py:655, 662).
THEOREM OwnershipIsKept == KnowledgeGraphSpec => []OwnershipIsExact
BY KnowledgeGraphInvInit, KnowledgeGraphInvStep, InvIsExact, PTL DEF KnowledgeGraphSpec
=============================================================================
