------------------------------- MODULE Figures -------------------------------
(***************************************************************************)
(* The pictures and tables of a document that Docling has converted:       *)
(* _parse_with_docling (deep_document_parser.py) takes them out, puts the  *)
(* pictures back into the markdown and gives each of them to a chunk, and  *)
(* caption_worker.py asks a model for their captions, a few at a time, and *)
(* writes them into the rows, the markdown and the chunks.                 *)
(*                                                                         *)
(* A figure is the number of its item in the document.                     *)
(***************************************************************************)
EXTENDS Naturals, Sequences, FiniteSets, SequencesExt

CONSTANTS
    Documented,         \* what Docling may make of a file, see below
    MaxImages,          \* HRAG_MAX_IMAGES_PER_DOC
    MaxItems,           \* the items of a chunk
    CaptionSlots,       \* HRAG_CAPTION_CONCURRENCY
    MaxFigureFaults,    \* bound on pictures and captions that fail
    MaxCaptionRuns      \* bound on deliveries of the caption message

Kind == {"text", "picture", "table"}

\* The pages of the items ascend.  A row of a table is known by its first cells;
\* a picture may bring a caption of its own.
ASSUME FiguresAssumption ==
    /\ Documented \subseteq
          Seq([kind : Kind, page : Nat, rows : Seq(Nat \ {0}), captioned : BOOLEAN])
    /\ \A d \in Documented : \A i, j \in DOMAIN d :
          /\ d[i].kind = "table" <=> d[i].rows # <<>>
          /\ d[i].captioned => d[i].kind = "picture"
          /\ i < j => d[i].page <= d[j].page
    /\ {MaxItems, CaptionSlots} \subseteq Nat \ {0}
    /\ {MaxImages, MaxFigureFaults, MaxCaptionRuns} \subseteq Nat

VARIABLES
    items,              \* DoclingDocument: its items in reading order
    figureStage,
    images,             \* the pictures that were saved, DocumentImage
    tables,             \* the tables that have a text, DocumentTable
    markdown,           \* of each item: the picture it shows, the captions after it
    figureChunks,       \* [first, last, page, images, tables, captions]
    captions,           \* the rows that have a caption
    asking,             \* the tasks of this run: [figure -> state]
    figureFaults,
    captionRuns

figureVars == <<items, figureStage, images, tables, markdown, figureChunks, captions, asking,
                figureFaults, captionRuns>>

CaptionStages == {"images", "tables", "markdown", "chunks"}

FiguresTypeOK ==
    /\ items \in Documented
    /\ figureStage \in {"converted", "queued", "done"} \cup CaptionStages
    /\ images \cup tables \cup captions \subseteq DOMAIN items
    /\ \A p \in DOMAIN asking : asking[p] \in {"waiting", "asked", "captioned", "failed"}
    /\ Cardinality({p \in DOMAIN asking : asking[p] = "asked"}) <= CaptionSlots
    /\ captionRuns <= MaxCaptionRuns

FiguresInit ==
    /\ items \in Documented
    /\ figureStage = "converted"
    /\ images = {} /\ tables = {} /\ captions = {}
    /\ markdown = <<>> /\ figureChunks = <<>>
    /\ asking = <<>>
    /\ figureFaults = 0 /\ captionRuns = 0

\* Numbers, in the order of the document.
Listed(S) == [k \in 1..Cardinality(S) |-> CHOOSE i \in S : Cardinality({j \in S : j <= i}) = k]

Of(kind) == {i \in DOMAIN items : items[i].kind = kind}
On(S, page) == {i \in S : items[i].page = page}
FigureFault == figureFaults < MaxFigureFaults /\ figureFaults' = figureFaults + 1
NoFigureFault == UNCHANGED figureFaults

-----------------------------------------------------------------------------
(* _parse_with_docling.                                                    *)

\* _extract_images_with_urls: the first so many of those that can be saved.
Saved(readable) == {i \in readable : Cardinality({j \in readable : j < i}) < MaxImages}

\* Mutant of PicUrls: a picture that is not saved leaves no entry.
PicUrlsOfSaved(saved) == Listed(saved)

\* pic_url_list: one entry for every picture, in their order; 0 is no image.
PicUrls(saved) ==
    LET pictures == Listed(Of("picture"))
    IN [k \in DOMAIN pictures |-> IF pictures[k] \in saved THEN pictures[k] ELSE 0]

\* _inject_image_references: the next URL for the next placeholder.
Injected(urls) ==
    LET nth(i) == Cardinality({j \in Of("picture") : j <= i})
    IN [i \in DOMAIN items |->
          [shows |-> IF i \in Of("picture") /\ nth(i) <= Len(urls) THEN urls[nth(i)] ELSE 0,
           notes |-> <<>>]]

\* HybridChunker: pieces of the text and the tables, as it likes.
Readable == Listed(DOMAIN items \ Of("picture"))

Windows ==
    LET n == Len(Readable)
        Ends(s, k) == IF k = Len(s) THEN n ELSE s[k+1] - 1
    IN IF n = 0 THEN {<<>>}
       ELSE {w \in {[k \in DOMAIN s |-> <<s[k], Ends(s, k)>>] :
                       s \in {Listed({1} \cup cut) : cut \in SUBSET (2..n)}} :
               \A k \in DOMAIN w : w[k][2] - w[k][1] < MaxItems}

\* _chunk_document: a figure goes to the first chunk that begins on its page.
Chunked(w, saved, tabled) ==
    LET page(k) == items[Readable[w[k][1]]].page
        firstOf(k) == \A j \in 1..k-1 : page(j) # page(k)
        own(k, S) == IF firstOf(k) THEN On(S, page(k)) ELSE {}
    IN [k \in DOMAIN w |->
          [page |-> page(k), images |-> own(k, saved), tables |-> own(k, tabled),
           captions |-> Listed({i \in own(k, saved) : items[i].captioned})]]

\* What is taken out is stored with it; the rows keep the picture's own caption.
ParseFigures ==
    /\ figureStage = "converted"
    /\ \E readable \in SUBSET Of("picture"), tabled \in SUBSET Of("table"), w \in Windows :
        /\ IF readable = Of("picture") /\ tabled = Of("table") THEN NoFigureFault
           ELSE FigureFault
        /\ images' = Saved(readable)
        /\ tables' = tabled
        /\ markdown' = Injected(PicUrls(Saved(readable)))
        /\ figureChunks' = Chunked(w, Saved(readable), tabled)
        /\ captions' = {i \in Saved(readable) : items[i].captioned}
    /\ figureStage' = "queued"
    /\ UNCHANGED <<items, asking, captionRuns>>

-----------------------------------------------------------------------------
(* handle_caption.                                                         *)

AskFor(S) == asking' = [i \in S \ captions |-> "waiting"]

TakeCaption ==
    /\ figureStage = "queued" /\ captionRuns < MaxCaptionRuns
    /\ captionRuns' = captionRuns + 1
    /\ IF images \cup tables = {} THEN figureStage' = "done" /\ UNCHANGED asking
       ELSE figureStage' = "images" /\ AskFor(images)
    /\ UNCHANGED <<items, images, tables, markdown, figureChunks, captions, figureFaults>>

InCall == {i \in DOMAIN asking : asking[i] = "asked"}

\* Mutant of AskModel: without the semaphore.
AskModelAtOnce(i) ==
    /\ asking[i] = "waiting"
    /\ asking' = [asking EXCEPT ![i] = "asked"]
    /\ UNCHANGED <<items, figureStage, images, tables, markdown, figureChunks, captions,
                   figureFaults, captionRuns>>

AskModel(i) ==
    /\ asking[i] = "waiting" /\ Cardinality(InCall) < CaptionSlots
    /\ asking' = [asking EXCEPT ![i] = "asked"]
    /\ UNCHANGED <<items, figureStage, images, tables, markdown, figureChunks, captions,
                   figureFaults, captionRuns>>

\* One caption that fails is left out, and the others are kept.
ModelAnswers(i) ==
    /\ asking[i] = "asked"
    /\ \/ asking' = [asking EXCEPT ![i] = "captioned"] /\ NoFigureFault
       \/ asking' = [asking EXCEPT ![i] = "failed"] /\ FigureFault
    /\ UNCHANGED <<items, figureStage, images, tables, markdown, figureChunks, captions,
                   captionRuns>>

Gathered == \A i \in DOMAIN asking : asking[i] \in {"captioned", "failed"}

\* The captions are committed, first those of the images, then those of the tables.
CommitCaptions ==
    /\ figureStage \in {"images", "tables"} /\ Gathered
    /\ captions' = captions \cup {i \in DOMAIN asking : asking[i] = "captioned"}
    /\ IF figureStage = "images" THEN figureStage' = "tables" /\ AskFor(tables)
       ELSE /\ figureStage' = (IF tables = {} THEN "chunks" ELSE "markdown")
            /\ asking' = <<>>
    /\ UNCHANGED <<items, images, tables, markdown, figureChunks, figureFaults, captionRuns>>

\* _inject_table_captions: a caption goes by the first row of its table.  A table
\* in the markdown takes the first of its rows that a caption goes by, unless a
\* table before it took it; 0 is none.
TableKeys == {Head(items[j].rows) : j \in tables \cap captions}
RowTaken(i, used) ==
    LET rows == items[i].rows
        left == {r \in DOMAIN rows : rows[r] \in TableKeys \ used}
    IN IF left = {} THEN 0 ELSE rows[CHOOSE r \in left : \A h \in left : r <= h]
Taken ==
    LET key[i \in DOMAIN items] == RowTaken(i, {key[j] : j \in 1..i-1})
    IN key

\* Of the tables that begin alike the last one's caption is kept.
CaptionFor(i) ==
    LET named == {j \in tables \cap captions : Head(items[j].rows) = Taken[i]}
    IN IF Taken[i] = 0 THEN <<>> ELSE <<CHOOSE j \in named : \A h \in named : h <= j>>

Captioned(md) == [i \in DOMAIN md |-> [md[i] EXCEPT !.notes = CaptionFor(i) \o @]]

\* The markdown that is stored by now is the one that is written to.
CaptionMarkdown ==
    /\ figureStage = "markdown"
    /\ figureStage' = "chunks"
    /\ markdown' = Captioned(markdown)
    /\ UNCHANGED <<items, images, tables, figureChunks, captions, asking, figureFaults,
                   captionRuns>>

\* _reenrich_embeddings: the text of the chunk as it was parsed, and the captions.
Enrich(chunk) ==
    Listed({i \in chunk.images : items[i].captioned})
       \o Listed((chunk.images \cup chunk.tables) \cap captions)

CaptionChunks ==
    /\ figureStage = "chunks"
    /\ figureStage' = "done"
    /\ figureChunks' = [k \in DOMAIN figureChunks |->
                          [figureChunks[k] EXCEPT !.captions = Enrich(figureChunks[k])]]
    /\ UNCHANGED <<items, images, tables, markdown, captions, asking, figureFaults, captionRuns>>

\* Something else fails: what is left of the captions is given up, not the document.
CaptionsFail ==
    /\ figureStage \in CaptionStages /\ InCall = {} /\ FigureFault
    /\ figureStage' = "done"
    /\ asking' = <<>>
    /\ UNCHANGED <<items, images, tables, markdown, figureChunks, captions, captionRuns>>

\* The worker dies, or its time is up, and the message is delivered again.
CaptionWorkerDies ==
    /\ figureStage \in CaptionStages /\ captionRuns < MaxCaptionRuns
    /\ figureStage' = "queued"
    /\ asking' = <<>>
    /\ UNCHANGED <<items, images, tables, markdown, figureChunks, captions, figureFaults,
                   captionRuns>>

FiguresNext ==
    \/ ParseFigures \/ TakeCaption \/ CommitCaptions \/ CaptionMarkdown \/ CaptionChunks
    \/ CaptionsFail \/ CaptionWorkerDies
    \/ \E i \in DOMAIN asking : AskModel(i) \/ ModelAnswers(i)

FiguresSpec == FiguresInit /\ [][FiguresNext]_figureVars

-----------------------------------------------------------------------------
(* Properties.                                                             *)

\* A picture is shown in its own place if it was saved, and nowhere else.
PicturesInPlace ==
    \A i \in DOMAIN markdown : markdown[i].shows = IF i \in images THEN i ELSE 0

\* A figure belongs to one chunk at most, which begins on its page; it belongs
\* to none only if no chunk does.
FiguresAssigned ==
    \A i \in images \cup tables :
        LET owners == {k \in DOMAIN figureChunks :
                         i \in figureChunks[k].images \cup figureChunks[k].tables}
            begins == {k \in DOMAIN figureChunks : figureChunks[k].page = items[i].page}
        IN /\ Cardinality(owners) <= 1 /\ owners \subseteq begins
           /\ owners = {} => begins = {}

\* A caption stands after its own table if no other table has a row that reads
\* like the first of this one, and once for every time the message was taken.
Noted(j) == {n \in (DOMAIN markdown) \X (1..MaxCaptionRuns) :
               n[2] \in DOMAIN markdown[n[1]].notes /\ markdown[n[1]].notes[n[2]] = j}
CaptionsInPlace ==
    \A i \in DOMAIN markdown : LET notes == markdown[i].notes IN
        /\ Len(notes) <= captionRuns
        /\ \A j \in Range(notes) :
              /\ j \in captions
              /\ (\A h \in Of("table") \ {j} : Head(items[j].rows) \notin Range(items[h].rows)) =>
                    i = j
              /\ Cardinality(Noted(j)) <= captionRuns

\* In the end a chunk has the caption of each of its figures, once unless the
\* picture brought it along.
CaptionsSearchable ==
    figureStage = "done" /\ figureFaults = 0 =>
        \A k \in DOMAIN figureChunks : LET c == figureChunks[k] IN
            \A i \in c.images \cup c.tables :
                /\ i \in captions
                /\ Cardinality({n \in DOMAIN c.captions : c.captions[n] = i})
                     = IF items[i].captioned THEN 2 ELSE 1

FiguresAreTheirOwn ==
    PicturesInPlace /\ FiguresAssigned /\ CaptionsInPlace /\ CaptionsSearchable
=============================================================================
