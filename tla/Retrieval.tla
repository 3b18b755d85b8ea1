------------------------------- MODULE Retrieval -------------------------------
(***************************************************************************)
(* A search over several workspaces (_execute_search_documents of          *)
(* api/chat_agent.py, DeepRetriever.query), while documents are deleted    *)
(* and superseded: the cache of results in Redis, which nothing            *)
(* invalidates, the fan-out with its failing workspaces, reranking, the    *)
(* demotion of superseded documents, and the rows read again at the end.   *)
(*                                                                         *)
(* One chunk stands for a document.  The reranker's score is its           *)
(* Relevance, 0 for one below HRAG_MIN_RELEVANCE_SCORE, doubled so that a  *)
(* demoted score (HRAG_SUPERSEDED_DEMOTE = 1/2) is an integer.             *)
(***************************************************************************)
EXTENDS Naturals, FiniteSets, SequencesExt, Functions

CONSTANTS
    SearchDocs,          \* documents
    SearchWorkspaces,    \* the workspaces the user can see
    PlaceOf,             \* [document |-> its workspace]
    ChatFiles,           \* documents parsed for a chat and not embedded
    Relevance,           \* [document |-> what the reranker says of it]
    TopK,                \* top_k of the search
    Scopes,              \* the values of document_ids, {} for none
    MaxSearches,
    MaxSearchFaults,     \* lookups and workspaces that fail
    MaxEdits             \* documents deleted or superseded meanwhile

\* The score of a whole file, 1.0: the reranker gives none that is higher.
MaxScore == 2 * Cardinality(SearchDocs) + 2

ASSUME RetrievalAssumption ==
    /\ IsFiniteSet(SearchDocs)
    /\ PlaceOf \in [SearchDocs -> SearchWorkspaces]
    /\ Relevance \in [SearchDocs -> Nat]
    /\ \A d \in SearchDocs : 2 * Relevance[d] <= MaxScore
    /\ ChatFiles \subseteq SearchDocs
    /\ Scopes \subseteq SUBSET SearchDocs
    /\ {TopK, MaxSearches} \subseteq Nat \ {0}
    /\ {MaxSearchFaults, MaxEdits} \subseteq Nat

VARIABLES
    validity,            \* validity_status of each row, or "deleted"
    embedded,            \* the documents whose chunks are in ChromaDB
    retrieval_cache,     \* [workspace, document_ids |-> chunks with scores]
    search,              \* the search's local variables
    searchFaults,
    edits

retrievalVars == <<validity, embedded, retrieval_cache, search, searchFaults, edits>>

Keys == SearchWorkspaces \X SUBSET SearchDocs
Embeddable == SearchDocs \ ChatFiles

Scored == [doc : SearchDocs, score : 0..MaxScore]

Alive(d) == validity[d] # "deleted"

Fresh(n) ==
    [ phase |-> "idle", runs |-> n, document_ids |-> {}, scoped |-> FALSE,
      waiting |-> {}, raw |-> {}, reading |-> {}, retried |-> {}, hits |-> {},
      unsure |-> {}, all_chunks |-> {}, failed |-> {}, sources |-> <<>>,
      flagged |-> {}, warned |-> FALSE, superseded0 |-> {}, deleted0 |-> {} ]

\* raw holds the candidates of the workspaces in reading; all_chunks what the
\* others have returned.  hits and unsure record the workspaces answered from
\* the cache and those whose validity lookup failed; superseded0 and deleted0
\* are what the documents were when the search began.
SearchStates ==
    [ phase : {"idle", "searching", "sources", "over"}, runs : 0..MaxSearches,
      document_ids : SUBSET SearchDocs, scoped : BOOLEAN,
      waiting : SUBSET SearchWorkspaces, raw : SUBSET SearchDocs,
      reading : SUBSET SearchWorkspaces, retried : SUBSET SearchWorkspaces,
      hits : SUBSET SearchWorkspaces, unsure : SUBSET SearchWorkspaces,
      all_chunks : SUBSET Scored, failed : SUBSET SearchWorkspaces,
      sources : Seq(SearchDocs), flagged : SUBSET SearchDocs, warned : BOOLEAN,
      superseded0 : SUBSET SearchDocs, deleted0 : SUBSET SearchDocs ]

RetrievalTypeOK ==
    /\ validity \in [SearchDocs -> {"effective", "superseded", "deleted"}]
    /\ embedded \subseteq Embeddable
    /\ DOMAIN retrieval_cache \subseteq Keys
    /\ \A k \in DOMAIN retrieval_cache : Range(retrieval_cache[k]) \subseteq Scored
    /\ search \in SearchStates
    /\ search.waiting \cap search.reading = {}
    /\ Len(search.sources) <= TopK
    /\ searchFaults \in 0..MaxSearchFaults
    /\ edits \in 0..MaxEdits

RetrievalInit ==
    /\ validity = [d \in SearchDocs |-> "effective"]
    /\ embedded = Embeddable
    /\ retrieval_cache = <<>>
    /\ search = Fresh(0)
    /\ searchFaults = 0
    /\ edits = 0

CorpusKept == UNCHANGED <<validity, embedded, edits>>
Proceeds == searchFaults' = searchFaults
Faults == searchFaults < MaxSearchFaults /\ searchFaults' = searchFaults + 1

-----------------------------------------------------------------------------
(* Documents change.                                                       *)

\* Another document is found to replace d.
Supersede(d) ==
    /\ edits < MaxEdits
    /\ validity[d] = "effective"
    /\ validity' = [validity EXCEPT ![d] = "superseded"]
    /\ edits' = edits + 1
    /\ UNCHANGED <<embedded, retrieval_cache, search, searchFaults>>

\* d is deleted; a failure to delete its vectors is logged.
DeleteSearchDoc(d) ==
    /\ edits < MaxEdits
    /\ Alive(d)
    /\ validity' = [validity EXCEPT ![d] = "deleted"]
    /\ \/ embedded' = embedded \ {d} /\ Proceeds
       \/ embedded' = embedded /\ d \in embedded /\ Faults
    /\ edits' = edits + 1
    /\ UNCHANGED <<retrieval_cache, search>>

\* Five minutes have passed.
CacheExpires(k) ==
    /\ retrieval_cache' = Restrict(retrieval_cache, DOMAIN retrieval_cache \ {k})
    /\ CorpusKept
    /\ UNCHANGED <<search, searchFaults>>

-----------------------------------------------------------------------------
(* The fan-out.                                                            *)

\* _fetch_direct_document_content: whole files, for the documents without chunks.
DirectChunks(ids) ==
    {[doc |-> d, score |-> MaxScore] : d \in {d \in ids : Alive(d) /\ d \in ChatFiles}}

\* A search scoped to documents goes to the workspaces that contain them.
StartSearch ==
    /\ search.phase \in {"idle", "over"}
    /\ search.runs < MaxSearches
    /\ \E ids \in Scopes, scoped \in BOOLEAN :
          LET narrow == scoped /\ ids # {}
              places == {PlaceOf[d] : d \in {d \in ids : Alive(d)}}
          IN  search' = [Fresh(search.runs + 1) EXCEPT
                  !.phase = "searching",
                  !.document_ids = IF narrow THEN {d \in ids : Alive(d)} ELSE ids,
                  !.scoped = narrow,
                  !.waiting = IF narrow THEN SearchWorkspaces \cap places ELSE SearchWorkspaces,
                  !.all_chunks = DirectChunks(ids),
                  !.superseded0 = {d \in SearchDocs : validity[d] = "superseded"},
                  !.deleted0 = {d \in SearchDocs : ~Alive(d)}]
    /\ CorpusKept /\ Proceeds
    /\ UNCHANGED retrieval_cache

\* A scoped search asks each workspace for its own documents only.
IdsFor(w) ==
    IF search.scoped THEN {d \in search.document_ids : PlaceOf[d] = w} ELSE search.document_ids

Key(w) == <<w, IdsFor(w)>>

InScope(w) == {d \in Embeddable : PlaceOf[d] = w /\ (IdsFor(w) = {} \/ d \in IdsFor(w))}

\* A result of this workspace's retriever, kept or new, joins the others.
Returns(w, chunks) ==
    [search EXCEPT !.waiting = @ \ {w}, !.reading = @ \ {w},
                   !.raw = @ \ InScope(w), !.all_chunks = @ \cup Range(chunks)]

CacheHit(w) ==
    /\ search.phase = "searching"
    /\ w \in search.waiting
    /\ Key(w) \in DOMAIN retrieval_cache
    /\ search' = [Returns(w, retrieval_cache[Key(w)]) EXCEPT !.hits = @ \cup {w}]
    /\ CorpusKept /\ Proceeds
    /\ UNCHANGED retrieval_cache

\* _rrf_merge: every chunk that either search has found, once.
Fused(vectors, bm25) == vectors \cup bm25

\* The vectors, fused with what the lexical index knows, which may be older
\* than the corpus or fail.  A failing get counts as a miss.
Retrieve(w) ==
    /\ search.phase = "searching"
    /\ w \in search.waiting
    /\ \E bm25 \in SUBSET InScope(w) :
          search' = [search EXCEPT
              !.waiting = @ \ {w}, !.reading = @ \cup {w},
              !.raw = @ \cup Fused(embedded \cap InScope(w), bm25)]
    /\ \/ Key(w) \notin DOMAIN retrieval_cache /\ Proceeds
       \/ Faults
    /\ CorpusKept
    /\ UNCHANGED retrieval_cache

\* The orders in which a set of scored chunks may come out of a sort.
Sorted(S) ==
    {s \in SetToSeqs(S) : \A i, j \in DOMAIN s : i < j => s[i].score >= s[j].score}

FirstOf(n, s) == SubSeq(s, 1, IF Len(s) < n THEN Len(s) ELSE n)

\* _rerank_chunks: the relevant ones, or the first three.
Reranked(docs, k) ==
    LET relevant == {[doc |-> d, score |-> 2 * Relevance[d]] : d \in {d \in docs : Relevance[d] > 0}}
        rest == {[doc |-> d, score |-> 0] : d \in docs}
    IN  IF relevant # {} THEN {FirstOf(k, s) : s \in Sorted(relevant)}
                         ELSE {FirstOf(3, s) : s \in Sorted(rest)}

\* Mutant: the list is demoted but not sorted again.
DemotedInPlace(s, old, k) ==
    {FirstOf(k, [i \in DOMAIN s |->
        IF s[i].doc \in old THEN [s[i] EXCEPT !.score = @ \div 2] ELSE s[i]])}

\* _demote_superseded
Demoted(s, old, k) ==
    {FirstOf(k, t) : t \in Sorted({IF c.doc \in old THEN [c EXCEPT !.score = @ \div 2] ELSE c : c \in Range(s)})}

\* _fetch_validity_map; empty if the lookup fails.
SupersededAmong(docs, known) == IF known THEN {d \in docs : validity[d] = "superseded"} ELSE {}

\* The cache, with the result of a workspace in place of an older one.
Cached(w, t) ==
    [k \in DOMAIN retrieval_cache \cup {Key(w)} |-> IF k = Key(w) THEN t ELSE retrieval_cache[k]]

\* The validity of the candidates is read; they are reranked, demoted unless
\* the caller has named documents, and kept for the next search.
Rerank(w) ==
    /\ search.phase = "searching"
    /\ w \in search.reading
    /\ \E known \in BOOLEAN, kept \in BOOLEAN :
          LET docs == search.raw \cap InScope(w)
              old == SupersededAmong(docs, known)
              demote == IdsFor(w) = {} /\ old # {}
          IN  /\ IF known /\ kept THEN Proceeds ELSE Faults
              /\ known \/ kept                      \* one failure at a time
              /\ \E s \in Reranked(docs, IF demote THEN 2 * TopK ELSE TopK) :
                 \E t \in IF demote THEN Demoted(s, old, TopK) ELSE {s} :
                    /\ search' = [Returns(w, t) EXCEPT
                           !.unsure = IF known THEN @ ELSE @ \cup {w}]
                    /\ retrieval_cache' = IF kept THEN Cached(w, t) ELSE retrieval_cache
    /\ CorpusKept

\* The workspace's search raises.  Outside a scoped search, memory that runs
\* out is given a second try.
WorkspaceFails(w) ==
    /\ search.phase = "searching"
    /\ w \in search.reading
    /\ Faults
    /\ \/ search' = [Returns(w, <<>>) EXCEPT !.failed = @ \cup {w}]
       \/ /\ ~search.scoped /\ w \notin search.retried
          /\ search' = [search EXCEPT !.reading = @ \ {w}, !.waiting = @ \cup {w},
                                      !.raw = @ \ InScope(w), !.retried = @ \cup {w}]
    /\ CorpusKept
    /\ UNCHANGED retrieval_cache

-----------------------------------------------------------------------------
(* The answer's sources.                                                   *)

\* The metadata of a source: has its document been superseded?
SupersededNow(d) == validity[d] = "superseded"

\* The context, and a status event, say that results may be missing.
Warns == search.failed # {}

\* The best of all workspaces, with the rows' metadata read now.
BuildSources ==
    /\ search.phase = "searching"
    /\ search.waiting = {} /\ search.reading = {}
    /\ \E s \in Sorted(search.all_chunks) :
          LET best == [i \in DOMAIN FirstOf(TopK, s) |-> s[i].doc]
          IN  search' = [search EXCEPT
                  !.phase = "sources",
                  !.sources = best,
                  !.flagged = {d \in Range(best) : SupersededNow(d)},
                  !.warned = Warns]
    /\ CorpusKept /\ Proceeds
    /\ UNCHANGED retrieval_cache

Existing(sources) ==
    LET upto[i \in 0..Len(sources)] ==
            IF i = 0 THEN <<>>
            ELSE IF Alive(sources[i]) THEN Append(upto[i - 1], sources[i]) ELSE upto[i - 1]
    IN  upto[Len(sources)]

\* Sources whose document is gone are dropped.
DropOrphans ==
    /\ search.phase = "sources"
    /\ search' = [search EXCEPT !.phase = "over", !.sources = Existing(search.sources)]
    /\ CorpusKept /\ Proceeds
    /\ UNCHANGED retrieval_cache

RetrievalNext ==
    \/ \E d \in SearchDocs : Supersede(d) \/ DeleteSearchDoc(d)
    \/ \E k \in DOMAIN retrieval_cache : CacheExpires(k)
    \/ StartSearch
    \/ \E w \in SearchWorkspaces :
          \/ CacheHit(w)
          \/ Retrieve(w)
          \/ Rerank(w)
          \/ WorkspaceFails(w)
    \/ BuildSources
    \/ DropOrphans

RetrievalSpec == RetrievalInit /\ [][RetrievalNext]_retrievalVars

-----------------------------------------------------------------------------
(* Properties.                                                             *)

Position(d) == CHOOSE i \in DOMAIN search.sources : search.sources[i] = d

\* A document deleted before the search began is no source, though its vectors,
\* the lexical index or the cache still know it.
SourcesExist ==
    search.phase = "over" => Range(search.sources) \cap search.deleted0 = {}

\* A source superseded before the search began is marked so, though its ranking
\* may come from a cached result older than that.
SupersededIsMarked ==
    search.phase = "over" =>
       Range(search.sources) \cap search.superseded0 \subseteq search.flagged

\* A workspace that could not be searched is not passed over in silence.
FailureIsTold == search.phase \in {"sources", "over"} /\ search.failed # {} => search.warned

\* A document superseded before the search began gives way to an effective one
\* unless it is twice as relevant; not where documents were named, a cached
\* result was used, a lookup failed, or a workspace holds more documents than
\* twice as many as are asked for.
EffectiveFirst ==
    search.phase = "over" /\ search.document_ids = {} =>
       \A d \in Range(search.sources) \cap search.superseded0, e \in Embeddable :
          /\ validity[e] = "effective"
          /\ {PlaceOf[d], PlaceOf[e]} \cap (search.hits \cup search.unsure \cup search.failed) = {}
          /\ Cardinality(InScope(PlaceOf[e])) <= 2 * TopK
          /\ Relevance[d] < 2 * Relevance[e]
          => e \in Range(search.sources) /\ Position(e) < Position(d)

\* What a search returns can be relied on although the cache is never
\* invalidated: its sources exist, superseded ones are marked and ranked behind,
\* and a part of the corpus that was not searched is mentioned.
SearchIsHonest ==
    /\ SourcesExist
    /\ SupersededIsMarked
    /\ FailureIsTold
    /\ EffectiveFirst
=============================================================================
