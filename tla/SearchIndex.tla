----------------------------- MODULE SearchIndex -----------------------------
(***************************************************************************)
(* The lexical index of a workspace: get_or_build_index of                 *)
(* backend/app/services/retrieval/bm25_index.py.  Every process caches an  *)
(* index, one is shared on disk, and both count as current when they hold  *)
(* as many chunks as the vector store.                                     *)
(***************************************************************************)
EXTENDS Naturals, FiniteSets

CONSTANTS
    IndexedChunks,   \* chunks that may be in the collection
    SearchProcesses, \* processes with an _index_cache of their own
    MaxCorpusChanges \* bound on changes to the collection

ASSUME SearchIndexAssumption == IsFiniteSet(IndexedChunks) /\ MaxCorpusChanges \in Nat

VARIABLES
    corpus,      \* chunks in the collection
    cache,       \* [SearchProcesses -> an index, as {the chunks in it}, or {}]
    disk,        \* the persisted index, or {}
    lookup,      \* [SearchProcesses -> idle, counted, load, build, built, answer]
    counted,     \* [SearchProcesses -> collection.count() of the search]
    index,       \* [SearchProcesses -> the index the search will use]
    seen,        \* [SearchProcesses -> corpora since the search began]
    restarted,   \* processes that lost their cache
    changes

indexVars == <<corpus, cache, disk, lookup, counted, index, seen, restarted,
               changes>>

NoIndex == {}
IndexOrNone == {NoIndex} \cup {{c} : c \in SUBSET IndexedChunks}

SearchIndexTypeOK ==
    /\ corpus \subseteq IndexedChunks
    /\ cache \in [SearchProcesses -> IndexOrNone]
    /\ disk \in IndexOrNone
    /\ lookup \in [SearchProcesses -> {"idle", "counted", "load", "build", "built", "answer"}]
    /\ counted \in [SearchProcesses -> 0..Cardinality(IndexedChunks)]
    /\ index \in [SearchProcesses -> IndexOrNone]
    /\ seen \in [SearchProcesses -> SUBSET SUBSET IndexedChunks]
    /\ restarted \subseteq SearchProcesses
    /\ changes \in 0..MaxCorpusChanges

SearchIndexInit ==
    /\ corpus \in {{}} \cup {{c} : c \in IndexedChunks}
    /\ cache = [p \in SearchProcesses |-> NoIndex]
    /\ disk = NoIndex
    /\ lookup = [p \in SearchProcesses |-> "idle"]
    /\ counted = [p \in SearchProcesses |-> 0]
    /\ index = [p \in SearchProcesses |-> NoIndex]
    /\ seen = [p \in SearchProcesses |-> {}]
    /\ restarted = {}
    /\ changes = 0

\* An index that has the counted number of chunks passes for current.
Matches(i, n) == \E c \in i : Cardinality(c) = n

\* vector_store.count().
CountsChunks(p) ==
    /\ lookup[p] = "idle"
    /\ counted' = [counted EXCEPT ![p] = Cardinality(corpus)]
    /\ seen' = [seen EXCEPT ![p] = {corpus}]
    /\ lookup' = [lookup EXCEPT ![p] = "counted"]
    /\ UNCHANGED <<corpus, cache, disk, index, restarted, changes>>

\* The cached index, if it matches.
ChecksCache(p) ==
    LET fresh == Matches(cache[p], counted[p]) IN
    /\ lookup[p] = "counted"
    /\ index' = [index EXCEPT ![p] = IF fresh THEN cache[p] ELSE @]
    /\ lookup' = [lookup EXCEPT ![p] = IF fresh THEN "answer" ELSE "load"]
    /\ UNCHANGED <<corpus, cache, disk, counted, seen, restarted, changes>>

\* Mutant: what is on disk is taken as it is.
PersistedUnchecked(p) == disk # NoIndex

PersistedMatches(p) == Matches(disk, counted[p])

\* _load_index: the persisted index, if it matches, else a build.
LoadsIndex(p) ==
    /\ lookup[p] = "load"
    /\ IF PersistedMatches(p)
         THEN /\ index' = [index EXCEPT ![p] = disk]
              /\ cache' = [cache EXCEPT ![p] = disk]
              /\ lookup' = [lookup EXCEPT ![p] = "answer"]
         ELSE lookup' = [lookup EXCEPT ![p] = "build"] /\ UNCHANGED <<index, cache>>
    /\ UNCHANGED <<corpus, disk, counted, seen, restarted, changes>>

\* _build_index reads the collection.
BuildsIndex(p) ==
    /\ lookup[p] = "build"
    /\ index' = [index EXCEPT ![p] = {corpus}]
    /\ lookup' = [lookup EXCEPT ![p] = "built"]
    /\ UNCHANGED <<corpus, cache, disk, counted, seen, restarted, changes>>

\* _save_index (or the disk is full), then the cache.
StoresIndex(p) ==
    /\ lookup[p] = "built"
    /\ disk' \in {disk, index[p]}
    /\ cache' = [cache EXCEPT ![p] = index[p]]
    /\ lookup' = [lookup EXCEPT ![p] = "answer"]
    /\ UNCHANGED <<corpus, counted, index, seen, restarted, changes>>

\* bm25_search ranks the chunks of the index.
AnswersSearch(p) ==
    /\ lookup[p] = "answer"
    /\ lookup' = [lookup EXCEPT ![p] = "idle"]
    /\ index' = [index EXCEPT ![p] = NoIndex]
    /\ counted' = [counted EXCEPT ![p] = 0]
    /\ seen' = [seen EXCEPT ![p] = {}]
    /\ UNCHANGED <<corpus, cache, disk, restarted, changes>>

\* The collection changes: a document is embedded or deleted.
CorpusChanges ==
    /\ changes < MaxCorpusChanges
    /\ changes' = changes + 1
    /\ \E c \in IndexedChunks :
          corpus' = IF c \in corpus THEN corpus \ {c} ELSE corpus \cup {c}
    /\ seen' = [p \in SearchProcesses |-> IF lookup[p] = "idle" THEN {}
                                          ELSE seen[p] \cup {corpus'}]
    /\ UNCHANGED <<cache, disk, lookup, counted, index, restarted>>

\* invalidate_cache, in the process that cloned a document: its own cache, then
\* the file.
InvalidatesIndex(p) ==
    /\ changes \in 1..MaxCorpusChanges
    /\ cache' = [cache EXCEPT ![p] = NoIndex]
    /\ disk' = NoIndex
    /\ UNCHANGED <<corpus, lookup, counted, index, seen, restarted, changes>>

\* A process restarts; the file survives.
SearchProcessRestarts(p) ==
    /\ p \notin restarted
    /\ restarted' = restarted \cup {p}
    /\ cache' = [cache EXCEPT ![p] = NoIndex]
    /\ lookup' = [lookup EXCEPT ![p] = "idle"]
    /\ index' = [index EXCEPT ![p] = NoIndex]
    /\ counted' = [counted EXCEPT ![p] = 0]
    /\ seen' = [seen EXCEPT ![p] = {}]
    /\ UNCHANGED <<corpus, disk, changes>>

SearchIndexNext ==
    \/ \E p \in SearchProcesses :
          \/ CountsChunks(p)
          \/ ChecksCache(p)
          \/ LoadsIndex(p)
          \/ BuildsIndex(p)
          \/ StoresIndex(p)
          \/ AnswersSearch(p)
          \/ InvalidatesIndex(p)
          \/ SearchProcessRestarts(p)
    \/ CorpusChanges

SearchIndexSpec == SearchIndexInit /\ [][SearchIndexNext]_indexVars

-----------------------------------------------------------------------------
\* A search answers from a corpus of the same size as one that the collection
\* had since the search began, whoever rebuilt, persisted or invalidated the
\* index meanwhile.  (The same size is all that is guaranteed: an index from
\* before one document was replaced by another passes for current.)
AnswersFromRightSize ==
    \A p \in SearchProcesses :
        lookup[p] = "answer" =>
            \E c \in seen[p] : Matches(index[p], Cardinality(c))
=============================================================================
