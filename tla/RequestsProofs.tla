---------------------------- MODULE RequestsProofs ----------------------------
(***************************************************************************)
(* Proofs about the parts of Requests that have no module of their own for *)
(* theirs: dead letters, the lexical index, chat sessions, the answering   *)
(* loop, memberships, document types, accounts, and starts; and that       *)
(* Requests keeps what all its parts promise.                              *)
(***************************************************************************)
EXTENDS Requests, DocumentsProofs, FiniteSetTheorems, SequenceTheorems, TLAPS

-----------------------------------------------------------------------------
(* Dead letters.                                                           *)

Given == dropped \cup cutOff \cup purged     \* messages that are nowhere

\* No message is in two places, and none is forgotten.
OnePlace ==
    /\ deadQueue \cap workQueue = {}
    /\ Given \cap (deadQueue \cup workQueue) = {}
    /\ \A a \in Admins : batch[a] \cap (deadQueue \cup workQueue \cup Given) = {}
    /\ \A a, b \in Admins : a # b => batch[a] \cap batch[b] = {}
    /\ \A m \in DeadMessages :
          m \in deadQueue \cup workQueue \cup Given \/ \E a \in Admins : m \in batch[a]

\* Every reachable state is well typed.
THEOREM DeadLettersTyped == DeadLettersSpec => []DeadLettersTypeOK
<1> USE DeadLettersAssumption
<1>1. DeadLettersInit => DeadLettersTypeOK
  BY DEF DeadLettersInit, DeadLettersTypeOK
<1>2. DeadLettersTypeOK /\ [DeadLettersNext]_deadLetterVars => DeadLettersTypeOK'
  <2> SUFFICES ASSUME DeadLettersTypeOK, [DeadLettersNext]_deadLetterVars
               PROVE  DeadLettersTypeOK'
    OBVIOUS
  <2> USE DEF DeadLettersTypeOK, RetryFault, Batches
  <2>1. ASSUME NEW a \in Admins, TakeBatch(a)
        PROVE  DeadLettersTypeOK'
    BY <2>1 DEF TakeBatch
  <2>2. ASSUME NEW a \in Admins, TakeAnswerLost(a)
        PROVE  DeadLettersTypeOK'
    BY <2>2 DEF TakeAnswerLost
  <2>3. ASSUME NEW a \in Admins, Republish(a)
        PROVE  DeadLettersTypeOK'
    BY <2>3 DEF Republish
  <2>4. ASSUME NEW a \in Admins, RepublishFails(a)
        PROVE  DeadLettersTypeOK'
    BY <2>4 DEF RepublishFails
  <2>5. ASSUME NEW a \in Admins, RetryDies(a)
        PROVE  DeadLettersTypeOK'
    BY <2>5 DEF RetryDies
  <2>6. CASE PurgeDead
    BY <2>6 DEF PurgeDead
  <2>7. ASSUME NEW m \in DeadMessages, DiesAgain(m)
        PROVE  DeadLettersTypeOK'
    BY <2>7 DEF DiesAgain
  <2>8. CASE UNCHANGED deadLetterVars
    BY <2>8 DEF deadLetterVars
  <2> QED
    BY <2>1, <2>2, <2>3, <2>4, <2>5, <2>6, <2>7, <2>8 DEF DeadLettersNext
<1> QED
  BY <1>1, <1>2, PTL DEF DeadLettersSpec

LEMMA OnePlaceStep ==
    ASSUME DeadLettersTypeOK, OnePlace, [DeadLettersNext]_deadLetterVars
    PROVE  OnePlace'
<1> USE DEF DeadLettersTypeOK, OnePlace, Given
<1>1. ASSUME NEW a \in Admins, TakeBatch(a)
      PROVE  OnePlace'
  <2>1. PICK b \in SUBSET deadQueue :
           deadQueue' = deadQueue \ b /\ batch' = [batch EXCEPT ![a] = b]
    BY <1>1 DEF TakeBatch, Batches
  <2> QED
    BY <1>1, <2>1 DEF TakeBatch
<1>2. ASSUME NEW a \in Admins, TakeAnswerLost(a)
      PROVE  OnePlace'
  <2>1. PICK b \in SUBSET deadQueue :
           deadQueue' = deadQueue \ b /\ cutOff' = cutOff \cup b
    BY <1>2 DEF TakeAnswerLost, Batches
  <2> QED
    BY <1>2, <2>1 DEF TakeAnswerLost
<1>3. ASSUME NEW a \in Admins, Republish(a)
      PROVE  OnePlace'
  <2>1. PICK m \in batch[a] :
           workQueue' = workQueue \cup {m} /\ batch' = [batch EXCEPT ![a] = @ \ {m}]
    BY <1>3 DEF Republish
  <2> QED
    BY <1>3, <2>1 DEF Republish
<1>4. ASSUME NEW a \in Admins, RepublishFails(a)
      PROVE  OnePlace'
  <2>1. PICK m \in batch[a] :
           dropped' = dropped \cup {m} /\ batch' = [batch EXCEPT ![a] = @ \ {m}]
    BY <1>4 DEF RepublishFails
  <2> QED
    BY <1>4, <2>1 DEF RepublishFails
<1>5. ASSUME NEW a \in Admins, RetryDies(a)
      PROVE  OnePlace'
  BY <1>5 DEF RetryDies
<1>6. CASE PurgeDead
  BY <1>6 DEF PurgeDead
<1>7. ASSUME NEW m \in DeadMessages, DiesAgain(m)
      PROVE  OnePlace'
  BY <1>7 DEF DiesAgain
<1>8. CASE UNCHANGED deadLetterVars
  BY <1>8 DEF deadLetterVars
<1> QED
  BY <1>1, <1>2, <1>3, <1>4, <1>5, <1>6, <1>7, <1>8 DEF DeadLettersNext

\* Disjoint places that leave nothing out are counted as one place each.
LEMMA OnePlaceIsAccountedFor ==
    ASSUME DeadLettersTypeOK, OnePlace
    PROVE  DeadLettersAccountedFor
<1> SUFFICES ASSUME NEW m \in DeadMessages
             PROVE  LET places == {q \in {"dead", "work"} :
                                    m \in (IF q = "dead" THEN deadQueue ELSE workQueue)}
                        hands == {a \in Admins : m \in batch[a]}
                    IN  Cardinality(places) + Cardinality(hands)
                          = IF m \in dropped \cup cutOff \cup purged THEN 0 ELSE 1
  BY DEF DeadLettersAccountedFor
<1> DEFINE places == {q \in {"dead", "work"} :
                         m \in (IF q = "dead" THEN deadQueue ELSE workQueue)}
           hands == {a \in Admins : m \in batch[a]}
<1>1. ASSUME m \in Given
      PROVE  Cardinality(places) + Cardinality(hands) = 0
  <2>1. places = {} /\ hands = {}
    BY <1>1 DEF OnePlace
  <2> HIDE DEF places, hands
  <2> QED
    BY <2>1, FS_EmptySet
<1>2. ASSUME m \notin Given,
             \/ places = {} /\ (\E a \in Admins : hands = {a})
             \/ hands = {} /\ (\E q \in {"dead", "work"} : places = {q})
      PROVE  Cardinality(places) + Cardinality(hands) = 1
  <2> HIDE DEF places, hands
  <2>1. \A x : Cardinality({x}) = 1
    BY FS_Singleton
  <2>2. Cardinality({}) = 0
    BY FS_EmptySet
  <2>3. \/ Cardinality(places) = 0 /\ Cardinality(hands) = 1
        \/ Cardinality(hands) = 0 /\ Cardinality(places) = 1
    BY <1>2, <2>1, <2>2, Zenon
  <2> QED
    BY <2>3
<1>3. ASSUME m \in deadQueue
      PROVE  m \notin Given /\ Cardinality(places) + Cardinality(hands) = 1
  <2>1. places = {"dead"} /\ hands = {} /\ m \notin Given
    BY <1>3 DEF OnePlace
  <2> QED
    BY <1>2, <2>1
<1>4. ASSUME m \in workQueue
      PROVE  m \notin Given /\ Cardinality(places) + Cardinality(hands) = 1
  <2>1. places = {"work"} /\ hands = {} /\ m \notin Given
    BY <1>4 DEF OnePlace
  <2> QED
    BY <1>2, <2>1
<1>5. ASSUME NEW a \in Admins, m \in batch[a]
      PROVE  m \notin Given /\ Cardinality(places) + Cardinality(hands) = 1
  <2>1. places = {} /\ hands = {a} /\ m \notin Given
    BY <1>5 DEF OnePlace
  <2> QED
    BY <1>2, <2>1
<1>6. m \in Given \/ (m \notin Given /\ Cardinality(places) + Cardinality(hands) = 1)
  BY <1>3, <1>4, <1>5 DEF OnePlace
<1> HIDE DEF places, hands
<1>7. Cardinality(places) + Cardinality(hands)
        = IF m \in dropped \cup cutOff \cup purged THEN 0 ELSE 1
  BY <1>1, <1>6 DEF Given
<1> QED
  BY <1>7 DEF places, hands

\* The retry endpoint: several requests at a time, each of which may fail at any
\* message or be cut off, never take the same message and forget none but those
\* whose own publish failed, whose request was cut off, or that were purged.
THEOREM DeadLettersAreAccountedFor == DeadLettersSpec => []DeadLettersAccountedFor
<1>1. DeadLettersInit => OnePlace
  BY DEF DeadLettersInit, OnePlace, Given
<1>2. DeadLettersTypeOK /\ OnePlace /\ [DeadLettersNext]_deadLetterVars => OnePlace'
  BY OnePlaceStep
<1>3. DeadLettersTypeOK /\ OnePlace => DeadLettersAccountedFor
  BY OnePlaceIsAccountedFor
<1> QED
  BY <1>1, <1>2, <1>3, DeadLettersTyped, PTL DEF DeadLettersSpec

-----------------------------------------------------------------------------
(* The lexical index.                                                      *)

\* Every reachable state is well typed.
THEOREM SearchIndexTyped == SearchIndexSpec => []SearchIndexTypeOK
<1> USE SearchIndexAssumption DEF IndexOrNone, NoIndex
<1>0. \A c \in SUBSET IndexedChunks : Cardinality(c) \in 0..Cardinality(IndexedChunks)
  BY FS_Subset, FS_CardinalityType
<1>1. SearchIndexInit => SearchIndexTypeOK
  BY <1>0, FS_EmptySet DEF SearchIndexInit, SearchIndexTypeOK
<1>2. SearchIndexTypeOK /\ [SearchIndexNext]_indexVars => SearchIndexTypeOK'
  <2> SUFFICES ASSUME SearchIndexTypeOK, [SearchIndexNext]_indexVars
               PROVE  SearchIndexTypeOK'
    OBVIOUS
  <2> USE DEF SearchIndexTypeOK
  <2>1. ASSUME NEW p \in SearchProcesses, CountsChunks(p)
        PROVE  SearchIndexTypeOK'
    BY <1>0, <2>1 DEF CountsChunks
  <2>2. ASSUME NEW p \in SearchProcesses, ChecksCache(p)
        PROVE  SearchIndexTypeOK'
    BY <2>2 DEF ChecksCache
  <2>3. ASSUME NEW p \in SearchProcesses, LoadsIndex(p)
        PROVE  SearchIndexTypeOK'
    BY <2>3 DEF LoadsIndex
  <2>4. ASSUME NEW p \in SearchProcesses, BuildsIndex(p)
        PROVE  SearchIndexTypeOK'
    BY <2>4 DEF BuildsIndex
  <2>5. ASSUME NEW p \in SearchProcesses, StoresIndex(p)
        PROVE  SearchIndexTypeOK'
    BY <2>5 DEF StoresIndex
  <2>6. ASSUME NEW p \in SearchProcesses, AnswersSearch(p)
        PROVE  SearchIndexTypeOK'
    BY <1>0, <2>6, FS_EmptySet DEF AnswersSearch
  <2>7. ASSUME NEW p \in SearchProcesses, InvalidatesIndex(p)
        PROVE  SearchIndexTypeOK'
    BY <2>7 DEF InvalidatesIndex
  <2>8. ASSUME NEW p \in SearchProcesses, SearchProcessRestarts(p)
        PROVE  SearchIndexTypeOK'
    BY <1>0, <2>8, FS_EmptySet DEF SearchProcessRestarts
  <2>9. CASE CorpusChanges
    <3>1. corpus' \in SUBSET IndexedChunks
      BY <2>9 DEF CorpusChanges
    <3>2. seen' \in [SearchProcesses -> SUBSET SUBSET IndexedChunks]
      BY <2>9, <3>1 DEF CorpusChanges
    <3>3. changes' \in 0..MaxCorpusChanges
      BY <2>9 DEF CorpusChanges
    <3>4. UNCHANGED <<cache, disk, lookup, counted, index, restarted>>
      BY <2>9 DEF CorpusChanges
    <3> QED
      BY <3>1, <3>2, <3>3, <3>4
  <2>10. CASE UNCHANGED indexVars
    BY <2>10 DEF indexVars
  <2> QED
    BY <2>1, <2>2, <2>3, <2>4, <2>5, <2>6, <2>7, <2>8, <2>9, <2>10 DEF SearchIndexNext
<1> QED
  BY <1>1, <1>2, PTL DEF SearchIndexSpec

\* What a search in p knows is of a corpus that there was since it began: the
\* number it counted, the index it has built, and so the one it answers from.
KnowsACorpus(p) ==
    /\ lookup[p] # "idle" =>
          corpus \in seen[p] /\ \E c \in seen[p] : Cardinality(c) = counted[p]
    /\ lookup[p] = "built" => \E c \in seen[p] : index[p] = {c}
    /\ lookup[p] = "answer" => \E c \in seen[p] : Matches(index[p], Cardinality(c))

LEMMA KnowsACorpusStep ==
    ASSUME SearchIndexTypeOK, [SearchIndexNext]_indexVars,
           NEW p \in SearchProcesses, KnowsACorpus(p)
    PROVE  KnowsACorpus(p)'
<1> USE DEF SearchIndexTypeOK
<1>1. ASSUME NEW r \in SearchProcesses, r # p,
             CountsChunks(r) \/ ChecksCache(r) \/ LoadsIndex(r) \/ BuildsIndex(r)
               \/ StoresIndex(r) \/ AnswersSearch(r) \/ SearchProcessRestarts(r)
      PROVE  KnowsACorpus(p)'
  <2>1. /\ corpus' = corpus
        /\ lookup'[p] = lookup[p] /\ seen'[p] = seen[p]
        /\ counted'[p] = counted[p] /\ index'[p] = index[p]
    BY <1>1 DEF CountsChunks, ChecksCache, LoadsIndex, BuildsIndex, StoresIndex,
                AnswersSearch, SearchProcessRestarts
  <2> QED
    BY <2>1 DEF KnowsACorpus, Matches
<1>2. CASE CountsChunks(p)
  BY <1>2 DEF CountsChunks, KnowsACorpus
<1>3. CASE ChecksCache(p)
  BY <1>3 DEF ChecksCache, KnowsACorpus, Matches
<1>4. CASE LoadsIndex(p)
  BY <1>4 DEF LoadsIndex, PersistedMatches, KnowsACorpus, Matches
<1>5. CASE BuildsIndex(p)
  BY <1>5 DEF BuildsIndex, KnowsACorpus
<1>6. CASE StoresIndex(p)
  BY <1>6 DEF StoresIndex, KnowsACorpus, Matches
<1>7. CASE AnswersSearch(p) \/ SearchProcessRestarts(p)
  BY <1>7 DEF AnswersSearch, SearchProcessRestarts, KnowsACorpus
<1>8. ASSUME NEW r \in SearchProcesses, InvalidatesIndex(r)
      PROVE  KnowsACorpus(p)'
  BY <1>8 DEF InvalidatesIndex, KnowsACorpus, Matches
<1>9. CASE CorpusChanges
  BY <1>9 DEF CorpusChanges, KnowsACorpus, Matches
<1>10. CASE UNCHANGED indexVars
  BY <1>10 DEF indexVars, KnowsACorpus, Matches
<1> QED
  BY <1>1, <1>2, <1>3, <1>4, <1>5, <1>6, <1>7, <1>8, <1>9, <1>10 DEF SearchIndexNext

\* get_or_build_index: though an index counts as current by its number of chunks
\* alone, and other processes rebuild, persist and invalidate it in between, a
\* search answers from as many chunks as the collection had since it began.
THEOREM SearchesAnswerFromRightSize == SearchIndexSpec => []AnswersFromRightSize
<1> DEFINE AllKnow == \A p \in SearchProcesses : KnowsACorpus(p)
<1>1. SearchIndexInit => AllKnow
  BY DEF SearchIndexInit, KnowsACorpus
<1>2. SearchIndexTypeOK /\ AllKnow /\ [SearchIndexNext]_indexVars => AllKnow'
  BY KnowsACorpusStep
<1>3. AllKnow => AnswersFromRightSize
  BY DEF KnowsACorpus, AnswersFromRightSize
<1> QED
  BY <1>1, <1>2, <1>3, SearchIndexTyped, PTL DEF SearchIndexSpec

-----------------------------------------------------------------------------
(* Chat sessions.                                                          *)

\* Every reachable state is well typed, and no run has two messages.
THEOREM ChatTyped == ChatSpec => [](ChatTypeOK /\ messages \in [Runs -> {0, 1}])
<1> USE ChatStreamsAssumption DEF ChatTypeOK, Working, Finished
<1> DEFINE Inv == ChatTypeOK /\ messages \in [Runs -> {0, 1}]
<1>1. ChatInit => Inv
  BY DEF ChatInit
<1>2. Inv /\ [ChatNext]_chatVars => Inv'
  <2> SUFFICES ASSUME Inv, [ChatNext]_chatVars
               PROVE  Inv'
    OBVIOUS
  <2> USE DEF Goto, At, TryStore, StoreAnswer, InsertMayFail, tableVars, streamVars, runVars
  <2>1. ASSUME NEW r \in Runs, PostMessage(r) PROVE Inv'
    BY <2>1 DEF PostMessage
  <2>2. ASSUME NEW r \in Runs, StartRun(r) PROVE Inv'
    BY <2>2 DEF StartRun
  <2>3. ASSUME NEW r \in Runs, StreamsToken(r) PROVE Inv'
    BY <2>3 DEF StreamsToken, Parts
  <2>4. ASSUME NEW r \in Runs, StreamsRollback(r) PROVE Inv'
    BY <2>4 DEF StreamsRollback
  <2>5. ASSUME NEW r \in Runs,
               StreamCompletes(r) \/ StreamFails(r) \/ MakesTitle(r) \/ MarksSaved(r)
        PROVE Inv'
    BY <2>5 DEF StreamCompletes, StreamFails, MakesTitle, MarksSaved
  <2>6. ASSUME NEW r \in Runs, TryStore(r)
        PROVE /\ messages' \in [Runs -> {0, 1}]
              /\ savedText' \in [Runs -> SUBSET Parts]
              /\ dbFaults' \in 0..MaxDbFaults
    BY <2>6
  <2>7. ASSUME NEW r \in Runs, InsertsInline(r) PROVE Inv'
    BY <2>6, <2>7 DEF InsertsInline
  <2>8. ASSUME NEW r \in Runs, Deregister(r)
        PROVE {activeStreams', newest'} \subseteq [ApiProcesses -> Runs \cup {NoRun}]
    BY <2>8 DEF Deregister
  <2>9. ASSUME NEW r \in Runs, PersistsInBackground(r) PROVE Inv'
    BY <2>6, <2>8, <2>9 DEF PersistsInBackground, BackgroundStore
  <2>10. ASSUME NEW r \in Runs, Summarizes(r) PROVE Inv'
    BY <2>8, <2>10 DEF Summarizes
  <2>11. ASSUME NEW r \in Runs, RunStops(r) \/ RunRaises(r) PROVE Inv'
    BY <2>6, <2>8, <2>11 DEF RunStops, RunRaises, StoppedKeeps
  <2>12. ASSUME NEW p \in ApiProcesses, Stop(p) \/ ListenerCancels(p) \/ ListenerMisses(p)
         PROVE Inv'
    BY <2>12 DEF Stop, ListenerCancels, ListenerMisses, CancelLocal
  <2>13. ASSUME NEW p \in ApiProcesses, ApiProcessDies(p) PROVE Inv'
    BY <2>13 DEF ApiProcessDies
  <2>14. CASE DeleteSession
    <3>1. sessionExists' \in BOOLEAN
      BY <2>14, Zenon DEF DeleteSession
    <3> QED BY <2>14, <3>1 DEF DeleteSession
  <2>16. CASE ClearHistory
    BY <2>16 DEF ClearHistory
  <2>15. CASE UNCHANGED chatVars
    BY <2>15 DEF chatVars
  <2> QED BY <2>1, <2>2, <2>3, <2>4, <2>5, <2>7, <2>9, <2>10, <2>11, <2>12, <2>13, <2>14,
             <2>15, <2>16 DEF ChatNext
<1> QED BY <1>1, <1>2, PTL DEF ChatSpec

\* The session of the run is still there, with its history.
Wanted(r) == sessionExists /\ r \notin cleared

\* Where a run stands tells what of it is stored: before the insert nothing, after
\* it the message unless the database failed, and as it was shown unless the run
\* was interrupted.
RunKept(r) ==
    /\ run[r] = "summary" /\ Wanted(r) => messages[r] = 1
    /\ run[r] \in {"inserted", "background"} /\ dbFaults = 0 /\ Wanted(r) => messages[r] = 1
    /\ /\ run[r] = "closed" /\ gathered[r] # {} /\ Wanted(r)
       /\ dbFaults = 0 \/ (dbFaults = 1 /\ r \notin interrupted)
       => messages[r] = 1
    /\ r \in savedFlag => run[r] \in {"background", "summary"} \cup Finished
    /\ messages[r] # 0 => run[r] \notin {"new", "posted", "stream", "title", "insert"}
    /\ r \notin interrupted =>
          /\ run[r] # "lost"
          /\ run[r] \in {"new", "posted", "stream"} \/ gathered[r] = shown[r]
          /\ messages[r] # 0 => savedText[r] = shown[r]

\* What is stored of a run is kept by every step, of this run and of the others.
LEMMA RunKeptStep ==
    ASSUME ChatTypeOK, messages \in [Runs -> {0, 1}], [ChatNext]_chatVars,
           NEW r \in Runs, RunKept(r)
    PROVE  RunKept(r)'
<1> USE ChatStreamsAssumption DEF ChatTypeOK, Working, Finished, Wanted
<1> USE DEF Goto, At, TryStore, StoreAnswer, InsertMayFail, tableVars, streamVars, runVars
<1>0. dbFaults \in Nat
  OBVIOUS
<1>1. ASSUME NEW s \in Runs, TryStore(s)
      PROVE  /\ dbFaults' \in Nat /\ dbFaults' >= dbFaults
             /\ r # s => messages'[r] = messages[r] /\ savedText'[r] = savedText[r]
             /\ messages'[r] = messages[r] \/ messages'[r] = 1
             /\ messages[r] # 0 =>
                   messages'[r] = messages[r] /\ savedText'[r] = savedText[r]
             /\ messages[r] = 0 /\ messages'[r] # 0 => savedText'[r] = gathered[r]
             /\ r = s /\ sessionExists => messages'[r] = 1 \/ dbFaults' = dbFaults + 1
             /\ dbFaults' = dbFaults \/ dbFaults' = dbFaults + 1
             /\ r = s /\ dbFaults' = dbFaults /\ sessionExists => messages'[r] = 1
  BY <1>0, <1>1
<1>2. ASSUME NEW s \in Runs, s # r,
             \/ PostMessage(s)
             \/ StartRun(s)
             \/ StreamsToken(s)
             \/ StreamsRollback(s)
             \/ StreamCompletes(s)
             \/ StreamFails(s) \/ MakesTitle(s) \/ MarksSaved(s) \/ Summarizes(s)
      PROVE  RunKept(r)'
  <2>1. /\ run'[r] = run[r] /\ shown'[r] = shown[r] /\ gathered'[r] = gathered[r]
        /\ r \in interrupted' <=> r \in interrupted
        /\ r \in savedFlag' <=> r \in savedFlag
        /\ UNCHANGED <<tableVars, dbFaults>>
    BY <1>2 DEF PostMessage, StartRun, StreamsToken, StreamsRollback, StreamCompletes,
           StreamFails, MakesTitle,
       MarksSaved, Summarizes
  <2> QED BY <2>1 DEF RunKept
<1>3. ASSUME NEW s \in Runs, s # r,
             InsertsInline(s) \/ PersistsInBackground(s) \/ RunStops(s) \/ RunRaises(s)
      PROVE  RunKept(r)'
  <2>1. /\ run'[r] = run[r] /\ shown'[r] = shown[r] /\ gathered'[r] = gathered[r]
        /\ r \in interrupted' <=> r \in interrupted
        /\ r \in savedFlag' <=> r \in savedFlag
        /\ UNCHANGED <<sessionExists, cleared>>
    BY <1>3 DEF InsertsInline, PersistsInBackground, RunStops, RunRaises, StoppedKeeps
  <2>2. TryStore(s) \/ UNCHANGED <<messages, savedText, dbFaults>>
    BY <1>3 DEF InsertsInline, PersistsInBackground, RunStops, RunRaises, StoppedKeeps,
           BackgroundStore
  <2>3. /\ messages'[r] = messages[r] /\ savedText'[r] = savedText[r]
        /\ dbFaults' = 0 => dbFaults = 0
        /\ dbFaults' = 1 => dbFaults \in {0, 1}
    BY <1>0, <1>1, <1>3, <2>2
  <2> QED BY <2>1, <2>3 DEF RunKept
<1>4. CASE \/ PostMessage(r) \/ StartRun(r) \/ StreamsToken(r) \/ StreamsRollback(r)
           \/ StreamCompletes(r) \/ StreamFails(r) \/ MakesTitle(r)
  BY <1>4 DEF RunKept, PostMessage, StartRun, StreamsToken, StreamsRollback,
         StreamCompletes, StreamFails, MakesTitle
<1>5. CASE InsertsInline(r)
  <2>1. /\ run[r] = "insert" /\ run'[r] = "inserted" /\ TryStore(r)
        /\ UNCHANGED <<interrupted, shown, gathered, savedFlag, sessionExists, cleared>>
    BY <1>5 DEF InsertsInline
  <2> QED BY <1>0, <1>1, <2>1 DEF RunKept
<1>6. CASE MarksSaved(r)
  BY <1>6 DEF MarksSaved, RunKept
<1>7. CASE PersistsInBackground(r)
  <2>1. /\ run[r] = "background"
        /\ run'[r] = (IF sessionExists /\ dbFaults' = dbFaults THEN "summary" ELSE "closed")
        /\ TryStore(r)
        /\ UNCHANGED <<interrupted, shown, gathered, savedFlag, sessionExists, cleared>>
    BY <1>7 DEF PersistsInBackground, BackgroundStore
  <2> QED BY <1>0, <1>1, <2>1 DEF RunKept
<1>8. CASE Summarizes(r)
  BY <1>8 DEF Summarizes, RunKept
<1>9. CASE RunStops(r) \/ RunRaises(r)
  <2>1. /\ run[r] \in Working /\ run'[r] = "closed" /\ r \in interrupted'
        /\ UNCHANGED <<gathered, sessionExists, cleared>>
        /\ StoppedKeeps(r)
        /\ run[r] = "stream" \/ RunStops(r)
    BY <1>9 DEF RunStops, RunRaises
  <2>2. CASE r \in savedFlag \/ gathered[r] = {}
    <3>1. UNCHANGED <<messages, savedText, dbFaults, savedFlag>>
      BY <2>1, <2>2 DEF StoppedKeeps
    <3>2. r \in savedFlag => run[r] \in {"background", "summary"}
      BY <2>1 DEF RunKept
    <3> QED BY <2>1, <2>2, <3>1, <3>2 DEF RunKept
  <2>3. CASE ~(r \in savedFlag \/ gathered[r] = {})
    <3>1. TryStore(r)
      BY <2>1, <2>3 DEF StoppedKeeps
    <3> QED BY <1>0, <1>1, <2>1, <3>1 DEF RunKept
  <2> QED BY <2>2, <2>3
<1>10. ASSUME NEW p \in ApiProcesses, Stop(p) \/ ListenerCancels(p) \/ ListenerMisses(p)
       PROVE  RunKept(r)'
  BY <1>10 DEF Stop, ListenerCancels, ListenerMisses, RunKept
<1>11. ASSUME NEW p \in ApiProcesses, ApiProcessDies(p)
       PROVE  RunKept(r)'
  <2>1. /\ run'[r] = run[r] \/ (run'[r] = "lost" /\ r \in interrupted')
        /\ interrupted \subseteq interrupted'
        /\ run[r] \notin Working \cup {"posted"} =>
              run'[r] = run[r] /\ (r \in interrupted' => r \in interrupted)
        /\ UNCHANGED <<shown, gathered, savedFlag, tableVars, dbFaults>>
    BY <1>11 DEF ApiProcessDies
  <2> QED BY <2>1 DEF RunKept
<1>12. CASE DeleteSession
  BY <1>12 DEF DeleteSession, RunKept
<1>13. CASE ClearHistory
  BY <1>13 DEF ClearHistory, RunKept
<1>14. CASE UNCHANGED chatVars
  BY <1>14 DEF chatVars, RunKept
<1> QED BY <1>2, <1>3, <1>4, <1>5, <1>6, <1>7, <1>8, <1>9, <1>10, <1>11, <1>12, <1>13, <1>14
           DEF ChatNext

\* The run that a process registered last is one of its own, and while it works
\* it is the one that a stop would reach.
AtHome(p) ==
    newest[p] # NoRun =>
        /\ HomeOf[newest[p]] = p
        /\ run[newest[p]] \notin {"new", "posted"}
        /\ run[newest[p]] \in Working => activeStreams[p] = newest[p]

\* Every step keeps it so: who deregisters leaves the newer run alone.
LEMMA AtHomeStep ==
    ASSUME ChatTypeOK, [ChatNext]_chatVars, NEW p \in ApiProcesses, AtHome(p)
    PROVE  AtHome(p)'
<1> USE ChatStreamsAssumption DEF ChatTypeOK, Working, Finished, At, Goto, streamVars,
            tableVars, runVars
<1>0. newest[p] \in Runs \cup {NoRun} /\ HomeOf \in [Runs -> ApiProcesses]
  OBVIOUS
<1>1. ASSUME activeStreams' = activeStreams, newest' = newest,
             \A r \in Runs :
                \/ run'[r] = run[r]
                \/ run[r] = "new"
                \/ run[r] \in Working /\ run'[r] \in Working \cup Finished
      PROVE  AtHome(p)'
  BY <1>0, <1>1 DEF AtHome
<1>2. ASSUME NEW r \in Runs,
             \/ PostMessage(r)
             \/ StreamsToken(r)
             \/ StreamsRollback(r)
             \/ StreamCompletes(r)
             \/ StreamFails(r) \/ MakesTitle(r) \/ InsertsInline(r) \/ MarksSaved(r)
      PROVE  AtHome(p)'
  <2>1. UNCHANGED <<activeStreams, newest>>
    BY <1>2 DEF PostMessage, StreamsToken, StreamsRollback, StreamCompletes,
       StreamFails, MakesTitle, InsertsInline, MarksSaved
  <2>2. \/ run' = run
        \/ run[r] = "new" /\ run' = [run EXCEPT ![r] = "posted"]
        \/ run[r] \in Working /\ \E place \in Working : run' = [run EXCEPT ![r] = place]
    BY <1>2 DEF PostMessage, StreamsToken, StreamsRollback, StreamCompletes,
       StreamFails, MakesTitle, InsertsInline, MarksSaved
  <2> QED BY <1>0, <1>1, <2>1, <2>2 DEF AtHome
<1>3. ASSUME NEW r \in Runs, StartRun(r)
      PROVE  AtHome(p)'
  <2>1. r # NoRun /\ run[r] = "posted"
    BY <1>3 DEF StartRun
  <2> QED BY <1>0, <1>3, <2>1 DEF StartRun, AtHome
<1>4. ASSUME NEW r \in Runs, run[r] \in Working, run' = [run EXCEPT ![r] = "closed"],
             Deregister(r)
      PROVE  AtHome(p)'
  BY <1>0, <1>4 DEF Deregister, AtHome
<1>5. ASSUME NEW r \in Runs, PersistsInBackground(r)
      PROVE  AtHome(p)'
  <2>1. CASE run' = [run EXCEPT ![r] = "closed"] /\ Deregister(r)
    BY <1>4, <1>5, <2>1 DEF PersistsInBackground
  <2>2. CASE run' = [run EXCEPT ![r] = "summary"] /\ UNCHANGED streamVars
    <3>1. run[r] = "background" /\ UNCHANGED <<activeStreams, newest>>
      BY <1>5, <2>2 DEF PersistsInBackground
    <3> QED BY <1>0, <1>1, <2>2, <3>1 DEF AtHome
  <2> QED BY <1>5, <2>1, <2>2 DEF PersistsInBackground
<1>6. ASSUME NEW r \in Runs, Summarizes(r) \/ RunStops(r) \/ RunRaises(r)
      PROVE  AtHome(p)'
  BY <1>4, <1>6 DEF Summarizes, RunStops, RunRaises
<1>7. ASSUME NEW q \in ApiProcesses, Stop(q) \/ ListenerCancels(q) \/ ListenerMisses(q)
      PROVE  AtHome(p)'
  <2>1. UNCHANGED <<run, activeStreams, newest>>
    BY <1>7 DEF Stop, ListenerCancels, ListenerMisses
  <2> QED BY <1>1, <2>1 DEF AtHome
<1>8. ASSUME NEW q \in ApiProcesses, ApiProcessDies(q)
      PROVE  AtHome(p)'
  BY <1>0, <1>8 DEF ApiProcessDies, AtHome
<1>9. CASE DeleteSession \/ ClearHistory \/ UNCHANGED chatVars
  <2>1. UNCHANGED <<run, activeStreams, newest>>
    BY <1>9 DEF DeleteSession, ClearHistory, chatVars
  <2> QED BY <1>1, <2>1 DEF AtHome
<1> QED BY <1>2, <1>3, <1>5, <1>6, <1>7, <1>8, <1>9 DEF ChatNext

\* For every set of runs and of processes, and every number of database faults: a
\* run is stored at most once and as it was shown, nothing that was gathered is
\* lost but by the faults it takes, and the newest run can be stopped.
THEOREM RunsAreAccountedFor == ChatSpec => []RunsAccountedFor
<1> DEFINE Stored == \A r \in Runs : RunKept(r)
           Home == \A p \in ApiProcesses : AtHome(p)
           Typed == ChatTypeOK /\ messages \in [Runs -> {0, 1}]
<1>1. ChatInit => Stored /\ Home
  BY DEF ChatInit, RunKept, AtHome, Finished
<1>2. Typed /\ Stored /\ Home /\ [ChatNext]_chatVars => Stored' /\ Home'
  <2>1. Typed /\ Stored /\ [ChatNext]_chatVars => Stored'
    BY RunKeptStep
  <2>2. Typed /\ Home /\ [ChatNext]_chatVars => Home'
    BY AtHomeStep
  <2> QED BY <2>1, <2>2
<1>3. Typed /\ Stored /\ Home => RunsAccountedFor
  <2> SUFFICES ASSUME Typed, Stored, Home PROVE RunsAccountedFor
    OBVIOUS
  <2>1. StoredAtMostOnce
    BY DEF StoredAtMostOnce
  <2>2. NothingGatheredIsLost
    BY DEF NothingGatheredIsLost, RunKept, Wanted
  <2>3. SavedAsShown
    BY DEF SavedAsShown, RunKept
  <2>4. NewestIsStoppable
    BY DEF NewestIsStoppable, AtHome
  <2> QED BY <2>1, <2>2, <2>3, <2>4 DEF RunsAccountedFor
<1> QED BY <1>1, <1>2, <1>3, ChatTyped, PTL DEF ChatSpec

-----------------------------------------------------------------------------
(* The answering loop.                                                     *)

\* An answer that is ungrounded or suspect carries its caveat.
Flagged(final) ==
    \A i \in DOMAIN final :
       final[i] \in {"ungrounded", "suspect"} => \E j \in DOMAIN final : final[j] = "caveat"

\* A notice is empty or one part.
LEMMA NoticeParts == \A notice \in Notices : notice \in Seq({"notice"})
<1>1. <<>> \in Seq({"notice"}) /\ <<"notice">> \in Seq({"notice"})
  OBVIOUS
<1>2. \A notice \in Notices : notice = <<>> \/ notice = <<"notice">>
  BY Zenon DEF Notices
<1> QED BY <1>1, <1>2

\* A caveat is empty or one part.
LEMMA CaveatParts ==
  ASSUME NEW text, NEW verdict
  PROVE Caveat(text, verdict) \in Seq({"caveat"})
<1>1. <<>> \in Seq({"caveat"}) /\ <<"caveat">> \in Seq({"caveat"})
  OBVIOUS
<1>2. Caveat(text, verdict) = <<>> \/ Caveat(text, verdict) = <<"caveat">>
  BY Zenon DEF Caveat
<1> QED BY <1>1, <1>2

\* A text with its caveat and a notice is an answer that is flagged.
LEMMA CompletedAnswer ==
  ASSUME NEW text \in AnswerParts, NEW verdict, NEW notice \in Notices
  PROVE  LET final == <<text>> \o Caveat(text, verdict) \o notice
         IN  final \in Seq(AnswerParts) /\ Flagged(final)
<1> DEFINE c == Caveat(text, verdict)
           final == <<text>> \o c \o notice
<1>1. notice \in Seq({"notice"}) /\ c \in Seq({"caveat"}) /\ <<text>> \in Seq(AnswerParts)
  BY NoticeParts, CaveatParts
<1>2. notice \in Seq(AnswerParts) /\ c \in Seq(AnswerParts)
  BY <1>1 DEF AnswerParts
<1>3. final \in Seq(AnswerParts)
  BY <1>1, <1>2
<1>4. CASE c = <<>>
  <2>1. text \notin {"ungrounded", "suspect"}
    BY <1>4 DEF Caveat, NeedsCaveat
  <2>2. \A i \in DOMAIN final : final[i] = text \/ final[i] = "notice"
    BY <1>1, <1>4
  <2> QED BY <1>3, <2>1, <2>2 DEF Flagged
<1>5. CASE c = <<"caveat">>
  <2>1. 2 \in DOMAIN final /\ final[2] = "caveat"
    BY <1>1, <1>5
  <2> QED BY <1>3, <2>1 DEF Flagged
<1> QED BY <1>4, <1>5 DEF Caveat

\* So is a text that replaces what breached the policy.
LEMMA ReplacedAnswer ==
  ASSUME NEW text \in {"replacement", "insufficient"}, NEW notice \in Notices
  PROVE  <<text>> \o notice \in Seq(AnswerParts) /\ Flagged(<<text>> \o notice)
<1> DEFINE final == <<text>> \o notice
<1>1. /\ notice \in Seq({"notice"})
      /\ <<text>> \in Seq(AnswerParts)
      /\ notice \in Seq(AnswerParts)
  BY NoticeParts DEF AnswerParts
<1>2. \A i \in DOMAIN final : final[i] = text \/ final[i] = "notice"
  BY <1>1
<1> QED BY <1>1, <1>2 DEF Flagged

\* While tools run the loop is within its budget, and sources and rounds are
\* counted by turns; until the end nothing is answered, and nothing is on the
\* screen but a text that streams.
ReactInv ==
    /\ ReactLoopTypeOK
    /\ loop.phase = "tools" =>
          /\ loop.step <= MaxToolSteps
          /\ loop.sources <= loop.step /\ loop.tool_rounds <= loop.step
          /\ loop.no_progress <= 1
    /\ loop.phase \in {"tools", "after"} => loop.sources <= MaxToolSteps
    /\ loop.phase \in {"tools", "after", "synthesis"} => onScreen = <<>> /\ answer = <<>>
    /\ loop.phase = "streamed" => answer = <<>> /\ \E text \in Texts : onScreen = <<text>>
    /\ AnswerIsHonest

\* The loop ends with an answer that is what is on the screen.
LEMMA LoopEnds ==
    ASSUME ReactInv, NEW text \in AnswerParts,
           NEW verdict \in {"none", "pass", "revise", "insufficient_sources"},
           Finish(text, verdict), onScreen = <<>>
    PROVE  ReactInv'
<1>1. /\ answer' \in Seq(AnswerParts) /\ Flagged(answer')
      /\ onScreen' = answer'
  <2>1. PICK notice \in Notices :
           /\ answer' = IF Breach(text, verdict)
                       THEN <<"replacement">> \o notice
                       ELSE <<text>> \o Caveat(text, verdict) \o notice
           /\ onScreen' = onScreen \o answer'
    BY Zenon DEF Finish
  <2>2. answer' \in Seq(AnswerParts) /\ Flagged(answer')
    BY <2>1, CompletedAnswer, ReplacedAnswer
  <2> QED BY <2>1, <2>2
<1>2. loop' \in LoopStates /\ loop'.phase = "over"
  BY DEF ReactInv, ReactLoopTypeOK, LoopStates, Finish
<1> QED BY <1>1, <1>2 DEF ReactInv, ReactLoopTypeOK, AnswerIsHonest, ShownIsFinal,
               UngroundedIsFlagged, Flagged

\* The invariant holds after every step.
LEMMA ReactInvInductive ==
    ReactInv /\ [ReactLoopNext]_reactVars => ReactInv'
<1> SUFFICES ASSUME ReactInv, [ReactLoopNext]_reactVars PROVE ReactInv'
  OBVIOUS
<1> USE ReactLoopAssumption
<1>0. /\ loop \in LoopStates /\ onScreen \in Seq(AnswerParts) /\ answer \in Seq(AnswerParts)
      /\ \A text \in Texts : text \in AnswerParts
  BY DEF ReactInv, ReactLoopTypeOK, AnswerParts
<1>q. ASSUME Silent, loop' \in LoopStates, loop.phase \in {"tools", "after", "synthesis"},
             loop'.phase \in {"tools", "after", "synthesis"},
             loop'.phase \in {"tools", "after"} => loop'.sources <= MaxToolSteps,
             loop'.phase = "tools" =>
                 /\ loop'.sources <= loop'.step /\ loop'.tool_rounds <= loop'.step
                 /\ loop'.no_progress <= 1
      PROVE  ReactInv'
  <2>1. /\ onScreen' = <<>> /\ answer' = <<>>
        /\ loop'.phase # "streamed" /\ loop'.phase # "over"
        /\ loop'.step <= MaxToolSteps
    BY <1>q DEF Silent, ReactInv, LoopStates
  <2> QED BY <1>q, <2>1 DEF ReactInv, ReactLoopTypeOK, AnswerIsHonest, ShownIsFinal,
                 UngroundedIsFlagged
<1>1. CASE ReadySignal \/ CallsRepeat \/ StepsSpent
  <2>1. loop' = [loop EXCEPT !.phase = "after"] /\ Silent /\ loop.phase = "tools"
    BY <1>1 DEF ReadySignal, CallsRepeat, StepsSpent, ToolTurn, Enter
  <2> QED BY <1>0, <1>q, <2>1 DEF ReactInv, LoopStates
<1>2. CASE DraftFinishes \/ JudgeLetsFinish \/ ReusesDraft \/ SynthesisIsEmpty \/ LoopBreaks
  <2>1. onScreen = <<>>
    BY <1>2 DEF ReactInv, DraftFinishes, JudgeLetsFinish, ReusesDraft, SynthesisIsEmpty,
           LoopBreaks, ToolTurn
  <2>2. \E text \in AnswerParts,
            verdict \in {"none", "pass", "revise", "insufficient_sources"} :
           Finish(text, verdict)
    <3>1. /\ loop.verdict \in {"none", "pass", "revise", "insufficient_sources"}
          /\ "apology" \in AnswerParts
      BY <1>0 DEF LoopStates, AnswerParts
    <3> QED BY <1>0, <1>2, <3>1 DEF DraftFinishes, JudgeLetsFinish, ReusesDraft,
                   SynthesisIsEmpty, LoopBreaks
  <2> QED BY <2>1, <2>2, LoopEnds
<1>3. CASE JudgeRevises
  <2>1. /\ Silent /\ loop.phase = "tools" /\ loop.step < MaxToolSteps
        /\ loop.reflections < MaxReflections
    BY <1>3 DEF JudgeRevises, ToolTurn
  <2> DEFINE step == loop.step + 1
             reflections == loop.reflections + 1
  <2>3. step \in 0..MaxToolSteps /\ reflections \in 0..MaxReflections
    BY <1>0, <2>1 DEF LoopStates
  <2>4. loop' = [loop EXCEPT !.verdict = "revise", !.last_draft = TRUE,
                            !.draft_source_count = loop.sources,
                            !.reflections = reflections, !.step = step]
    BY <1>3 DEF JudgeRevises
  <2>5. step = loop.step + 1
    OBVIOUS
  <2> HIDE DEF step, reflections
  <2>2. /\ loop' \in LoopStates /\ loop'.phase = "tools" /\ loop'.step = loop.step + 1
        /\ loop'.sources = loop.sources /\ loop'.tool_rounds = loop.tool_rounds
        /\ loop'.no_progress = loop.no_progress
    BY <1>0, <2>1, <2>3, <2>4, <2>5 DEF LoopStates
  <2> QED BY <1>0, <1>q, <2>1, <2>2 DEF ReactInv, LoopStates
<1>4. CASE CallsRun
  <2> DEFINE stuckFor(new) == IF loop.sources > 0 /\ new = 0
                              THEN loop.no_progress + 1 ELSE 0
  <2>1. PICK new \in {0, 1} :
           loop' = [loop EXCEPT !.sources = @ + new, !.tool_rounds = @ + 1,
                                !.no_progress = stuckFor(new), !.step = @ + 1,
                                !.phase = IF stuckFor(new) >= 2 THEN "after" ELSE "tools"]
    BY <1>4 DEF CallsRun
  <2>2. /\ Silent /\ loop.phase = "tools" /\ loop.step < MaxToolSteps
        /\ loop.sources <= loop.step
        /\ loop.tool_rounds <= loop.step
        /\ loop.no_progress <= 1
    BY <1>4 DEF CallsRun, ToolTurn, ReactInv
  <2> DEFINE stuck == stuckFor(new)
             phase == IF stuck >= 2 THEN "after" ELSE "tools"
             sources == loop.sources + new
             rounds == loop.tool_rounds + 1
             step == loop.step + 1
  <2>3. /\ stuck \in 0..2 /\ phase \in {"tools", "after"}
        /\ phase = "tools" => stuck <= 1
        /\ sources \in 0..MaxToolSteps + 1
        /\ rounds \in 0..MaxToolSteps
        /\ step \in 0..MaxToolSteps
        /\ sources <= step /\ rounds <= step /\ sources <= MaxToolSteps
    BY <1>0, <2>2 DEF LoopStates
  <2>5. loop' = [loop EXCEPT !.sources = sources, !.tool_rounds = rounds,
                             !.no_progress = stuck, !.step = step, !.phase = phase]
    BY <2>1
  <2> HIDE DEF stuckFor, stuck, phase, sources, rounds, step
  <2>6. phase \in {"tools", "after", "synthesis", "streamed", "over"}
    BY <2>3
  <2>4. loop' \in LoopStates
    BY <1>0, <2>3, <2>5, <2>6 DEF LoopStates
  <2>7. /\ loop'.step = step /\ loop'.phase = phase
        /\ loop'.sources = sources
        /\ loop'.tool_rounds = rounds
        /\ loop'.no_progress = stuck
    BY <1>0, <2>5 DEF LoopStates
  <2> QED BY <1>q, <2>2, <2>3, <2>4, <2>7
<1>5. CASE AsksUser
  <2>1. PICK new \in {0, 1} :
          loop' = [loop EXCEPT !.sources = @ + new, !.tool_rounds = @ + 1,
                               !.phase = "over"]
    BY <1>5 DEF AsksUser
  <2>2. /\ Silent /\ loop.phase = "tools" /\ loop.step < MaxToolSteps
        /\ loop.sources <= loop.step /\ loop.tool_rounds <= loop.step
        /\ onScreen = <<>> /\ answer = <<>>
    BY <1>5 DEF AsksUser, ToolTurn, ReactInv
  <2> DEFINE sources == loop.sources + new
             rounds == loop.tool_rounds + 1
  <2>4. sources \in 0..MaxToolSteps + 1 /\ rounds \in 0..MaxToolSteps
    BY <1>0, <2>2 DEF LoopStates
  <2>5. loop' = [loop EXCEPT !.sources = sources, !.tool_rounds = rounds, !.phase = "over"]
    BY <2>1
  <2> HIDE DEF sources, rounds
  <2>3. loop' \in LoopStates /\ loop'.phase = "over"
    BY <1>0, <2>4, <2>5 DEF LoopStates
  <2> QED BY <2>2, <2>3 DEF Silent, ReactInv, ReactLoopTypeOK, AnswerIsHonest, ShownIsFinal,
                 UngroundedIsFlagged
<1>6. CASE GatePasses
  <2>1. PICK new \in {0, 1} :
           loop' = [loop EXCEPT !.sources = @ + new, !.phase = "synthesis"]
    BY <1>6 DEF GatePasses
  <2>2. Silent /\ loop.phase = "after" /\ loop.sources <= MaxToolSteps
    BY <1>6 DEF GatePasses, ReactInv
  <2> DEFINE sources == loop.sources + new
  <2>8. sources \in 0..MaxToolSteps + 1
    BY <1>0, <2>2 DEF LoopStates
  <2>9. loop' = [loop EXCEPT !.sources = sources, !.phase = "synthesis"]
    BY <2>1
  <2> HIDE DEF sources
  <2>3. loop' \in LoopStates /\ loop'.phase = "synthesis"
    BY <1>0, <2>8, <2>9 DEF LoopStates
  <2> QED BY <1>0, <1>q, <2>2, <2>3
<1>7. CASE GateBlocks
  <2>1. PICK new \in {0, 1}, notice \in Notices :
           /\ loop' = [loop EXCEPT !.sources = @ + new, !.phase = "over",
                                   !.verdict = "insufficient_sources"]
           /\ answer' = <<"insufficient">> \o notice
           /\ onScreen' = onScreen \o answer'
    BY <1>7 DEF GateBlocks
  <2>2. loop.phase = "after" /\ loop.sources <= MaxToolSteps /\ onScreen = <<>>
    BY <1>7 DEF GateBlocks, ReactInv
  <2> DEFINE sources == loop.sources + new
  <2>8. sources \in 0..MaxToolSteps + 1
    BY <1>0, <2>2 DEF LoopStates
  <2>9. loop' = [loop EXCEPT !.sources = sources, !.phase = "over",
                             !.verdict = "insufficient_sources"]
    BY <2>1
  <2> HIDE DEF sources
  <2>3. loop' \in LoopStates /\ loop'.phase = "over"
    BY <1>0, <2>8, <2>9 DEF LoopStates
  <2>4. answer' \in Seq(AnswerParts) /\ Flagged(answer')
    BY <2>1, ReplacedAnswer
  <2>5. onScreen' = answer'
    BY <2>1, <2>2, <2>4
  <2> QED BY <2>3, <2>4, <2>5 DEF ReactInv, ReactLoopTypeOK, AnswerIsHonest, ShownIsFinal,
                 UngroundedIsFlagged, Flagged
<1>8. CASE SynthesisStreams
  <2>1. PICK text \in Texts : onScreen' = onScreen \o <<text>>
    BY <1>8 DEF SynthesisStreams
  <2>2. onScreen = <<>> /\ answer' = <<>>
    BY <1>8 DEF SynthesisStreams, ReactInv
  <2>3. loop' \in LoopStates /\ loop'.phase = "streamed"
    BY <1>0, <1>8 DEF SynthesisStreams, Enter, LoopStates
  <2>4. onScreen' = <<text>> /\ <<text>> \in Seq(AnswerParts)
    BY <1>0, <2>1, <2>2
  <2> QED BY <2>2, <2>3, <2>4 DEF ReactInv, ReactLoopTypeOK, AnswerIsHonest, ShownIsFinal,
                 UngroundedIsFlagged
<1>9. CASE StreamedIsSettled
  <2>1. PICK text \in Texts : onScreen = <<text>>
    BY <1>9 DEF StreamedIsSettled, ReactInv
  <2>2. PICK verdict \in IF JudgeSkipped THEN {loop.verdict} ELSE {"pass", "revise"},
             notice \in Notices :
           /\ loop' = [loop EXCEPT !.verdict = verdict, !.phase = "over"]
           /\ IF Breach(onScreen[1], verdict)
              THEN /\ answer' = <<"replacement">> \o notice
                   /\ onScreen' = Retracted \o answer'
              ELSE /\ answer' = <<onScreen[1]>> \o (Caveat(onScreen[1], verdict) \o notice)
                   /\ onScreen' = onScreen \o (Caveat(onScreen[1], verdict) \o notice)
    BY <1>9, Zenon DEF StreamedIsSettled
  <2>3. verdict \in {"none", "pass", "revise", "insufficient_sources"}
    BY <1>0 DEF LoopStates
  <2>4. loop' \in LoopStates /\ loop'.phase = "over"
    BY <1>0, <2>2, <2>3 DEF LoopStates
  <2>5. onScreen[1] = text /\ text \in AnswerParts
    BY <1>0, <2>1
  <2>6. answer' \in Seq(AnswerParts) /\ Flagged(answer') /\ onScreen' = answer'
    <3>1. CASE Breach(text, verdict)
      <4>1. answer' = <<"replacement">> \o notice /\ onScreen' = Retracted \o answer'
        BY <2>2, <2>5, <3>1
      <4>2. answer' \in Seq(AnswerParts) /\ Flagged(answer')
        BY <4>1, ReplacedAnswer
      <4> QED BY <4>1, <4>2 DEF Retracted
    <3>2. CASE ~Breach(text, verdict)
      <4>1. /\ answer' = <<text>> \o (Caveat(text, verdict) \o notice)
            /\ onScreen' = <<text>> \o (Caveat(text, verdict) \o notice)
        BY <2>1, <2>2, <2>5, <3>2
      <4>2. Caveat(text, verdict) \in Seq({"caveat"}) /\ notice \in Seq({"notice"})
        BY NoticeParts, CaveatParts
      <4>3. <<text>> \o (Caveat(text, verdict) \o notice) =
               <<text>> \o Caveat(text, verdict) \o notice
        BY <4>2
      <4> QED BY <2>5, <4>1, <4>3, CompletedAnswer
    <3> QED BY <3>1, <3>2
  <2> QED BY <2>4, <2>6 DEF ReactInv, ReactLoopTypeOK, AnswerIsHonest, ShownIsFinal,
                 UngroundedIsFlagged, Flagged
<1>10. CASE SynthesisBreaks
  <2>1. PICK streamed \in {<<>>, <<"partial">>}, notice \in Notices :
          /\ loop' = [loop EXCEPT !.phase = "over", !.broken = TRUE]
          /\ answer' = <<"apology">> \o Caveat("apology", loop.verdict) \o notice
          /\ onScreen' = onScreen \o streamed \o answer'
    BY <1>10 DEF SynthesisBreaks
  <2>2. loop' \in LoopStates /\ loop'.phase = "over" /\ loop'.broken
    BY <1>0, <2>1 DEF LoopStates
  <2>3. answer' \in Seq(AnswerParts) /\ Flagged(answer')
    BY <2>1, CompletedAnswer DEF AnswerParts
  <2>4. streamed \in Seq(AnswerParts)
    <3>1. <<>> \in Seq(AnswerParts) /\ <<"partial">> \in Seq(AnswerParts)
      BY DEF AnswerParts
    <3> QED BY <3>1
  <2>5. onScreen' \in Seq(AnswerParts)
    BY <1>0, <2>1, <2>3, <2>4
  <2> QED BY <2>2, <2>3, <2>5 DEF ReactInv, ReactLoopTypeOK, AnswerIsHonest, ShownIsFinal,
                 UngroundedIsFlagged, Flagged
<1>11. CASE UNCHANGED reactVars
  <2>1. loop' = loop /\ onScreen' = onScreen /\ answer' = answer
    BY <1>11 DEF reactVars
  <2> QED BY <2>1 DEF ReactInv, ReactLoopTypeOK, AnswerIsHonest, ShownIsFinal,
                 UngroundedIsFlagged
<1> QED BY <1>1, <1>2, <1>3, <1>4, <1>5, <1>6, <1>7, <1>8, <1>9, <1>10, <1>11
           DEF ReactLoopNext

\* For every budget of tool turns: the final answer is what the reader saw, or
\* what replaced it on the screen, and an ungrounded one says so; the loop ends
\* within its budget.
THEOREM AnswersAreHonest == ReactLoopSpec => [](ReactLoopTypeOK /\ AnswerIsHonest)
<1>1. ReactLoopInit => ReactInv
  BY ReactLoopAssumption DEF ReactLoopInit, ReactInv, ReactLoopTypeOK, LoopStates,
         AnswerParts, AnswerIsHonest, ShownIsFinal,
    UngroundedIsFlagged
<1>2. ReactInv => ReactLoopTypeOK /\ AnswerIsHonest
  BY DEF ReactInv
<1> QED BY <1>1, <1>2, ReactInvInductive, PTL DEF ReactLoopSpec

-----------------------------------------------------------------------------
(* Memberships.                                                            *)

USE MembershipAssumption

\* Registrations whose use is committed and whose membership is still to come.
Owed == {q \in Redemptions : redeem[q].at \in {"account", "workspace"}}

\* A claimed use is protected by the lock on the link's row until it is
\* committed, so that the check that it was free still holds.
ClaimsHoldTheLock ==
    \A q \in Redemptions : redeem[q].at = "claimed" =>
        rowLock = q /\ link.use_count < link.max_uses

\* Uses cover the memberships there are and those that are still to come.
UsesCover == granted + Cardinality(Owed) <= link.use_count

CapInvariant ==
    /\ ClaimsHoldTheLock
    /\ UsesCover
    /\ link.use_count <= link.max_uses

-----------------------------------------------------------------------------
LEMMA OwedIsFinite == IsFiniteSet(Owed) /\ Cardinality(Owed) \in Nat
BY FS_Subset, FS_CardinalityType DEF Owed

\* Every reachable state is well typed.
THEOREM MembershipTyped == MembershipSpec => []MembershipTypeOK
<1>1. MembershipInit => MembershipTypeOK
  BY DEF MembershipInit, MembershipTypeOK, RedemptionStates, Rows
<1>2. MembershipTypeOK /\ [MembershipNext]_memberVars => MembershipTypeOK'
  <2> SUFFICES ASSUME MembershipTypeOK, [MembershipNext]_memberVars
               PROVE  MembershipTypeOK'
    OBVIOUS
  <2> USE DEF MembershipTypeOK, RedemptionStates, Rows, Goes, Unlock, OneUse, AdminStep
  <2>1. ASSUME NEW q \in Redemptions, NEW u \in TenantUsers, ReadLink(q, u)
        PROVE  MembershipTypeOK'
    BY <2>1 DEF ReadLink
  <2>2. ASSUME NEW q \in Redemptions,
               AlreadyMember(q) \/ ClaimUse(q) \/ ClaimRefused(q) \/ CreateWorkspace(q)
                 \/ AcceptRollsBack(q) \/ RegisterRollsBack(q)
        PROVE  MembershipTypeOK'
    <3>1. \E at \in {"claimed", "workspace", "over"} : Goes(q, at)
      BY <2>2 DEF AlreadyMember, ClaimUse, ClaimRefused, CreateWorkspace,
                  AcceptRollsBack, RegisterRollsBack
    <3>2. redeem' \in [Redemptions -> RedemptionStates]
      BY <3>1
    <3>3. /\ rowLock' \in {rowLock, q, NoRedemption}
          /\ UNCHANGED <<member, account, link, tenantActive, granted, adminSteps>>
      BY <2>2 DEF AlreadyMember, ClaimUse, ClaimRefused, CreateWorkspace,
                  AcceptRollsBack, RegisterRollsBack
    <3> QED
      BY <3>2, <3>3
  <2>3. ASSUME NEW q \in Redemptions, AcceptCommits(q)
        PROVE  MembershipTypeOK'
    BY <2>3 DEF AcceptCommits
  <2>4. ASSUME NEW q \in Redemptions, RegisterCommits(q)
        PROVE  MembershipTypeOK'
    BY <2>4 DEF RegisterCommits
  <2>5. ASSUME NEW q \in Redemptions, RegisterJoins(q)
        PROVE  MembershipTypeOK'
    BY <2>5 DEF RegisterJoins
  <2>6. ASSUME NEW q \in Redemptions, RedemptionBreaks(q)
        PROVE  MembershipTypeOK'
    BY <2>6 DEF RedemptionBreaks
  <2>7. ASSUME NEW u \in TenantUsers,
               ApproveUser(u) \/ RemoveTenantUser(u) \/ SetTenantAdmin(u)
        PROVE  MembershipTypeOK'
    <3>1. PICK row \in Rows : member' = [member EXCEPT ![u] = row]
      BY <2>7 DEF ApproveUser, RemoveTenantUser, SetTenantAdmin
    <3>2. member' \in [TenantUsers -> Rows]
      BY <3>1
    <3>3. AdminStep /\ UNCHANGED <<account, link, tenantActive, rowLock, redeem, granted>>
      BY <2>7 DEF ApproveUser, RemoveTenantUser, SetTenantAdmin
    <3> QED
      BY <3>2, <3>3
  <2>8. CASE RevokeInvite
    <3>1. link' = [link EXCEPT !.active = FALSE]
      BY <2>8 DEF RevokeInvite
    <3>2. link' \in [active : BOOLEAN, use_count : Nat, max_uses : MaxUsesValues]
      BY <3>1
    <3>3. AdminStep /\ UNCHANGED <<member, account, tenantActive, rowLock, redeem, granted>>
      BY <2>8 DEF RevokeInvite
    <3> QED
      BY <3>2, <3>3
  <2>9. ASSUME NEW active \in BOOLEAN, SetTenantActive(active)
        PROVE  MembershipTypeOK'
    BY <2>9 DEF SetTenantActive
  <2>10. CASE UNCHANGED memberVars
    BY <2>10 DEF memberVars
  <2> QED
    BY <2>1, <2>2, <2>3, <2>4, <2>5, <2>6, <2>7, <2>8, <2>9, <2>10 DEF MembershipNext
<1> QED
  BY <1>1, <1>2, PTL DEF MembershipSpec

-----------------------------------------------------------------------------
\* A step that takes no redemption to a state in which a membership is owed, and
\* neither grants nor uncounts anything, keeps the uses covered.
LEMMA OwedShrinks ==
    ASSUME MembershipTypeOK, MembershipTypeOK', UsesCover,
           Owed' \subseteq Owed, granted' = granted, link'.use_count >= link.use_count
    PROVE  UsesCover'
<1>1. Cardinality(Owed') \in Nat /\ Cardinality(Owed') <= Cardinality(Owed)
  BY OwedIsFinite, FS_Subset, FS_CardinalityType
<1> QED
  BY <1>1, OwedIsFinite DEF UsesCover, MembershipTypeOK

LEMMA CapStep ==
    ASSUME MembershipTypeOK, MembershipTypeOK', CapInvariant, [MembershipNext]_memberVars
    PROVE  CapInvariant'
<1> USE DEF CapInvariant, ClaimsHoldTheLock, Goes, Unlock, OneUse, AdminStep
<1> USE DEF MembershipTypeOK, RedemptionStates
<1>0. link.use_count \in Nat /\ link.max_uses \in Nat
  OBVIOUS
<1>1. ASSUME NEW q \in Redemptions, NEW u \in TenantUsers, ReadLink(q, u)
      PROVE  CapInvariant'
  <2>1. Owed' \subseteq Owed
    BY <1>1 DEF ReadLink, Owed
  <2> QED
    BY <1>1, <2>1, OwedShrinks DEF ReadLink
<1>2. ASSUME NEW q \in Redemptions,
             \/ AlreadyMember(q)
             \/ ClaimRefused(q)
             \/ AcceptRollsBack(q)
             \/ RegisterRollsBack(q)
      PROVE  CapInvariant'
  <2>1. Owed' \subseteq Owed
    BY <1>2 DEF AlreadyMember, ClaimRefused, AcceptRollsBack, RegisterRollsBack, Owed
  <2> QED
    BY <1>2, <2>1, OwedShrinks DEF AlreadyMember, ClaimRefused, AcceptRollsBack,
           RegisterRollsBack
<1>3. ASSUME NEW q \in Redemptions, ClaimUse(q)
      PROVE  CapInvariant'
  <2>1. Owed' \subseteq Owed
    BY <1>3 DEF ClaimUse, Owed
  <2> QED
    BY <1>3, <2>1, OwedShrinks DEF ClaimUse, Claimable, LinkUsable
<1>4. ASSUME NEW q \in Redemptions, AcceptCommits(q)
      PROVE  CapInvariant'
  <2>1. Owed' = Owed
    BY <1>4 DEF AcceptCommits, Owed
  <2>2. rowLock = q /\ link.use_count < link.max_uses
    BY <1>4 DEF AcceptCommits
  <2>3. /\ link'.use_count = link.use_count + 1
        /\ link'.max_uses = link.max_uses
        /\ granted' \in {granted, granted + 1}
    BY <1>4 DEF AcceptCommits
  <2>4. UsesCover'
    BY <2>1, <2>3, OwedIsFinite DEF UsesCover
  <2>5. ClaimsHoldTheLock'
    BY <1>4, <2>2 DEF AcceptCommits
  <2>6. link'.use_count <= link'.max_uses
    BY <1>0, <2>2, <2>3
  <2> QED
    BY <2>4, <2>5, <2>6
<1>5. ASSUME NEW q \in Redemptions, RegisterCommits(q)
      PROVE  CapInvariant'
  <2>1. Owed' = Owed \cup {q} /\ q \notin Owed
    BY <1>5 DEF RegisterCommits, Owed
  <2>2. Cardinality(Owed') = Cardinality(Owed) + 1
    BY <2>1, OwedIsFinite, FS_AddElement
  <2>3. rowLock = q /\ link.use_count < link.max_uses
    BY <1>5 DEF RegisterCommits
  <2>4. /\ link'.use_count = link.use_count + 1
        /\ link'.max_uses = link.max_uses
        /\ granted' = granted
    BY <1>5 DEF RegisterCommits
  <2>5. UsesCover'
    BY <2>2, <2>4, OwedIsFinite DEF UsesCover
  <2>6. ClaimsHoldTheLock'
    BY <1>5, <2>3 DEF RegisterCommits
  <2>7. link'.use_count <= link'.max_uses
    BY <1>0, <2>3, <2>4
  <2> QED
    BY <2>5, <2>6, <2>7
<1>6. ASSUME NEW q \in Redemptions, CreateWorkspace(q)
      PROVE  CapInvariant'
  <2>1. Owed' \subseteq Owed
    BY <1>6 DEF CreateWorkspace, Owed
  <2> QED
    BY <1>6, <2>1, OwedShrinks DEF CreateWorkspace
<1>7. ASSUME NEW q \in Redemptions, RegisterJoins(q)
      PROVE  CapInvariant'
  <2>1. Owed' = Owed \ {q} /\ q \in Owed
    BY <1>7 DEF RegisterJoins, Owed
  <2>2. Cardinality(Owed') = Cardinality(Owed) - 1
    BY <2>1, OwedIsFinite, FS_RemoveElement
  <2>3. link' = link /\ granted' \in {granted, granted + 1}
    BY <1>7 DEF RegisterJoins
  <2>4. UsesCover'
    BY <2>2, <2>3, OwedIsFinite DEF UsesCover
  <2> QED
    BY <1>7, <2>3, <2>4 DEF RegisterJoins
<1>8. ASSUME NEW q \in Redemptions, RedemptionBreaks(q)
      PROVE  CapInvariant'
  <2>1. Owed' \subseteq Owed
    BY <1>8 DEF RedemptionBreaks, Owed
  <2> QED
    BY <1>8, <2>1, OwedShrinks DEF RedemptionBreaks
<1>9. CASE \/ \E u \in TenantUsers :
                 ApproveUser(u) \/ RemoveTenantUser(u) \/ SetTenantAdmin(u)
           \/ \E active \in BOOLEAN : SetTenantActive(active)
           \/ UNCHANGED memberVars
  <2>1. UNCHANGED <<link, rowLock, redeem, granted>>
    BY <1>9 DEF ApproveUser, RemoveTenantUser, SetTenantAdmin, SetTenantActive, memberVars
  <2> QED
    BY <2>1 DEF UsesCover, Owed
<1>10. CASE RevokeInvite
  <2>1. Owed' \subseteq Owed
    BY <1>10 DEF RevokeInvite, Owed
  <2> QED
    BY <1>10, <2>1, OwedShrinks DEF RevokeInvite
<1> QED
  BY <1>1, <1>2, <1>3, <1>4, <1>5, <1>6, <1>7, <1>8, <1>9, <1>10 DEF MembershipNext

\* consume_invite_use and its callers: however many people redeem a link at the
\* same time, and wherever their requests break, the memberships that came from
\* it are among its uses and these are at most max_uses.
THEOREM InvitesAreCapped == MembershipSpec => []InviteUsesCapped
<1>1. MembershipInit => CapInvariant
  <2> SUFFICES ASSUME MembershipInit
               PROVE  CapInvariant
    OBVIOUS
  <2>1. Owed = {}
    BY DEF MembershipInit, Owed
  <2>2. Cardinality(Owed) = 0
    BY <2>1, FS_EmptySet
  <2> QED
    BY <2>2 DEF MembershipInit, CapInvariant, ClaimsHoldTheLock, UsesCover
<1>2. MembershipTypeOK /\ MembershipTypeOK' /\ CapInvariant /\ [MembershipNext]_memberVars
        => CapInvariant'
  BY CapStep
<1>3. MembershipTypeOK /\ CapInvariant => InviteUsesCapped
  BY OwedIsFinite DEF CapInvariant, UsesCover, InviteUsesCapped, MembershipTypeOK
<1> QED
  BY <1>1, <1>2, <1>3, MembershipTyped, PTL DEF MembershipSpec

-----------------------------------------------------------------------------
(* Document types.                                                         *)

\* Unless the prompt was raced for, its one row is as wanted.
KeyKept(t, s) ==
    <<t, s>> \notin racedPrompts =>
       IF wanted[<<t, s>>] = NoPrompt THEN RowsOf(t, s) = {}
       ELSE \E w \in TypeWriters : RowsOf(t, s) = {w} /\ prompts[<<t, s, w>>] = wanted[<<t, s>>]

TypeKept(t) ==
    /\ docTypes[t] = "absent" =>
          /\ t \notin seeded
          /\ \A s \in Scopes : RowsOf(t, s) = {} /\ wanted[<<t, s>>] = NoPrompt
    /\ t \in seeded /\ <<t, Global>> \notin racedPrompts => wanted[<<t, Global>>].kg # NoText

\* What a request read is so still, unless another wrote it.
Knows(work) ==
    /\ work.at \in {"update", "set", "unset"} => docTypes[work.type] # "absent"
    /\ work.at = "update" => work.to # "absent"
    /\ work.at = "unset" =>
          /\ work.scope # Global /\ work.row \in TypeWriters
          /\ ~work.stale => work.row \in RowsOf(work.type, work.scope)
    /\ work.at = "set" /\ ~work.stale =>
          IF work.row = NoRow THEN RowsOf(work.type, work.scope) = {}
          ELSE prompts[<<work.type, work.scope, work.row>>] = work.saw

WorkKnows(q) == Knows(typeWork[q])

\* And what a seed read.  A type it means to leave alone has a prompt for
\* extraction, whatever was written since.
SeedKnows(b) ==
    LET state == seed[b]
    IN  /\ state.fresh \subseteq state.looked
        /\ \A t \in DocTypes, w \in TypeWriters :
              <<t, w>> \in state.bare => t \in state.looked /\ w \in RowsOf(t, Global)
        /\ \A t \in state.todo \cup state.looked : docTypes[t] # "absent"
        /\ \A t \in state.looked :
              /\ t \notin state.stale =>
                    /\ t \in state.fresh <=> RowsOf(t, Global) = {}
                    /\ \A w \in TypeWriters : <<t, w>> \in state.bare <=>
                          w \in RowsOf(t, Global) /\ Bare(prompts[<<t, Global, w>>])
              /\ t \notin state.fresh /\ <<t, Global>> \notin racedPrompts
                 /\ (\A w \in TypeWriters : <<t, w>> \notin state.bare) =>
                    wanted[<<t, Global>>].kg # NoText

TypesInv ==
    /\ DocumentTypesTypeOK
    /\ \A t \in DocTypes : TypeKept(t) /\ \A s \in Scopes : KeyKept(t, s)
    /\ \A q \in TypeRequests : WorkKnows(q)
    /\ \A b \in TypeBoots : SeedKnows(b)
    /\ \A d \in TypedDocuments : typedAs[d] # NoType => docTypes[typedAs[d]] # "absent"

\* The states at rest are typed.
LEMMA IdleTyped == IdleRequest \in RequestStates /\ IdleSeed \in SeedStates
<1>1. (CHOOSE t \in DocTypes : TRUE) \in DocTypes
  BY DocumentTypesAssumption
<1>2. StandardPrompt \in PromptRows
  BY DEF StandardPrompt, PromptRows
<1>3. Global \in Scopes
  BY DEF Scopes
<1>4. IdleRequest \in RequestStates
  BY <1>1, <1>2, <1>3 DEF IdleRequest, RequestStates, Activity
<1> QED
  BY <1>4 DEF IdleSeed, SeedStates

\* And so are those of writers that are done, who know nothing.
LEMMA OverTyped ==
  /\ [IdleRequest EXCEPT !.at = "over"] \in RequestStates
  /\ [IdleRequest EXCEPT !.at = "over"].at = "over"
  /\ [IdleSeed EXCEPT !.at = "over"] \in SeedStates
  /\ [IdleSeed EXCEPT !.at = "over"].looked = {}
  /\ [IdleSeed EXCEPT !.at = "over"].todo = {}
  /\ [IdleSeed EXCEPT !.at = "over"].fresh = {}
  /\ [IdleSeed EXCEPT !.at = "over"].bare = {}
<1>1. /\ [IdleRequest EXCEPT !.at = "over"] \in RequestStates
      /\ [IdleRequest EXCEPT !.at = "over"].at = "over"
  BY IdleTyped DEF RequestStates
<1>2. IdleSeed.looked = {} /\ IdleSeed.todo = {} /\ IdleSeed.fresh = {} /\ IdleSeed.bare = {}
  BY DEF IdleSeed
<1> QED
  BY <1>1, <1>2, IdleTyped DEF SeedStates

\* Others are as they were, but stale where they had read what was written.
LEMMA OthersStale ==
  ASSUME DocumentTypesTypeOK, NEW w \in TypeWriters, NEW keys, OverOthersStale(w, keys)
  PROVE  /\ typeWork' \in [TypeRequests -> RequestStates]
         /\ seed' \in [TypeBoots -> SeedStates]
         /\ w \in TypeRequests => typeWork'[w].at = "over"
         /\ \A q \in TypeRequests \ {w} :
               /\ typeWork'[q].at = typeWork[q].at
               /\ typeWork'[q].type = typeWork[q].type
               /\ typeWork'[q].scope = typeWork[q].scope
               /\ typeWork'[q].to = typeWork[q].to
               /\ typeWork'[q].row = typeWork[q].row
               /\ typeWork'[q].saw = typeWork[q].saw
               /\ ~typeWork'[q].stale => ~typeWork[q].stale /\ ~Touches(q, keys)
         /\ w \in TypeBoots => /\ seed'[w].todo = {} /\ seed'[w].looked = {}
                               /\ seed'[w].fresh = {} /\ seed'[w].bare = {}
         /\ \A b \in TypeBoots \ {w} :
               /\ seed'[b].todo = seed[b].todo
               /\ seed'[b].looked = seed[b].looked
               /\ seed'[b].fresh = seed[b].fresh
               /\ seed'[b].bare = seed[b].bare
               /\ \A t \in seed[b].looked :
                     t \notin seed'[b].stale => t \notin seed[b].stale /\ <<t, Global>> \notin keys
<1> DEFINE over == [IdleRequest EXCEPT !.at = "over"]
           end == [IdleSeed EXCEPT !.at = "over"]
           hit(q) == typeWork[q].stale \/ Touches(q, keys)
           written(b) == seed[b].stale \cup {t \in seed[b].looked : <<t, Global>> \in keys}
           work(q) == [typeWork[q] EXCEPT !.stale = hit(q)]
           state(b) == [seed[b] EXCEPT !.stale = written(b)]
<1>1. /\ typeWork' = [q \in TypeRequests |-> IF q = w THEN over ELSE work(q)]
      /\ seed' = [b \in TypeBoots |-> IF b = w THEN end ELSE state(b)]
  BY DEF OverOthersStale
<1>2. ASSUME NEW q \in TypeRequests
      PROVE  /\ work(q) \in RequestStates
             /\ work(q).at = typeWork[q].at
             /\ work(q).type = typeWork[q].type
             /\ work(q).scope = typeWork[q].scope
             /\ work(q).to = typeWork[q].to
             /\ work(q).row = typeWork[q].row
             /\ work(q).saw = typeWork[q].saw
             /\ work(q).stale = hit(q)
  <2>1. typeWork[q] \in RequestStates
    BY DEF DocumentTypesTypeOK
  <2>2. hit(q) \in BOOLEAN
    BY <2>1 DEF RequestStates, Touches
  <2> HIDE DEF hit
  <2> QED
    BY <2>1, <2>2 DEF RequestStates
<1>3. ASSUME NEW b \in TypeBoots
      PROVE  /\ state(b) \in SeedStates
             /\ state(b).todo = seed[b].todo
             /\ state(b).looked = seed[b].looked
             /\ state(b).fresh = seed[b].fresh
             /\ state(b).bare = seed[b].bare
             /\ state(b).stale = written(b)
  <2>1. seed[b] \in SeedStates
    BY DEF DocumentTypesTypeOK
  <2>2. written(b) \in SUBSET DocTypes
    BY <2>1 DEF SeedStates
  <2> HIDE DEF written
  <2> QED
    BY <2>1, <2>2 DEF SeedStates
<1>4. /\ over \in RequestStates /\ over.at = "over"
      /\ end \in SeedStates /\ end.looked = {} /\ end.todo = {} /\ end.fresh = {} /\ end.bare = {}
  BY OverTyped
<1> HIDE DEF over, end, work, state
<1>5. typeWork' \in [TypeRequests -> RequestStates] /\ seed' \in [TypeBoots -> SeedStates]
  BY <1>1, <1>2, <1>3, <1>4
<1>6. /\ w \in TypeRequests => typeWork'[w].at = "over"
      /\ w \in TypeBoots => /\ seed'[w].todo = {} /\ seed'[w].looked = {}
                            /\ seed'[w].fresh = {} /\ seed'[w].bare = {}
  BY <1>1, <1>4
<1>7. ASSUME NEW q \in TypeRequests \ {w}
      PROVE  /\ typeWork'[q].at = typeWork[q].at
             /\ typeWork'[q].type = typeWork[q].type
             /\ typeWork'[q].scope = typeWork[q].scope
             /\ typeWork'[q].to = typeWork[q].to
             /\ typeWork'[q].row = typeWork[q].row
             /\ typeWork'[q].saw = typeWork[q].saw
             /\ ~typeWork'[q].stale => ~typeWork[q].stale /\ ~Touches(q, keys)
  <2>1. typeWork'[q] = work(q)
    BY <1>1
  <2> QED
    BY <1>2, <2>1
<1>8. ASSUME NEW b \in TypeBoots \ {w}
      PROVE  /\ seed'[b].todo = seed[b].todo
             /\ seed'[b].looked = seed[b].looked
             /\ seed'[b].fresh = seed[b].fresh
             /\ seed'[b].bare = seed[b].bare
             /\ \A t \in seed[b].looked :
                   t \notin seed'[b].stale => t \notin seed[b].stale /\ <<t, Global>> \notin keys
  <2>1. seed'[b] = state(b)
    BY <1>1
  <2> QED
    BY <1>3, <2>1
<1> QED
  BY <1>5, <1>6, <1>7, <1>8

\* A commit keeps what the others know, if what it writes is among its keys.
LEMMA CommitKeepsKnown ==
  ASSUME TypesInv, NEW w \in TypeWriters, NEW keys, OverOthersStale(w, keys),
         \A t \in DocTypes, s \in Scopes : <<t, s>> \notin keys =>
            \A v \in TypeWriters : prompts'[<<t, s, v>>] = prompts[<<t, s, v>>],
         \A t \in DocTypes : docTypes[t] # "absent" => docTypes'[t] # "absent",
         racedPrompts \subseteq racedPrompts',
         \A t \in DocTypes, v \in TypeWriters :
            prompts[<<t, Global, v>>] # NoPrompt => prompts'[<<t, Global, v>>] # NoPrompt,
         \A t \in DocTypes :
            wanted[<<t, Global>>].kg # NoText /\ <<t, Global>> \notin racedPrompts' =>
               wanted'[<<t, Global>>].kg # NoText
  PROVE  /\ \A q \in TypeRequests : WorkKnows(q)'
         /\ \A b \in TypeBoots : SeedKnows(b)'
<1>1. ASSUME NEW t \in DocTypes, NEW s \in Scopes, <<t, s>> \notin keys
      PROVE  RowsOf(t, s)' = RowsOf(t, s)
  BY <1>1 DEF RowsOf
<1>2. ASSUME NEW q \in TypeRequests
      PROVE  WorkKnows(q)'
  <2>1. CASE q = w
    BY <2>1, OthersStale DEF TypesInv, WorkKnows, Knows
  <2>2. CASE q # w
    <3>1. /\ typeWork'[q].at = typeWork[q].at
          /\ typeWork'[q].type = typeWork[q].type
          /\ typeWork'[q].scope = typeWork[q].scope
          /\ typeWork'[q].to = typeWork[q].to
          /\ typeWork'[q].row = typeWork[q].row
          /\ typeWork'[q].saw = typeWork[q].saw
          /\ ~typeWork'[q].stale => ~typeWork[q].stale /\ ~Touches(q, keys)
      BY <2>2, OthersStale DEF TypesInv
    <3>2. WorkKnows(q)
      BY DEF TypesInv
    <3>3. /\ typeWork[q].type \in DocTypes /\ typeWork[q].scope \in Scopes
          /\ typeWork[q].row \in TypeWriters \cup {NoRow}
      BY DEF TypesInv, DocumentTypesTypeOK, RequestStates
    <3>4. typeWork[q].at \in {"set", "unset"} /\ ~typeWork'[q].stale =>
             <<typeWork[q].type, typeWork[q].scope>> \notin keys
      BY <3>1 DEF Touches
    <3> QED
      BY <1>1, <3>1, <3>2, <3>3, <3>4 DEF WorkKnows, Knows
  <2> QED
    BY <2>1, <2>2
<1>3. ASSUME NEW b \in TypeBoots
      PROVE  SeedKnows(b)'
  <2>1. CASE b = w
    BY <2>1, OthersStale DEF TypesInv, SeedKnows
  <2>2. CASE b # w
    <3>1. /\ seed'[b].todo = seed[b].todo
          /\ seed'[b].looked = seed[b].looked
          /\ seed'[b].fresh = seed[b].fresh
          /\ seed'[b].bare = seed[b].bare
          /\ \A t \in seed[b].looked :
                t \notin seed'[b].stale => t \notin seed[b].stale /\ <<t, Global>> \notin keys
      BY <2>2, OthersStale DEF TypesInv
    <3>2. SeedKnows(b)
      BY DEF TypesInv
    <3>3. seed[b].looked \subseteq DocTypes /\ seed[b].todo \subseteq DocTypes /\ Global \in Scopes
      BY DEF TypesInv, DocumentTypesTypeOK, SeedStates, Scopes
    <3>4. \A t \in DocTypes : RowsOf(t, Global) \subseteq RowsOf(t, Global)'
      BY DEF RowsOf
    <3> QED
      BY <1>1, <3>1, <3>2, <3>3, <3>4 DEF SeedKnows, Bare
  <2> QED
    BY <2>1, <2>2
<1> QED
  BY <1>2, <1>3

\* A request that reads keeps the invariant if it knows what it read.
LEMMA ReadKeeps ==
  ASSUME TypesInv, NEW q \in TypeRequests, NEW request \in RequestStates, Reads(q, request),
         Knows(request)
  PROVE  TypesInv'
<1>1. /\ typeWork' = [typeWork EXCEPT ![q] = request]
      /\ UNCHANGED <<docTypes, prompts, seed, typeCache, typedAs, wanted, racedPrompts, seeded>>
  BY DEF Reads
<1>2. DocumentTypesTypeOK'
  BY <1>1 DEF TypesInv, DocumentTypesTypeOK
<1>3. ASSUME NEW p \in TypeRequests
      PROVE  WorkKnows(p)'
  <2>1. typeWork'[p] = IF p = q THEN request ELSE typeWork[p]
    BY <1>1 DEF TypesInv, DocumentTypesTypeOK
  <2>2. Knows(typeWork[p])
    BY DEF TypesInv, WorkKnows
  <2>3. CASE p = q
    BY <1>1, <2>1, <2>3 DEF WorkKnows, Knows, RowsOf
  <2>4. CASE p # q
    BY <1>1, <2>1, <2>2, <2>4 DEF WorkKnows, Knows, RowsOf
  <2> QED
    BY <2>3, <2>4
<1> QED
  BY <1>1, <1>2, <1>3 DEF TypesInv, TypeKept, KeyKept, SeedKnows, RowsOf

\* The row a SELECT returns is one of those there are.
LEMMA RowReadIsRow ==
  ASSUME NEW t, NEW s
  PROVE  /\ RowRead(t, s) \in RowsOf(t, s) \cup {NoRow}
         /\ RowsOf(t, s) = {} => RowRead(t, s) = NoRow
         /\ RowsOf(t, s) # {} => RowRead(t, s) \in RowsOf(t, s)
BY DEF RowRead

\* Requests know what they read.
LEMMA RequestReads ==
  ASSUME TypesInv, NEW q \in TypeRequests, NEW t \in DocTypes
  PROVE  /\ CreateReads(q, t) => TypesInv'
         /\ \A to \in Activity : ActivityReads(q, t, to) => TypesInv'
         /\ \A s \in Scopes : UnsetReads(q, t, s) => TypesInv'
         /\ \A s \in Scopes, new \in PromptRows : SetReads(q, t, s, new) => TypesInv'
<1>1. ASSUME CreateReads(q, t)
      PROVE  TypesInv'
  <2> DEFINE a == [IdleRequest EXCEPT !.at = "create"]
             c == [a EXCEPT !.type = t]
  <2>1. a \in RequestStates /\ a.at = "create"
    BY IdleTyped DEF RequestStates
  <2>2. c \in RequestStates /\ c.at = "create"
    <3> HIDE DEF a
    <3> QED
      BY <2>1 DEF RequestStates
  <2>3. Reads(q, c)
    BY <1>1 DEF CreateReads
  <2> HIDE DEF c
  <2> QED
    BY <2>2, <2>3, ReadKeeps DEF Knows
<1>2. ASSUME NEW to \in Activity, ActivityReads(q, t, to)
      PROVE  TypesInv'
  <2> DEFINE a == [IdleRequest EXCEPT !.at = "update"]
             b == [a EXCEPT !.type = t]
             c == [b EXCEPT !.to = to]
  <2>1. a \in RequestStates /\ a.at = "update"
    BY IdleTyped DEF RequestStates
  <2>2. b \in RequestStates /\ b.at = "update" /\ b.type = t
    <3> HIDE DEF a
    <3> QED
      BY <2>1 DEF RequestStates
  <2>3. c \in RequestStates /\ c.at = "update" /\ c.type = t /\ c.to = to
    <3> HIDE DEF b
    <3> QED
      BY <2>2 DEF RequestStates
  <2>4. Reads(q, c)
    BY <1>2 DEF ActivityReads
  <2> HIDE DEF c
  <2> QED
    BY <1>2, <2>3, <2>4, ReadKeeps DEF Knows, ActivityReads
<1>3. ASSUME NEW s \in Scopes, UnsetReads(q, t, s)
      PROVE  TypesInv'
  <2> DEFINE row == RowRead(t, s)
             a == [IdleRequest EXCEPT !.at = "unset"]
             b == [a EXCEPT !.type = t]
             d == [b EXCEPT !.scope = s]
             c == [d EXCEPT !.row = row]
  <2>1. row \in RowsOf(t, s) /\ row \in TypeWriters
    BY <1>3, RowReadIsRow DEF UnsetReads, RowsOf
  <2>2. a \in RequestStates /\ a.at = "unset"
    BY IdleTyped DEF RequestStates
  <2>3. b \in RequestStates /\ b.at = "unset" /\ b.type = t
    <3> HIDE DEF a
    <3> QED
      BY <2>2 DEF RequestStates
  <2>4. d \in RequestStates /\ d.at = "unset" /\ d.type = t /\ d.scope = s
    <3> HIDE DEF b
    <3> QED
      BY <2>3 DEF RequestStates
  <2>5. c \in RequestStates /\ c.at = "unset" /\ c.type = t /\ c.scope = s /\ c.row = row
    <3> HIDE DEF d, row
    <3> QED
      BY <2>1, <2>4 DEF RequestStates
  <2>6. Reads(q, c)
    BY <1>3 DEF UnsetReads
  <2> HIDE DEF c, row
  <2> QED
    BY <1>3, <2>1, <2>5, <2>6, ReadKeeps DEF Knows, UnsetReads
<1>4. ASSUME NEW s \in Scopes, NEW new \in PromptRows, SetReads(q, t, s, new)
      PROVE  TypesInv'
  <2> DEFINE row == RowRead(t, s)
             saw == IF row = NoRow THEN NoPrompt ELSE prompts[<<t, s, row>>]
             a == [IdleRequest EXCEPT !.at = "set"]
             b == [a EXCEPT !.type = t]
             d == [b EXCEPT !.scope = s]
             e == [d EXCEPT !.new = new]
             f == [e EXCEPT !.row = row]
             c == [f EXCEPT !.saw = saw]
  <2>1. /\ row \in TypeWriters \cup {NoRow}
        /\ row = NoRow => RowsOf(t, s) = {}
        /\ saw \in PromptRows \cup {NoPrompt}
        /\ row # NoRow => saw = prompts[<<t, s, row>>]
    <3>1. NoRow \notin TypeWriters
      BY DocumentTypesAssumption
    <3>2. row \in RowsOf(t, s) \cup {NoRow} /\ (row = NoRow => RowsOf(t, s) = {})
      BY RowReadIsRow, <3>1 DEF RowsOf
    <3>3. row \in TypeWriters \cup {NoRow}
      BY <3>2 DEF RowsOf
    <3> HIDE DEF row
    <3> QED
      BY <3>1, <3>2, <3>3 DEF TypesInv, DocumentTypesTypeOK
  <2>2. a \in RequestStates /\ a.at = "set"
    BY IdleTyped DEF RequestStates
  <2>3. b \in RequestStates /\ b.at = "set" /\ b.type = t
    <3> HIDE DEF a
    <3> QED
      BY <2>2 DEF RequestStates
  <2>4. d \in RequestStates /\ d.at = "set" /\ d.type = t /\ d.scope = s
    <3> HIDE DEF b
    <3> QED
      BY <2>3 DEF RequestStates
  <2>5. e \in RequestStates /\ e.at = "set" /\ e.type = t /\ e.scope = s
    <3> HIDE DEF d
    <3> QED
      BY <2>4 DEF RequestStates
  <2>6. f \in RequestStates /\ f.at = "set" /\ f.type = t /\ f.scope = s /\ f.row = row
    <3> HIDE DEF e, row
    <3> QED
      BY <2>1, <2>5 DEF RequestStates
  <2>7. /\ c \in RequestStates /\ c.at = "set" /\ c.type = t /\ c.scope = s /\ c.row = row
        /\ c.saw = saw
    <3> HIDE DEF f, row, saw
    <3> QED
      BY <2>1, <2>6 DEF RequestStates
  <2>8. Reads(q, c)
    BY <1>4 DEF SetReads
  <2> HIDE DEF c, row, saw
  <2> QED
    BY <1>4, <2>1, <2>7, <2>8, ReadKeeps DEF Knows, SetReads
<1> QED
  BY <1>1, <1>2, <1>3, <1>4

\* A prompt is set or unset: its one row becomes what it is meant to be.
LEMMA PromptKeeps ==
  ASSUME TypesInv, NEW q \in TypeRequests, NEW t \in DocTypes, NEW s \in Scopes,
         NEW row \in TypeWriters,
         NEW value \in PromptRows \cup {NoPrompt}, NEW alone \in PromptRows \cup {NoPrompt},
         PromptCommits(q, <<t, s>>, row, value, alone),
         docTypes[t] # "absent",
         ~typeWork[q].stale /\ <<t, s>> \notin racedPrompts =>
            value = alone /\ RowsOf(t, s) \subseteq {row},
         s = Global => value # NoPrompt,
         s = Global /\ wanted[<<t, Global>>].kg # NoText => alone.kg # NoText
  PROVE  TypesInv'
<1> DEFINE keys == {<<t, s>>}
<1>1. /\ prompts' = [prompts EXCEPT ![<<t, s, row>>] = value]
      /\ wanted' = [wanted EXCEPT ![<<t, s>>] = alone]
      /\ racedPrompts' = IF typeWork[q].stale THEN racedPrompts \cup {<<t, s>>} ELSE racedPrompts
      /\ OverOthersStale(q, keys)
      /\ UNCHANGED <<docTypes, typeCache, typedAs, seeded>>
  BY DEF PromptCommits
<1>2. /\ prompts \in [DocTypes \X Scopes \X TypeWriters -> PromptRows \cup {NoPrompt}]
      /\ wanted \in [DocTypes \X Scopes -> PromptRows \cup {NoPrompt}]
      /\ racedPrompts \subseteq DocTypes \X Scopes
      /\ q \in TypeWriters
  BY DEF TypesInv, DocumentTypesTypeOK, TypeWriters
<1>3. /\ prompts' \in [DocTypes \X Scopes \X TypeWriters -> PromptRows \cup {NoPrompt}]
      /\ \A u \in DocTypes, r \in Scopes, v \in TypeWriters :
            prompts'[<<u, r, v>>] =
               IF <<u, r, v>> = <<t, s, row>> THEN value ELSE prompts[<<u, r, v>>]
  BY <1>1, <1>2
<1>4. /\ wanted' \in [DocTypes \X Scopes -> PromptRows \cup {NoPrompt}]
      /\ \A u \in DocTypes, r \in Scopes :
            wanted'[<<u, r>>] = IF <<u, r>> = <<t, s>> THEN alone ELSE wanted[<<u, r>>]
  BY <1>1, <1>2
<1>5. racedPrompts' \subseteq DocTypes \X Scopes /\ racedPrompts \subseteq racedPrompts'
  BY <1>1, <1>2
<1>6. DocumentTypesTypeOK'
  BY <1>1, <1>2, <1>3, <1>4, <1>5, OthersStale DEF TypesInv, DocumentTypesTypeOK
<1>7. /\ \A p \in TypeRequests : WorkKnows(p)'
      /\ \A b \in TypeBoots : SeedKnows(b)'
  <2>1. \A u \in DocTypes, r \in Scopes : <<u, r>> \notin keys =>
           \A v \in TypeWriters : prompts'[<<u, r, v>>] = prompts[<<u, r, v>>]
    BY <1>3
  <2>2. \A u \in DocTypes : wanted[<<u, Global>>].kg # NoText => wanted'[<<u, Global>>].kg # NoText
    BY <1>4 DEF Scopes
  <2>3. \A u \in DocTypes, v \in TypeWriters :
           prompts[<<u, Global, v>>] # NoPrompt => prompts'[<<u, Global, v>>] # NoPrompt
    BY <1>3 DEF Scopes
  <2> HIDE DEF keys
  <2> QED
    BY <1>1, <1>2, <1>5, <2>1, <2>2, <2>3, CommitKeepsKnown
<1>8. ASSUME NEW u \in DocTypes, NEW r \in Scopes
      PROVE  KeyKept(u, r)'
  <2>1. KeyKept(u, r)
    BY DEF TypesInv
  <2>2. CASE <<u, r>> = <<t, s>>
    <3>1. SUFFICES ASSUME <<t, s>> \notin racedPrompts'
                   PROVE  IF alone = NoPrompt THEN RowsOf(t, s)' = {}
                          ELSE \E w \in TypeWriters : /\ RowsOf(t, s)' = {w}
                                                      /\ prompts'[<<t, s, w>>] = alone
      BY <1>4, <2>2 DEF KeyKept
    <3>2. value = alone /\ RowsOf(t, s) \subseteq {row}
      BY <1>1, <1>5, <3>1
    <3>3. RowsOf(t, s)' = IF value = NoPrompt THEN {} ELSE {row}
      BY <1>3, <3>2 DEF RowsOf
    <3> QED
      BY <1>3, <3>2, <3>3
  <2>3. CASE <<u, r>> # <<t, s>>
    <3>1. RowsOf(u, r)' = RowsOf(u, r)
      BY <1>3, <2>3 DEF RowsOf
    <3>2. wanted'[<<u, r>>] = wanted[<<u, r>>]
      BY <1>4, <2>3
    <3>3. \A w \in TypeWriters : prompts'[<<u, r, w>>] = prompts[<<u, r, w>>]
      BY <1>3, <2>3
    <3> QED
      BY <1>5, <2>1, <3>1, <3>2, <3>3 DEF KeyKept
  <2> QED
    BY <2>2, <2>3
<1>9. ASSUME NEW u \in DocTypes
      PROVE  TypeKept(u)'
  <2>1. TypeKept(u) /\ Global \in Scopes
    BY DEF TypesInv, Scopes
  <2>2. CASE u = t
    BY <1>1, <1>4, <1>5, <2>1, <2>2 DEF TypeKept
  <2>3. CASE u # t
    <3>1. \A r \in Scopes : RowsOf(u, r)' = RowsOf(u, r) /\ wanted'[<<u, r>>] = wanted[<<u, r>>]
      BY <1>3, <1>4, <2>3 DEF RowsOf
    <3> QED
      BY <1>1, <1>5, <2>1, <3>1 DEF TypeKept
  <2> QED
    BY <2>2, <2>3
<1> QED
  BY <1>1, <1>6, <1>7, <1>8, <1>9 DEF TypesInv

\* What requests commit keeps the invariant.
LEMMA RequestCommits ==
  ASSUME TypesInv, NEW q \in TypeRequests
  PROVE  /\ SetUpdates(q) => TypesInv'
         /\ SetInserts(q) => TypesInv'
         /\ UnsetCommits(q) => TypesInv'
         /\ ActivityCommits(q) \/ RequestFails(q) => TypesInv'
<1>1. PICK t \in DocTypes, s \in Scopes : t = typeWork[q].type /\ s = typeWork[q].scope
  BY DEF TypesInv, DocumentTypesTypeOK, RequestStates
<1> DEFINE work == typeWork[q]
           new == work.new
           saw == work.saw
           row == work.row
           wish == wanted[<<t, s>>]
<1>2. /\ work \in RequestStates /\ Knows(work)
      /\ new \in PromptRows /\ saw \in PromptRows \cup {NoPrompt}
      /\ row \in TypeWriters \cup {NoRow} /\ NoRow \notin TypeWriters
      /\ wish \in PromptRows \cup {NoPrompt} /\ KeyKept(t, s) /\ TypeKept(t)
      /\ q \in TypeWriters
  BY <1>1, DocumentTypesAssumption
     DEF TypesInv, DocumentTypesTypeOK, RequestStates, WorkKnows, TypeWriters
<1>3. /\ \A p \in PromptRows : p.text # NoText /\ p # NoPrompt
      /\ NoPrompt.kg = NoText /\ NoPrompt.text = NoText
  BY DocumentTypesAssumption DEF PromptRows, NoPrompt
<1>4. ASSUME NEW now \in PromptRows \cup {NoPrompt}
      PROVE  /\ Applied(new, now) \in PromptRows
             /\ now.kg # NoText => Applied(new, now).kg # NoText
             /\ Written(new, saw, now) \in PromptRows \/ now = NoPrompt
             /\ now = saw => Written(new, saw, now) = Applied(new, now)
             /\ now = NoPrompt => Applied(new, now) = new
  <2>1. /\ new.text \in PromptTexts \cup {Standard}
        /\ new.kg \in PromptTexts \cup {Standard, NoText}
        /\ new = [text |-> new.text, kg |-> new.kg]
    BY <1>2 DEF PromptRows
  <2>2. /\ now.kg \in PromptTexts \cup {Standard, NoText}
        /\ now # NoPrompt => now.text \in PromptTexts \cup {Standard}
    BY DEF PromptRows, NoPrompt
  <2>3. /\ Applied(new, now).text = new.text
        /\ Applied(new, now).kg = IF new.kg = NoText THEN now.kg ELSE new.kg
        /\ Applied(new, now) \in PromptRows
    BY <2>1, <2>2 DEF Applied, PromptRows
  <2>4. Written(new, saw, now) \in PromptRows \/ now = NoPrompt
    BY <2>1, <2>2 DEF Written, PromptRows
  <2>5. now = saw => Written(new, saw, now) = Applied(new, now)
    BY DEF Written, Applied
  <2>6. now = NoPrompt => Applied(new, now) = new
    <3>1. ASSUME now = NoPrompt
          PROVE  Applied(new, now) = [text |-> new.text, kg |-> new.kg]
      BY <1>3, <3>1 DEF Applied
    <3> QED
      BY <2>1, <3>1
  <2> QED
    BY <2>3, <2>4, <2>5, <2>6
<1>5. ASSUME SetUpdates(q)
      PROVE  TypesInv'
  <2> DEFINE now == prompts[<<t, s, row>>]
  <2>1. /\ work.at = "set" /\ row # NoRow /\ now # NoPrompt
        /\ PromptCommits(q, <<t, s>>, row, Written(new, saw, now), Applied(new, wish))
    BY <1>1, <1>5 DEF SetUpdates
  <2>2. row \in TypeWriters /\ now \in PromptRows /\ row \in RowsOf(t, s)
    BY <1>2, <2>1 DEF TypesInv, DocumentTypesTypeOK, RowsOf
  <2>3. docTypes[t] # "absent" /\ (~work.stale => now = saw)
    BY <1>1, <1>2, <2>1 DEF Knows
  <2>4. ASSUME ~work.stale, <<t, s>> \notin racedPrompts
        PROVE  wish = now /\ RowsOf(t, s) \subseteq {row}
    BY <1>2, <2>2, <2>4 DEF KeyKept
  <2>5. /\ Applied(new, wish) \in PromptRows
        /\ wish.kg # NoText => Applied(new, wish).kg # NoText
        /\ Written(new, saw, now) \in PromptRows
        /\ now = saw => Written(new, saw, now) = Applied(new, now)
    BY <1>2, <1>4, <2>1, <2>2
  <2> DEFINE value == Written(new, saw, now)
             alone == Applied(new, wish)
  <2>6. /\ value \in PromptRows /\ value # NoPrompt /\ alone \in PromptRows
        /\ s = Global /\ wanted[<<t, Global>>].kg # NoText => alone.kg # NoText
        /\ PromptCommits(q, <<t, s>>, row, value, alone)
    BY <1>3, <2>1, <2>5
  <2>7. ~work.stale /\ <<t, s>> \notin racedPrompts =>
           value = alone /\ RowsOf(t, s) \subseteq {row}
    BY <2>3, <2>4, <2>5
  <2> HIDE DEF value, alone
  <2> QED
    BY <2>2, <2>3, <2>6, <2>7, PromptKeeps
<1>6. ASSUME SetInserts(q)
      PROVE  TypesInv'
  <2>1. /\ work.at = "set" /\ row = NoRow
        /\ PromptCommits(q, <<t, s>>, q, new, Applied(new, wish))
    BY <1>1, <1>6 DEF SetInserts
  <2>2. docTypes[t] # "absent" /\ (~work.stale => RowsOf(t, s) = {})
    BY <1>1, <1>2, <2>1 DEF Knows
  <2>3. ASSUME ~work.stale, <<t, s>> \notin racedPrompts
        PROVE  wish = NoPrompt
    BY <1>2, <2>2, <2>3 DEF KeyKept
  <2>4. /\ Applied(new, wish) \in PromptRows
        /\ wish.kg # NoText => Applied(new, wish).kg # NoText
        /\ wish = NoPrompt => Applied(new, wish) = new
    BY <1>2, <1>4
  <2>5. new # NoPrompt
    BY <1>2, <1>3
  <2> QED
    BY <1>2, <2>1, <2>2, <2>3, <2>4, <2>5, PromptKeeps
<1>7. ASSUME UnsetCommits(q)
      PROVE  TypesInv'
  <2>1. /\ work.at = "unset"
        /\ PromptCommits(q, <<t, s>>, row, NoPrompt, NoPrompt)
    BY <1>1, <1>7 DEF UnsetCommits
  <2>2. /\ docTypes[t] # "absent" /\ s # Global /\ row \in TypeWriters
        /\ ~work.stale => row \in RowsOf(t, s)
    BY <1>1, <1>2, <2>1 DEF Knows
  <2>3. ASSUME ~work.stale, <<t, s>> \notin racedPrompts
        PROVE  RowsOf(t, s) \subseteq {row}
    BY <1>2, <2>2, <2>3 DEF KeyKept
  <2> QED
    BY <2>1, <2>2, <2>3, PromptKeeps
<1>8. ASSUME ActivityCommits(q) \/ RequestFails(q)
      PROVE  TypesInv'
  <2>1. /\ OverOthersStale(q, {})
        /\ UNCHANGED <<prompts, typeCache, typedAs, wanted, racedPrompts, seeded>>
    BY <1>8 DEF ActivityCommits, RequestFails
  <2>2. /\ docTypes' \in [DocTypes -> Activity]
        /\ \A u \in DocTypes : docTypes'[u] = "absent" <=> docTypes[u] = "absent"
    <3>1. docTypes \in [DocTypes -> Activity]
      BY DEF TypesInv, DocumentTypesTypeOK
    <3>2. CASE RequestFails(q)
      BY <3>1, <3>2 DEF RequestFails
    <3>3. CASE ActivityCommits(q)
      <4>1. /\ docTypes' = [docTypes EXCEPT ![t] = work.to]
            /\ docTypes[t] # "absent" /\ work.to # "absent" /\ work.to \in Activity
        BY <1>1, <1>2, <3>3 DEF ActivityCommits, Knows, RequestStates
      <4> QED
        BY <3>1, <4>1
    <3> QED
      BY <1>8, <3>2, <3>3
  <2>3. DocumentTypesTypeOK'
    BY <1>2, <2>1, <2>2, OthersStale DEF TypesInv, DocumentTypesTypeOK
  <2>4. /\ \A p \in TypeRequests : WorkKnows(p)'
        /\ \A b \in TypeBoots : SeedKnows(b)'
    BY <1>2, <2>1, <2>2, CommitKeepsKnown
  <2>5. \A u \in DocTypes : TypeKept(u)' /\ \A r \in Scopes : KeyKept(u, r)'
    BY <2>1, <2>2 DEF TypesInv, TypeKept, KeyKept, RowsOf
  <2>6. \A d \in TypedDocuments : typedAs'[d] # NoType => docTypes'[typedAs'[d]] # "absent"
    BY <2>1, <2>2 DEF TypesInv, DocumentTypesTypeOK
  <2> QED
    BY <2>3, <2>4, <2>5, <2>6 DEF TypesInv
<1> QED
  BY <1>5, <1>6, <1>7, <1>8

\* A type that is created comes with its one prompt.
LEMMA CreateKeeps ==
  ASSUME TypesInv, NEW q \in TypeRequests, CreateCommits(q)
  PROVE  TypesInv'
<1>1. PICK t \in DocTypes : t = typeWork[q].type
  BY DEF TypesInv, DocumentTypesTypeOK, RequestStates
<1> DEFINE keys == {<<t, Global>>}
<1>2. /\ docTypes[t] = "absent"
      /\ docTypes' = [docTypes EXCEPT ![t] = "active"]
      /\ prompts' = [prompts EXCEPT ![<<t, Global, q>>] = StandardPrompt]
      /\ wanted' = [wanted EXCEPT ![<<t, Global>>] = StandardPrompt]
      /\ OverOthersStale(q, keys)
      /\ UNCHANGED <<typeCache, typedAs, racedPrompts, seeded>>
  BY <1>1 DEF CreateCommits
<1>3. /\ docTypes \in [DocTypes -> Activity]
      /\ prompts \in [DocTypes \X Scopes \X TypeWriters -> PromptRows \cup {NoPrompt}]
      /\ wanted \in [DocTypes \X Scopes -> PromptRows \cup {NoPrompt}]
      /\ q \in TypeWriters /\ Global \in Scopes
      /\ StandardPrompt \in PromptRows
      /\ StandardPrompt # NoPrompt /\ StandardPrompt.kg # NoText
  BY DocumentTypesAssumption
     DEF TypesInv, DocumentTypesTypeOK, TypeWriters, Scopes, StandardPrompt, PromptRows, NoPrompt
<1>4. /\ prompts' \in [DocTypes \X Scopes \X TypeWriters -> PromptRows \cup {NoPrompt}]
      /\ \A u \in DocTypes, r \in Scopes, v \in TypeWriters :
            prompts'[<<u, r, v>>] =
               IF <<u, r, v>> = <<t, Global, q>> THEN StandardPrompt ELSE prompts[<<u, r, v>>]
  BY <1>2, <1>3
<1>5. /\ wanted' \in [DocTypes \X Scopes -> PromptRows \cup {NoPrompt}]
      /\ \A u \in DocTypes, r \in Scopes :
            wanted'[<<u, r>>] = IF <<u, r>> = <<t, Global>> THEN StandardPrompt
                                ELSE wanted[<<u, r>>]
  BY <1>2, <1>3
<1>6. /\ docTypes' \in [DocTypes -> Activity]
      /\ docTypes'[t] # "absent" /\ \A u \in DocTypes \ {t} : docTypes'[u] = docTypes[u]
  BY <1>2, <1>3 DEF Activity
<1>7. DocumentTypesTypeOK'
  BY <1>2, <1>3, <1>4, <1>5, <1>6, OthersStale DEF TypesInv, DocumentTypesTypeOK
<1>8. /\ \A p \in TypeRequests : WorkKnows(p)'
      /\ \A b \in TypeBoots : SeedKnows(b)'
  <2>1. \A u \in DocTypes, r \in Scopes : <<u, r>> \notin keys =>
           \A v \in TypeWriters : prompts'[<<u, r, v>>] = prompts[<<u, r, v>>]
    BY <1>4
  <2>2. \A u \in DocTypes : wanted[<<u, Global>>].kg # NoText => wanted'[<<u, Global>>].kg # NoText
    BY <1>3, <1>5
  <2>3. \A u \in DocTypes : docTypes[u] # "absent" => docTypes'[u] # "absent"
    BY <1>6
  <2> HIDE DEF keys
  <2> QED
    BY <1>2, <1>3, <2>1, <2>2, <2>3, CommitKeepsKnown
<1>9. ASSUME NEW u \in DocTypes, NEW r \in Scopes
      PROVE  KeyKept(u, r)'
  <2>1. KeyKept(u, r) /\ TypeKept(t)
    BY DEF TypesInv
  <2>2. CASE <<u, r>> = <<t, Global>>
    <3>1. RowsOf(t, Global) = {}
      BY <1>2, <1>3, <2>1 DEF TypeKept
    <3>2. RowsOf(t, Global)' = {q}
      BY <1>3, <1>4, <3>1 DEF RowsOf
    <3>3. prompts'[<<t, Global, q>>] = StandardPrompt /\ wanted'[<<t, Global>>] = StandardPrompt
      BY <1>3, <1>4, <1>5
    <3> QED
      BY <1>3, <2>2, <3>2, <3>3 DEF KeyKept
  <2>3. CASE <<u, r>> # <<t, Global>>
    <3>1. RowsOf(u, r)' = RowsOf(u, r)
      BY <1>4, <2>3 DEF RowsOf
    <3>2. wanted'[<<u, r>>] = wanted[<<u, r>>]
      BY <1>5, <2>3
    <3>3. \A w \in TypeWriters : prompts'[<<u, r, w>>] = prompts[<<u, r, w>>]
      BY <1>4, <2>3
    <3> QED
      BY <1>2, <2>1, <3>1, <3>2, <3>3 DEF KeyKept
  <2> QED
    BY <2>2, <2>3
<1>10. ASSUME NEW u \in DocTypes
       PROVE  TypeKept(u)'
  <2>1. TypeKept(u)
    BY DEF TypesInv
  <2>2. CASE u = t
    BY <1>2, <1>3, <1>5, <1>6, <2>2 DEF TypeKept
  <2>3. CASE u # t
    <3>1. \A r \in Scopes : RowsOf(u, r)' = RowsOf(u, r) /\ wanted'[<<u, r>>] = wanted[<<u, r>>]
      BY <1>4, <1>5, <2>3 DEF RowsOf
    <3> QED
      BY <1>2, <1>3, <1>6, <2>1, <2>3, <3>1 DEF TypeKept
  <2> QED
    BY <2>2, <2>3
<1>11. \A d \in TypedDocuments : typedAs'[d] # NoType => docTypes'[typedAs'[d]] # "absent"
  BY <1>2, <1>6 DEF TypesInv, DocumentTypesTypeOK
<1> QED
  BY <1>7, <1>8, <1>9, <1>10, <1>11 DEF TypesInv

\* A seed that only reads, or fails.
LEMMA SeedGoesOn ==
  ASSUME TypesInv, NEW b \in TypeBoots, NEW state \in SeedStates, SeedGoes(b, state),
         (SeedKnows(b)')
  PROVE  TypesInv'
<1>1. /\ seed' = [seed EXCEPT ![b] = state]
      /\ UNCHANGED <<docTypes, prompts, typeWork, typeCache, typedAs, wanted, racedPrompts,
                     seeded>>
  BY DEF SeedGoes
<1>2. DocumentTypesTypeOK'
  BY <1>1 DEF TypesInv, DocumentTypesTypeOK
<1>3. ASSUME NEW c \in TypeBoots, c # b
      PROVE  SeedKnows(c)'
  <2>1. seed'[c] = seed[c] /\ SeedKnows(c)
    BY <1>1, <1>3 DEF TypesInv, DocumentTypesTypeOK
  <2> QED
    BY <1>1, <2>1 DEF SeedKnows, RowsOf
<1>4. \A t \in DocTypes : TypeKept(t)' /\ \A s \in Scopes : KeyKept(t, s)'
  BY <1>1 DEF TypesInv, TypeKept, KeyKept, RowsOf
<1>5. \A q \in TypeRequests : WorkKnows(q)'
  BY <1>1 DEF TypesInv, WorkKnows, Knows, RowsOf
<1> QED
  BY <1>1, <1>2, <1>3, <1>4, <1>5 DEF TypesInv

\* Seeds know what they read, and one that fails changes nothing.
LEMMA SeedsGoOn ==
  ASSUME TypesInv, NEW b \in TypeBoots
  PROVE  /\ SeedReads(b) => TypesInv'
         /\ SeedLists(b) => TypesInv'
         /\ \A t \in DocTypes : SeedLooks(b, t) => TypesInv'
         /\ SeedFails(b) => TypesInv'
<1> DEFINE old == seed[b]
<1>1. /\ old \in SeedStates /\ SeedKnows(b)
      /\ \A state : SeedGoes(b, state) => seed'[b] = state
      /\ \A state : SeedGoes(b, state) => UNCHANGED <<docTypes, prompts, wanted, racedPrompts>>
  BY DEF TypesInv, DocumentTypesTypeOK, SeedGoes
<1>2. ASSUME SeedReads(b)
      PROVE  TypesInv'
  <2> DEFINE missing == {t \in DefaultTypes : docTypes[t] = "absent"}
             a == [old EXCEPT !.at = "read"]
             c == [a EXCEPT !.missing = missing]
  <2>1. missing \in SUBSET DocTypes
    BY DocumentTypesAssumption
  <2>2. /\ a \in SeedStates /\ a.todo = old.todo /\ a.looked = old.looked
        /\ a.fresh = old.fresh /\ a.bare = old.bare /\ a.stale = old.stale
    BY <1>1 DEF SeedStates
  <2>3. /\ c \in SeedStates /\ c.todo = old.todo /\ c.looked = old.looked
        /\ c.fresh = old.fresh /\ c.bare = old.bare /\ c.stale = old.stale
    <3> HIDE DEF a, missing
    <3> QED
      BY <2>1, <2>2 DEF SeedStates
  <2>4. SeedGoes(b, c)
    BY <1>2 DEF SeedReads
  <2> HIDE DEF c, old
  <2>5. SeedKnows(b)'
    BY <1>1, <2>3, <2>4 DEF SeedKnows, RowsOf, old
  <2> QED
    BY <2>3, <2>4, <2>5, SeedGoesOn
<1>3. ASSUME SeedLists(b)
      PROVE  TypesInv'
  <2> DEFINE active == {t \in DocTypes : docTypes[t] = "active"}
             a == [old EXCEPT !.at = "look"]
             c == [a EXCEPT !.todo = active]
  <2>1. active \in SUBSET DocTypes
    OBVIOUS
  <2>2. /\ a \in SeedStates /\ a.looked = old.looked
        /\ a.fresh = old.fresh /\ a.bare = old.bare /\ a.stale = old.stale
    BY <1>1 DEF SeedStates
  <2>3. /\ c \in SeedStates /\ c.todo = active /\ c.looked = old.looked
        /\ c.fresh = old.fresh /\ c.bare = old.bare /\ c.stale = old.stale
    <3> HIDE DEF a, active
    <3> QED
      BY <2>1, <2>2 DEF SeedStates
  <2>4. SeedGoes(b, c)
    BY <1>3 DEF SeedLists
  <2> HIDE DEF c, old
  <2>5. SeedKnows(b)'
    BY <1>1, <2>3, <2>4 DEF SeedKnows, RowsOf, old
  <2> QED
    BY <2>3, <2>4, <2>5, SeedGoesOn
<1>4. ASSUME NEW t \in DocTypes, SeedLooks(b, t)
      PROVE  TypesInv'
  <2> DEFINE rows == RowsOf(t, Global)
             naked == {t} \X {w \in rows : Bare(prompts[<<t, Global, w>>])}
             fresh == IF rows = {} THEN old.fresh \cup {t} ELSE old.fresh
             a == [old EXCEPT !.todo = old.todo \ {t}]
             d == [a EXCEPT !.looked = old.looked \cup {t}]
             e == [d EXCEPT !.fresh = fresh]
             c == [e EXCEPT !.bare = old.bare \cup naked]
  <2>1. /\ rows \in SUBSET TypeWriters
        /\ naked \in SUBSET (DocTypes \X TypeWriters)
        /\ old.fresh \in SUBSET DocTypes /\ old.todo \in SUBSET DocTypes
        /\ old.looked \in SUBSET DocTypes /\ old.bare \in SUBSET (DocTypes \X TypeWriters)
        /\ \A u \in DocTypes, w \in TypeWriters :
              <<u, w>> \in naked <=> u = t /\ w \in rows /\ Bare(prompts[<<t, Global, w>>])
    BY <1>1 DEF RowsOf, SeedStates
  <2>2. fresh \in SUBSET DocTypes
    BY <2>1
  <2>3. /\ a \in SeedStates /\ a.todo = old.todo \ {t} /\ a.stale = old.stale /\ a.bare = old.bare
    <3> HIDE DEF old
    <3> QED
      BY <1>1, <2>1 DEF SeedStates
  <2>4. /\ d \in SeedStates /\ d.todo = old.todo \ {t} /\ d.stale = old.stale
        /\ d.looked = old.looked \cup {t} /\ d.bare = old.bare
    <3> HIDE DEF a, old
    <3> QED
      BY <2>1, <2>3 DEF SeedStates
  <2>5. /\ e \in SeedStates /\ e.todo = old.todo \ {t} /\ e.stale = old.stale
        /\ e.looked = old.looked \cup {t} /\ e.fresh = fresh /\ e.bare = old.bare
    <3> HIDE DEF d, old, fresh
    <3> QED
      BY <2>2, <2>4 DEF SeedStates
  <2>6. /\ c \in SeedStates /\ c.todo = old.todo \ {t} /\ c.stale = old.stale
        /\ c.looked = old.looked \cup {t} /\ c.fresh = fresh /\ c.bare = old.bare \cup naked
    <3> HIDE DEF e, old, fresh, naked
    <3> QED
      BY <2>1, <2>5 DEF SeedStates
  <2>7. SeedGoes(b, c) /\ t \in old.todo
    <3>1. c = [old EXCEPT
          !.todo = @ \ {t},
          !.looked = @ \cup {t},
          !.fresh = IF RowsOf(t, Global) = {} THEN @ \cup {t} ELSE @,
          !.bare = @ \cup ({t} \X {w \in RowsOf(t, Global) : Bare(prompts[<<t, Global, w>>])})]
      OBVIOUS
    <3> HIDE DEF c
    <3> QED
      BY <1>4, <3>1 DEF SeedLooks
  <2> HIDE DEF c, old, fresh, naked, rows
  <2>8. /\ seed'[b] = c /\ RowsOf(t, Global)' = rows
        /\ UNCHANGED <<docTypes, prompts, wanted, racedPrompts>>
    BY <1>1, <2>7 DEF RowsOf, rows
  <2>9. KeyKept(t, Global) /\ SeedKnows(b)
    BY <1>1 DEF TypesInv, Scopes
  <2>10. \A u \in DocTypes : RowsOf(u, Global)' = RowsOf(u, Global)
    BY <2>8 DEF RowsOf
  <2>11. t \notin fresh /\ <<t, Global>> \notin racedPrompts
         /\ (\A w \in TypeWriters : <<t, w>> \notin old.bare \cup naked) =>
            wanted[<<t, Global>>].kg # NoText
    <3> SUFFICES ASSUME t \notin fresh, <<t, Global>> \notin racedPrompts,
                        \A w \in TypeWriters : <<t, w>> \notin naked
                 PROVE  wanted[<<t, Global>>].kg # NoText
      OBVIOUS
    <3>1. rows # {}
      BY DEF fresh
    <3>2. PICK w \in TypeWriters : rows = {w} /\ prompts[<<t, Global, w>>] = wanted[<<t, Global>>]
      BY <2>9, <3>1 DEF KeyKept, rows
    <3> QED
      BY <2>1, <3>2 DEF Bare
  <2>12. SeedKnows(b)'
    <3>1. fresh \subseteq old.looked \cup {t}
      BY <2>9 DEF SeedKnows, fresh, old
    <3>2. \A u \in DocTypes, w \in TypeWriters :
             <<u, w>> \in old.bare \cup naked =>
                u \in old.looked \cup {t} /\ w \in RowsOf(u, Global)
      BY <2>1, <2>9 DEF SeedKnows, old, rows
    <3>3. \A u \in (old.todo \ {t}) \cup (old.looked \cup {t}) : docTypes[u] # "absent"
      BY <2>7, <2>9 DEF SeedKnows, old
    <3>4. ASSUME NEW u \in old.looked, u # t
          PROVE  /\ u \in fresh <=> u \in old.fresh
                 /\ \A w \in TypeWriters : <<u, w>> \in old.bare \cup naked <=> <<u, w>> \in old.bare
      BY <2>1, <3>4 DEF fresh
    <3>5. t \notin old.stale => /\ t \in fresh <=> rows = {}
                                /\ \A w \in TypeWriters : <<t, w>> \in old.bare \cup naked <=>
                                      w \in rows /\ Bare(prompts[<<t, Global, w>>])
      <4>1. t \in old.looked /\ t \notin old.stale =>
               /\ t \in old.fresh <=> rows = {}
               /\ \A w \in TypeWriters : <<t, w>> \in old.bare <=>
                     w \in rows /\ Bare(prompts[<<t, Global, w>>])
        BY <2>9 DEF SeedKnows, old, rows
      <4>2. t \notin old.looked =>
               t \notin old.fresh /\ \A w \in TypeWriters : <<t, w>> \notin old.bare
        BY <2>9 DEF SeedKnows, old
      <4> QED
        BY <2>1, <4>1, <4>2 DEF fresh
    <3> QED
      BY <2>1, <2>6, <2>8, <2>9, <2>10, <2>11, <3>1, <3>2, <3>3, <3>4, <3>5
         DEF SeedKnows, old, rows
  <2> QED
    BY <2>6, <2>7, <2>12, SeedGoesOn
<1>5. ASSUME SeedFails(b)
      PROVE  TypesInv'
  <2> DEFINE end == [IdleSeed EXCEPT !.at = "over"]
  <2>1. /\ end \in SeedStates /\ end.looked = {} /\ end.todo = {} /\ end.fresh = {}
        /\ end.bare = {}
    BY OverTyped
  <2>2. SeedGoes(b, end)
    BY <1>5 DEF SeedFails
  <2> HIDE DEF end, old
  <2>3. SeedKnows(b)'
    BY <1>1, <2>1, <2>2 DEF SeedKnows
  <2> QED
    BY <2>1, <2>2, <2>3, SeedGoesOn
<1> QED
  BY <1>2, <1>3, <1>4, <1>5

\* A seed fills in what is missing, and leaves what superadmins wrote.
LEMMA SeedFills ==
  ASSUME TypesInv, NEW b \in TypeBoots, SeedCommits(b)
  PROVE  TypesInv'
<1> DEFINE missing == seed[b].missing
           fresh == seed[b].fresh
           looked == seed[b].looked
           bare == seed[b].bare
           new == missing \cup fresh
           written == new \cup {r[1] : r \in bare}
           keys == written \X {Global}
<1>1. /\ seed[b].todo = {}
      /\ \A t \in missing : docTypes[t] = "absent"
      /\ docTypes' = [t \in DocTypes |-> IF t \in missing THEN "active" ELSE docTypes[t]]
      /\ racedPrompts' = racedPrompts \cup ((seed[b].stale \cap written) \X {Global})
      /\ seeded' = seeded \cup missing \cup looked
      /\ OverOthersStale(b, keys)
      /\ UNCHANGED <<typeCache, typedAs>>
  BY DEF SeedCommits
<1>2. /\ missing \subseteq DocTypes /\ fresh \subseteq DocTypes /\ looked \subseteq DocTypes
      /\ bare \subseteq DocTypes \X TypeWriters
      /\ SeedKnows(b) /\ b \in TypeWriters
  BY DEF TypesInv, DocumentTypesTypeOK, SeedStates, TypeWriters
<1>3. /\ docTypes \in [DocTypes -> Activity]
      /\ prompts \in [DocTypes \X Scopes \X TypeWriters -> PromptRows \cup {NoPrompt}]
      /\ wanted \in [DocTypes \X Scopes -> PromptRows \cup {NoPrompt}]
      /\ racedPrompts \subseteq DocTypes \X Scopes /\ seeded \subseteq DocTypes
      /\ Global \in Scopes
      /\ StandardPrompt \in PromptRows
      /\ StandardPrompt # NoPrompt /\ StandardPrompt.kg # NoText
      /\ NoPrompt \notin PromptRows
  BY DocumentTypesAssumption
     DEF TypesInv, DocumentTypesTypeOK, TypeWriters, Scopes, StandardPrompt, PromptRows, NoPrompt
<1>4. ASSUME NEW t \in DocTypes
      PROVE  /\ t \in fresh => t \in looked
             /\ \A w \in TypeWriters :
                   <<t, w>> \in bare => /\ t \in looked
                                        /\ prompts[<<t, Global, w>>] \in PromptRows
             /\ t \in looked => docTypes[t] # "absent" /\ t \notin missing
             /\ t \in written <=> t \in new \/ \E w \in TypeWriters : <<t, w>> \in bare
  <2>1. t \in written <=> t \in new \/ \E w \in TypeWriters : <<t, w>> \in bare
    <3> HIDE DEF new, bare
    <3>1. ASSUME NEW r \in bare, t = r[1]
          PROVE  r[2] \in TypeWriters /\ <<t, r[2]>> \in bare
      BY <1>2, <3>1
    <3>2. ASSUME NEW w \in TypeWriters, <<t, w>> \in bare
          PROVE  \E r \in bare : t = r[1]
      BY <3>2
    <3> QED
      BY <3>1, <3>2
  <2>2. \A w \in TypeWriters : <<t, w>> \in bare => prompts[<<t, Global, w>>] \in PromptRows
    BY <1>2, <1>3 DEF SeedKnows, RowsOf
  <2> QED
    BY <1>1, <1>2, <2>1, <2>2 DEF SeedKnows
<1>5. /\ docTypes' \in [DocTypes -> Activity]
      /\ \A t \in DocTypes : docTypes'[t] = IF t \in missing THEN "active" ELSE docTypes[t]
  BY <1>1, <1>3 DEF Activity
<1>6. /\ \A t \in DocTypes, s \in Scopes, w \in TypeWriters : s # Global \/ t \notin written =>
            prompts'[<<t, s, w>>] = prompts[<<t, s, w>>]
      /\ prompts' \in [DocTypes \X Scopes \X TypeWriters -> PromptRows \cup {NoPrompt}]
      /\ \A t \in DocTypes, w \in TypeWriters :
            /\ t \in new /\ w = b /\ <<t, w>> \notin bare =>
                  prompts'[<<t, Global, w>>] = StandardPrompt
            /\ <<t, w>> \in bare /\ ~(w = b /\ t \in new) =>
                  prompts'[<<t, Global, w>>] = [prompts[<<t, Global, w>>] EXCEPT !.kg = Standard]
            /\ <<t, w>> \notin bare /\ ~(w = b /\ t \in new) =>
                  prompts'[<<t, Global, w>>] = prompts[<<t, Global, w>>]
            /\ prompts[<<t, Global, w>>] # NoPrompt => prompts'[<<t, Global, w>>] # NoPrompt
  <2> DEFINE P == DocTypes \X Scopes \X TypeWriters
             now(k) ==
              CASE k[2] = Global /\ k[3] = b /\ k[1] \in new -> StandardPrompt
                [] k[2] = Global /\ <<k[1], k[3]>> \in bare -> [prompts[k] EXCEPT !.kg = Standard]
                [] OTHER -> prompts[k]
  <2>1. prompts' = [k \in P |-> now(k)]
    BY DEF SeedCommits
  <2>2. ASSUME NEW t \in DocTypes, NEW s \in Scopes, NEW w \in TypeWriters
        PROVE  /\ prompts'[<<t, s, w>>] = now(<<t, s, w>>)
               /\ prompts[<<t, s, w>>] \in PromptRows \cup {NoPrompt}
    <3> HIDE DEF now
    <3> QED
      BY <1>3, <2>1
  <2>3. ASSUME NEW row \in PromptRows
        PROVE  [row EXCEPT !.kg = Standard] \in PromptRows
    BY DEF PromptRows
  <2>4. ASSUME NEW t \in DocTypes, NEW s \in Scopes, NEW w \in TypeWriters
        PROVE  /\ s # Global \/ t \notin written => now(<<t, s, w>>) = prompts[<<t, s, w>>]
               /\ t \in new /\ w = b /\ s = Global /\ <<t, w>> \notin bare =>
                     now(<<t, s, w>>) = StandardPrompt
               /\ <<t, w>> \in bare /\ s = Global /\ ~(w = b /\ t \in new) =>
                     now(<<t, s, w>>) = [prompts[<<t, s, w>>] EXCEPT !.kg = Standard]
               /\ <<t, w>> \notin bare /\ ~(w = b /\ t \in new) =>
                     now(<<t, s, w>>) = prompts[<<t, s, w>>]
               /\ now(<<t, s, w>>) \in PromptRows \/ now(<<t, s, w>>) = prompts[<<t, s, w>>]
    <3>1. t \notin written => t \notin new /\ <<t, w>> \notin bare
      BY <1>4
    <3>2. <<t, w>> \in bare /\ s = Global =>
             [prompts[<<t, s, w>>] EXCEPT !.kg = Standard] \in PromptRows
      BY <1>4, <2>3
    <3> HIDE DEF new, bare, written
    <3> QED
      BY <1>3, <3>1, <3>2
  <2> HIDE DEF now
  <2>5. ASSUME NEW k \in P
        PROVE  now(k) \in PromptRows \cup {NoPrompt}
    <3>1. PICK t \in DocTypes, s \in Scopes, w \in TypeWriters : k = <<t, s, w>>
      OBVIOUS
    <3>2. now(<<t, s, w>>) \in PromptRows \/ now(<<t, s, w>>) = prompts[<<t, s, w>>]
      BY <2>4
    <3>3. prompts[<<t, s, w>>] \in PromptRows \cup {NoPrompt}
      BY <2>2
    <3> QED
      BY <3>1, <3>2, <3>3
  <2>6. prompts' \in [P -> PromptRows \cup {NoPrompt}]
    BY <2>1, <2>5
  <2> HIDE DEF P
  <2>7. \A t \in DocTypes, s \in Scopes, w \in TypeWriters : s # Global \/ t \notin written =>
            prompts'[<<t, s, w>>] = prompts[<<t, s, w>>]
    <3> TAKE t \in DocTypes, s \in Scopes, w \in TypeWriters
    <3>1. prompts'[<<t, s, w>>] = now(<<t, s, w>>)
      BY <2>2
    <3>2. s # Global \/ t \notin written => now(<<t, s, w>>) = prompts[<<t, s, w>>]
      BY <2>4
    <3> QED
      BY <3>1, <3>2
  <2>8. ASSUME NEW t \in DocTypes, NEW w \in TypeWriters
        PROVE  /\ t \in new /\ w = b /\ <<t, w>> \notin bare =>
                     prompts'[<<t, Global, w>>] = StandardPrompt
               /\ <<t, w>> \in bare /\ ~(w = b /\ t \in new) =>
                     prompts'[<<t, Global, w>>] = [prompts[<<t, Global, w>>] EXCEPT !.kg = Standard]
               /\ <<t, w>> \notin bare /\ ~(w = b /\ t \in new) =>
                     prompts'[<<t, Global, w>>] = prompts[<<t, Global, w>>]
               /\ prompts[<<t, Global, w>>] # NoPrompt => prompts'[<<t, Global, w>>] # NoPrompt
    <3> HIDE DEF new, bare, written
    <3> QED
      BY <1>3, <2>2, <2>4
  <2> QED
    BY <2>6, <2>7, <2>8 DEF P
<1>7. /\ wanted' \in [DocTypes \X Scopes -> PromptRows \cup {NoPrompt}]
      /\ \A t \in DocTypes, s \in Scopes :
            s # Global \/ t \notin missing \cup looked => wanted'[<<t, s>>] = wanted[<<t, s>>]
      /\ \A t \in missing \cup looked :
            wanted'[<<t, Global>>] =
               IF wanted[<<t, Global>>] = NoPrompt THEN StandardPrompt
               ELSE IF wanted[<<t, Global>>].kg = NoText
               THEN [wanted[<<t, Global>>] EXCEPT !.kg = Standard]
               ELSE wanted[<<t, Global>>]
      /\ \A t \in missing \cup looked : wanted'[<<t, Global>>].kg # NoText
  <2> DEFINE alone(k) ==
              IF k[2] # Global \/ k[1] \notin missing \cup looked THEN wanted[k]
              ELSE IF wanted[k] = NoPrompt THEN StandardPrompt
              ELSE IF wanted[k].kg = NoText THEN [wanted[k] EXCEPT !.kg = Standard]
              ELSE wanted[k]
  <2>1. wanted' = [k \in DocTypes \X Scopes |-> alone(k)]
    BY DEF SeedCommits
  <2>2. ASSUME NEW t \in DocTypes, NEW s \in Scopes
        PROVE  /\ wanted'[<<t, s>>] = alone(<<t, s>>)
               /\ wanted[<<t, s>>] \in PromptRows \cup {NoPrompt}
    <3> HIDE DEF alone
    <3> QED
      BY <1>3, <2>1
  <2>3. ASSUME NEW row \in PromptRows
        PROVE  /\ [row EXCEPT !.kg = Standard] \in PromptRows
               /\ [row EXCEPT !.kg = Standard].kg # NoText
    BY DocumentTypesAssumption DEF PromptRows
  <2>4. ASSUME NEW t \in DocTypes, NEW s \in Scopes
        PROVE  /\ s # Global \/ t \notin missing \cup looked => alone(<<t, s>>) = wanted[<<t, s>>]
               /\ s = Global /\ t \in missing \cup looked =>
                    /\ alone(<<t, s>>) =
                         IF wanted[<<t, s>>] = NoPrompt THEN StandardPrompt
                         ELSE IF wanted[<<t, s>>].kg = NoText
                         THEN [wanted[<<t, s>>] EXCEPT !.kg = Standard]
                         ELSE wanted[<<t, s>>]
                    /\ alone(<<t, s>>).kg # NoText
               /\ alone(<<t, s>>) \in PromptRows \cup {NoPrompt}
    <3>1. wanted[<<t, s>>] # NoPrompt =>
             /\ [wanted[<<t, s>>] EXCEPT !.kg = Standard] \in PromptRows
             /\ [wanted[<<t, s>>] EXCEPT !.kg = Standard].kg # NoText
      BY <2>2, <2>3
    <3>2. wanted[<<t, s>>] \in PromptRows \cup {NoPrompt}
      BY <2>2
    <3>3. CASE s # Global \/ t \notin missing \cup looked
      BY <3>2, <3>3
    <3>4. CASE s = Global /\ t \in missing \cup looked
      <4> HIDE DEF missing, looked
      <4> QED
        BY <1>3, <3>1, <3>2, <3>4
    <3> QED
      BY <3>3, <3>4
  <2> HIDE DEF alone
  <2>5. ASSUME NEW k \in DocTypes \X Scopes
        PROVE  alone(k) \in PromptRows \cup {NoPrompt}
    <3>1. PICK t \in DocTypes, s \in Scopes : k = <<t, s>>
      OBVIOUS
    <3>2. alone(<<t, s>>) \in PromptRows \cup {NoPrompt}
      BY <2>4
    <3> QED
      BY <3>1, <3>2
  <2>6. wanted' \in [DocTypes \X Scopes -> PromptRows \cup {NoPrompt}]
    BY <2>1, <2>5
  <2>7. ASSUME NEW t \in DocTypes, NEW s \in Scopes
        PROVE  wanted'[<<t, s>>] = alone(<<t, s>>)
    BY <2>2
  <2>8. \A t \in DocTypes, s \in Scopes :
           s # Global \/ t \notin missing \cup looked => wanted'[<<t, s>>] = wanted[<<t, s>>]
    BY <2>4, <2>7
  <2>9. ASSUME NEW t \in missing \cup looked
        PROVE  /\ wanted'[<<t, Global>>] =
                    IF wanted[<<t, Global>>] = NoPrompt THEN StandardPrompt
                    ELSE IF wanted[<<t, Global>>].kg = NoText
                    THEN [wanted[<<t, Global>>] EXCEPT !.kg = Standard]
                    ELSE wanted[<<t, Global>>]
               /\ wanted'[<<t, Global>>].kg # NoText
    <3>1. t \in DocTypes /\ Global \in Scopes
      BY <1>2, <1>3
    <3> HIDE DEF missing, looked
    <3> QED
      BY <2>4, <2>7, <3>1
  <2> QED
    BY <2>6, <2>8, <2>9
<1>8. racedPrompts' \subseteq DocTypes \X Scopes /\ racedPrompts \subseteq racedPrompts'
      /\ seeded' \subseteq DocTypes
      /\ \A t \in DocTypes : t \in written /\ <<t, Global>> \notin racedPrompts' => t \notin seed[b].stale
  <2>1. written \subseteq DocTypes
    BY <1>2
  <2> HIDE DEF written
  <2> QED
    BY <1>1, <1>2, <1>3, <2>1
<1>9. DocumentTypesTypeOK'
  BY <1>1, <1>2, <1>5, <1>6, <1>7, <1>8, OthersStale DEF TypesInv, DocumentTypesTypeOK
<1>10. /\ \A p \in TypeRequests : WorkKnows(p)'
       /\ \A c \in TypeBoots : SeedKnows(c)'
  <2>1. \A t \in DocTypes, s \in Scopes : <<t, s>> \notin keys =>
           \A v \in TypeWriters : prompts'[<<t, s, v>>] = prompts[<<t, s, v>>]
    BY <1>6
  <2>2. \A t \in DocTypes : wanted[<<t, Global>>].kg # NoText => wanted'[<<t, Global>>].kg # NoText
    BY <1>3, <1>7
  <2>3. \A t \in DocTypes : docTypes[t] # "absent" => docTypes'[t] # "absent"
    BY <1>5
  <2>4. \A t \in DocTypes, v \in TypeWriters :
           prompts[<<t, Global, v>>] # NoPrompt => prompts'[<<t, Global, v>>] # NoPrompt
    BY <1>6
  <2> HIDE DEF keys
  <2> QED
    BY <1>1, <1>2, <1>8, <2>1, <2>2, <2>3, <2>4, CommitKeepsKnown
<1>11. ASSUME NEW t \in DocTypes, NEW s \in Scopes
       PROVE  KeyKept(t, s)'
  <2>1. KeyKept(t, s) /\ TypeKept(t)
    BY DEF TypesInv
  <2>2. CASE s # Global \/ (t \notin written /\ t \notin looked)
    <3>1. t \notin written /\ t \notin looked => t \notin missing
      OBVIOUS
    <3>2. wanted'[<<t, s>>] = wanted[<<t, s>>]
      BY <1>7, <2>2, <3>1
    <3>3. \A w \in TypeWriters : prompts'[<<t, s, w>>] = prompts[<<t, s, w>>]
      BY <1>6, <2>2
    <3>4. RowsOf(t, s)' = RowsOf(t, s)
      BY <3>3 DEF RowsOf
    <3> QED
      BY <1>8, <2>1, <3>2, <3>3, <3>4 DEF KeyKept
  <2>3. CASE s = Global /\ t \in new
    <3> SUFFICES ASSUME <<t, Global>> \notin racedPrompts'
                 PROVE  /\ RowsOf(t, Global)' = {b}
                        /\ prompts'[<<t, Global, b>>] = StandardPrompt
                        /\ wanted'[<<t, Global>>] = StandardPrompt
      BY <1>2, <1>3, <2>3 DEF KeyKept
    <3>1. t \notin seed[b].stale /\ <<t, Global>> \notin racedPrompts
      BY <1>8, <2>3
    <3>2. RowsOf(t, Global) = {} /\ wanted[<<t, Global>>] = NoPrompt
      <4>1. CASE t \in missing
        BY <1>1, <1>3, <2>1, <4>1 DEF TypeKept
      <4>2. CASE t \in fresh
        <5>1. RowsOf(t, Global) = {}
          BY <1>2, <1>4, <3>1, <4>2 DEF SeedKnows
        <5> QED
          BY <2>1, <2>3, <3>1, <5>1 DEF KeyKept
      <4> QED
        BY <2>3, <4>1, <4>2
    <3>3. \A w \in TypeWriters : prompts[<<t, Global, w>>] = NoPrompt /\ <<t, w>> \notin bare
      BY <1>3, <1>4, <3>2 DEF RowsOf
    <3>4. /\ prompts'[<<t, Global, b>>] = StandardPrompt
          /\ \A w \in TypeWriters \ {b} : prompts'[<<t, Global, w>>] = NoPrompt
      BY <1>2, <1>6, <2>3, <3>3
    <3>5. RowsOf(t, Global)' = {b}
      BY <1>2, <1>3, <3>4 DEF RowsOf
    <3>6. t \in missing \cup looked
      BY <1>4, <2>3
    <3>7. wanted'[<<t, Global>>] = StandardPrompt
      BY <1>7, <3>2, <3>6
    <3> QED
      BY <3>4, <3>5, <3>7
  <2>4. CASE s = Global /\ t \notin new /\ t \in looked
    <3>1. t \in written <=> \E w \in TypeWriters : <<t, w>> \in bare
      BY <1>4, <2>4
    <3> SUFFICES ASSUME <<t, Global>> \notin racedPrompts'
                 PROVE  KeyKept(t, Global)'
      BY <2>4 DEF KeyKept
    <3>2. <<t, Global>> \notin racedPrompts
      BY <1>8
    <3>3. CASE \A w \in TypeWriters : <<t, w>> \notin bare
      <4>1. wanted[<<t, Global>>].kg # NoText /\ wanted[<<t, Global>>] # NoPrompt
        BY <1>2, <2>4, <3>2, <3>3 DEF SeedKnows, NoPrompt
      <4>2. wanted'[<<t, Global>>] = wanted[<<t, Global>>]
        BY <1>7, <2>4, <4>1
      <4>3. \A w \in TypeWriters : prompts'[<<t, Global, w>>] = prompts[<<t, Global, w>>]
        BY <1>3, <1>6, <2>4, <3>1, <3>3
      <4>4. RowsOf(t, Global)' = RowsOf(t, Global)
        BY <4>3 DEF RowsOf
      <4> QED
        BY <2>1, <2>4, <3>2, <4>2, <4>3, <4>4 DEF KeyKept
    <3>4. CASE \E w \in TypeWriters : <<t, w>> \in bare
      <4>1. t \notin seed[b].stale
        BY <1>8, <3>1, <3>4
      <4>2. PICK w \in TypeWriters : <<t, w>> \in bare
        BY <3>4
      <4>3. w \in RowsOf(t, Global) /\ prompts[<<t, Global, w>>].kg = NoText
        BY <1>2, <2>4, <4>1, <4>2 DEF SeedKnows, Bare
      <4>4. RowsOf(t, Global) = {w} /\ prompts[<<t, Global, w>>] = wanted[<<t, Global>>]
        BY <2>1, <2>4, <3>2, <4>3 DEF KeyKept
      <4>5. /\ \A v \in TypeWriters \ {w} : prompts[<<t, Global, v>>] = NoPrompt /\ <<t, v>> \notin bare
            /\ prompts[<<t, Global, w>>] # NoPrompt
        BY <1>3, <1>4, <4>4 DEF RowsOf
      <4> DEFINE filled == [wanted[<<t, Global>>] EXCEPT !.kg = Standard]
      <4>6. /\ prompts'[<<t, Global, w>>] = filled
            /\ prompts'[<<t, Global, w>>] # NoPrompt
            /\ \A v \in TypeWriters \ {w} : prompts'[<<t, Global, v>>] = NoPrompt
        <5>1. /\ prompts'[<<t, Global, w>>] = [prompts[<<t, Global, w>>] EXCEPT !.kg = Standard]
              /\ prompts'[<<t, Global, w>>] # NoPrompt
          BY <1>6, <2>4, <4>2, <4>5
        <5>2. ASSUME NEW v \in TypeWriters \ {w}
              PROVE  prompts'[<<t, Global, v>>] = prompts[<<t, Global, v>>]
          BY <1>6, <2>4, <4>5
        <5> QED
          BY <4>4, <4>5, <5>1, <5>2
      <4>7. wanted'[<<t, Global>>] = filled
        BY <1>7, <2>4, <4>3, <4>4, <4>5
      <4>8. RowsOf(t, Global)' = {w}
        BY <4>6 DEF RowsOf
      <4> QED
        BY <4>6, <4>7, <4>8 DEF KeyKept
    <3> QED
      BY <3>3, <3>4
  <2>5. t \in written => t \in new \/ t \in looked
    BY <1>4
  <2> QED
    BY <2>2, <2>3, <2>4, <2>5
<1>12. ASSUME NEW t \in DocTypes
       PROVE  TypeKept(t)'
  <2>1. TypeKept(t)
    BY DEF TypesInv
  <2>2. ASSUME docTypes'[t] = "absent"
        PROVE  t \notin seeded' /\ \A s \in Scopes : RowsOf(t, s)' = {} /\ wanted'[<<t, s>>] = NoPrompt
    <3>1. t \notin missing /\ t \notin looked /\ docTypes[t] = "absent"
      BY <1>4, <1>5, <2>2
    <3>2. t \notin written
      BY <1>4, <3>1
    <3>3. \A s \in Scopes : RowsOf(t, s)' = RowsOf(t, s) /\ wanted'[<<t, s>>] = wanted[<<t, s>>]
      BY <1>6, <1>7, <3>1, <3>2 DEF RowsOf
    <3> QED
      BY <1>1, <2>1, <3>1, <3>3 DEF TypeKept
  <2>3. t \in seeded' /\ <<t, Global>> \notin racedPrompts' => wanted'[<<t, Global>>].kg # NoText
    <3>1. CASE t \in missing \cup looked
      BY <1>7, <3>1
    <3>2. CASE t \notin missing \cup looked
      BY <1>1, <1>3, <1>7, <1>8, <2>1, <3>2 DEF TypeKept
    <3> QED
      BY <3>1, <3>2
  <2> QED
    BY <2>2, <2>3 DEF TypeKept
<1>13. \A d \in TypedDocuments : typedAs'[d] # NoType => docTypes'[typedAs'[d]] # "absent"
  BY <1>1, <1>5 DEF TypesInv, DocumentTypesTypeOK
<1> QED
  BY <1>9, <1>10, <1>11, <1>12, <1>13 DEF TypesInv

\* The invariant is about the rows, and about what is under way.
LEMMA TypesStay ==
  ASSUME TypesInv, DocumentTypesTypeOK',
         UNCHANGED <<docTypes, prompts, typeWork, seed, wanted, racedPrompts, seeded>>,
         \A d \in TypedDocuments : typedAs'[d] # NoType => docTypes'[typedAs'[d]] # "absent"
  PROVE  TypesInv'
<1>1. \A t, s : RowsOf(t, s)' = RowsOf(t, s)
  BY DEF RowsOf
<1>2. \A t \in DocTypes : TypeKept(t)' /\ \A s \in Scopes : KeyKept(t, s)'
  BY <1>1 DEF TypesInv, TypeKept, KeyKept
<1>3. \A q \in TypeRequests : WorkKnows(q)'
  BY <1>1 DEF TypesInv, WorkKnows, Knows
<1>4. \A b \in TypeBoots : SeedKnows(b)'
  BY <1>1 DEF TypesInv, SeedKnows, Bare
<1> QED
  BY <1>2, <1>3, <1>4 DEF TypesInv

\* Every step keeps the invariant.
LEMMA TypesStep ==
  ASSUME TypesInv, [DocumentTypesNext]_typeVars
  PROVE  TypesInv'
<1>1. ASSUME NEW p \in TypeProcesses, LoadTypes(p)
      PROVE  TypesInv'
  <2>1. UNCHANGED <<docTypes, prompts, typeWork, seed, typedAs, wanted, racedPrompts, seeded>>
    BY <1>1 DEF LoadTypes
  <2>2. typeCache' \in [TypeProcesses -> SUBSET DocTypes]
    <3>1. PICK offered \in {{t \in DocTypes : docTypes[t] = "active"}, DefaultTypes} :
             typeCache' = [typeCache EXCEPT ![p] = offered]
      BY <1>1 DEF LoadTypes
    <3>2. offered \subseteq DocTypes
      BY DocumentTypesAssumption
    <3> QED
      BY <3>1, <3>2 DEF TypesInv, DocumentTypesTypeOK
  <2>3. DocumentTypesTypeOK'
    BY <2>1, <2>2 DEF TypesInv, DocumentTypesTypeOK
  <2> QED
    BY <2>1, <2>3, TypesStay DEF TypesInv
<1>2. ASSUME NEW p \in TypeProcesses, NEW d \in TypedDocuments, NEW t \in DocTypes,
             ClassifyAs(p, d, t)
      PROVE  TypesInv'
  <2>1. /\ docTypes[t] = "active" /\ typedAs' = [typedAs EXCEPT ![d] = t]
        /\ UNCHANGED <<docTypes, prompts, typeWork, seed, typeCache, wanted, racedPrompts, seeded>>
    BY <1>2 DEF ClassifyAs
  <2>2. DocumentTypesTypeOK'
    BY <2>1 DEF TypesInv, DocumentTypesTypeOK
  <2>3. \A e \in TypedDocuments : typedAs'[e] # NoType => docTypes'[typedAs'[e]] # "absent"
    BY <2>1 DEF TypesInv, DocumentTypesTypeOK
  <2> QED
    BY <2>1, <2>2, <2>3, TypesStay
<1>3. ASSUME UNCHANGED typeVars
      PROVE  TypesInv'
  <2>1. DocumentTypesTypeOK'
    BY <1>3 DEF TypesInv, DocumentTypesTypeOK, typeVars
  <2> QED
    BY <1>3, <2>1, TypesStay DEF TypesInv, typeVars
<1>4. ASSUME NEW text \in PromptTexts, NEW kg \in PromptTexts \cup {NoText}
      PROVE  [text |-> text, kg |-> kg] \in PromptRows
  BY DEF PromptRows
<1> QED
  BY <1>1, <1>2, <1>3, <1>4, RequestReads, RequestCommits, CreateKeeps, SeedsGoOn, SeedFills
     DEF DocumentTypesNext

\* The invariant holds at the start.
LEMMA TypesBegin ==
  ASSUME DocumentTypesInit
  PROVE  TypesInv
<1> DEFINE old == [text |-> Standard, kg |-> NoText]
<1>1. /\ docTypes \in [DocTypes -> {"absent", "active"}]
      /\ wanted \in [DocTypes \X Scopes -> {NoPrompt, old}]
      /\ \A t \in DocTypes, s \in Scopes :
            wanted[<<t, s>>] # NoPrompt => s = Global /\ docTypes[t] # "absent"
      /\ prompts = [k \in DocTypes \X Scopes \X TypeWriters |->
                       IF k[3] = Earlier THEN wanted[<<k[1], k[2]>>] ELSE NoPrompt]
      /\ typeWork = [q \in TypeRequests |-> IdleRequest]
      /\ seed = [b \in TypeBoots |-> IdleSeed]
      /\ typeCache = [p \in TypeProcesses |-> {}]
      /\ typedAs = [d \in TypedDocuments |-> NoType]
      /\ racedPrompts = {} /\ seeded = {}
  BY DEF DocumentTypesInit
<1>2. old \in PromptRows
  BY DEF PromptRows
<1> HIDE DEF old
<1>3. \A t \in DocTypes, s \in Scopes, w \in TypeWriters :
         prompts[<<t, s, w>>] = IF w = Earlier THEN wanted[<<t, s>>] ELSE NoPrompt
  BY <1>1
<1>4. prompts \in [DocTypes \X Scopes \X TypeWriters -> PromptRows \cup {NoPrompt}]
  BY <1>1, <1>2
<1>5. DocumentTypesTypeOK
  BY <1>1, <1>2, <1>4, IdleTyped DEF DocumentTypesTypeOK, Activity
<1>6. ASSUME NEW t \in DocTypes, NEW s \in Scopes
      PROVE  KeyKept(t, s)
  <2>1. RowsOf(t, s) = IF wanted[<<t, s>>] = NoPrompt THEN {} ELSE {Earlier}
    BY <1>3 DEF RowsOf, TypeWriters
  <2> QED
    BY <1>3, <2>1 DEF KeyKept, TypeWriters
<1>7. ASSUME NEW t \in DocTypes
      PROVE  TypeKept(t)
  BY <1>1, <1>6 DEF TypeKept, KeyKept
<1>8. \A q \in TypeRequests : WorkKnows(q)
  BY <1>1 DEF WorkKnows, Knows, IdleRequest
<1>9. \A b \in TypeBoots : SeedKnows(b)
  BY <1>1 DEF SeedKnows, IdleSeed
<1> QED
  BY <1>1, <1>5, <1>6, <1>7, <1>8, <1>9 DEF TypesInv

\* What chats and extraction get, where no prompt was raced for.
LEMMA WhatReadersGet ==
  ASSUME TypesInv
  PROVE  PromptsAreAsWritten
<1>1. ASSUME NEW t \in DocTypes, NEW s \in Scopes, <<t, s>> \notin racedPrompts
      PROVE  /\ RowsOf(t, s) = {} <=> wanted[<<t, s>>] = NoPrompt
             /\ RowsOf(t, s) # {} => prompts[<<t, s, RowRead(t, s)>>] = wanted[<<t, s>>]
             /\ OneOrNone(t, s)
  <2>1. KeyKept(t, s) /\ wanted[<<t, s>>] \in PromptRows \cup {NoPrompt}
    BY DEF TypesInv, DocumentTypesTypeOK
  <2>2. CASE wanted[<<t, s>>] = NoPrompt
    BY <1>1, <2>1, <2>2 DEF KeyKept, OneOrNone
  <2>3. CASE wanted[<<t, s>>] # NoPrompt
    <3>1. PICK w \in TypeWriters : RowsOf(t, s) = {w} /\ prompts[<<t, s, w>>] = wanted[<<t, s>>]
      BY <1>1, <2>1, <2>3 DEF KeyKept
    <3>2. RowRead(t, s) = w
      BY <3>1, RowReadIsRow
    <3> QED
      BY <2>3, <3>1, <3>2 DEF OneOrNone
  <2> QED
    BY <2>2, <2>3
<1>2. /\ NoPrompt.text = NoText /\ NoPrompt.kg = NoText /\ Global \in Scopes /\ TypeSpaces \subseteq Scopes
  BY DEF NoPrompt, Scopes
<1>3. ASSUME NEW t \in DocTypes, NEW s \in TypeSpaces,
             <<t, s>> \notin racedPrompts, <<t, Global>> \notin racedPrompts
      PROVE  ChatPrompt(t, s) = IF wanted[<<t, s>>] # NoPrompt THEN wanted[<<t, s>>].text
                                ELSE wanted[<<t, Global>>].text
  BY <1>1, <1>2, <1>3 DEF ChatPrompt
<1>4. ASSUME NEW t \in DocTypes, <<t, Global>> \notin racedPrompts
      PROVE  /\ KgPrompt(t) = wanted[<<t, Global>>].kg
             /\ t \in seeded => KgPrompt(t) # NoText
  <2>1. KgPrompt(t) = wanted[<<t, Global>>].kg
    BY <1>1, <1>2, <1>4 DEF KgPrompt
  <2> QED
    BY <1>4, <2>1 DEF TypesInv, TypeKept
<1> QED
  BY <1>3, <1>4 DEF TypesInv, PromptsAreAsWritten

\* What superadmins and starting processes write of the prompts of document
\* types is what chats and extraction get, a start fills in what is missing and
\* replaces nothing, and a document is only given a type that exists, for any
\* numbers of types, workspaces, requests and processes.
THEOREM PromptsAreKept ==
  DocumentTypesSpec => [](DocumentTypesTypeOK /\ PromptsAreAsWritten)
<1>1. TypesInv => DocumentTypesTypeOK /\ PromptsAreAsWritten
  BY WhatReadersGet DEF TypesInv
<1> QED
  BY <1>1, TypesBegin, TypesStep, PTL DEF DocumentTypesSpec

-----------------------------------------------------------------------------
(* Accounts.                                                               *)

\* What a request may do, from what it read.
Rightful(call, known) ==
    /\ call.topic = CASE call.at \in {"setup", "enable", "disable"} -> "twofa"
                      [] call.at \in {"update", "delete", "reset"} -> "admin"
                      [] call.at = "prefs" -> "prefs"
                      [] call.at = "default" -> "default"
                      [] OTHER -> "none"
    /\ call.at \in {"setup", "enable"} => ~call.saw.twofa
    /\ call.at = "enable" => call.saw.secret # NoSecret /\ call.saw.secret \in known
    /\ call.topic = "admin" =>
          /\ call.saw.super => call.user = call.actor
          /\ call.user \in FirstSuperadmins => call.saw.super
          /\ call.at = "update" /\ call.user = call.actor => call.super
          /\ call.at = "delete" => call.user # call.actor
    /\ call.at = "default" =>
          /\ call.item \in Homes
          /\ HomeOwner[call.item] = call.user
          /\ \A g \in call.others : HomeOwner[g] = call.user
    /\ call.at \in {"suggest", "edit"} => call.item \in Abbreviations

\* What a request read is so still, unless another wrote it.
Current(call, rows, firsts) ==
    LET row == rows[call.user]
    IN  /\ call.topic = "twofa" => call.saw.twofa = row.twofa /\ call.saw.secret = row.secret
        /\ call.topic = "admin" => call.saw.super = row.super
        /\ call.topic = "prefs" => call.saw.prefs = row.prefs
        /\ call.topic = "default" /\ row.there =>
              call.others = {g \in firsts : HomeOwner[g] = call.user}

CallsKnow ==
    \A q \in AccountRequests :
       /\ Rightful(calls[q], proven)
       /\ ~calls[q].stale => Current(calls[q], accounts, defaults)

UserKept(u) ==
    LET row == accounts[u]
    IN  /\ <<u, "twofa">> \notin clashed /\ row.twofa =>
              row.secret # NoSecret /\ row.secret \in proven
        /\ u \in promoted /\ <<u, "admin">> \notin clashed => row.there /\ row.super
        /\ u \in FirstSuperadmins =>
              /\ row.there /\ row.super /\ row.password = "own"
              /\ row.active \/ u \in steppedDown
        /\ <<u, "prefs">> \notin clashed => row.prefs = stored[u]
        /\ <<u, "default">> \notin clashed =>
              \A g, h \in defaults : HomeOwner[g] = u /\ HomeOwner[h] = u => g = h

UsersKept == \A u \in AccountUsers : UserKept(u)

ShortFormsKept ==
    \A a \in Abbreviations : shortForms[a].at = "there" =>
       /\ shortForms[a].active => a \in activated
       /\ accounts[shortForms[a].user].there

AccountsInv == AccountsTypeOK /\ CallsKnow /\ UsersKept /\ ShortFormsKept

CallPoints == {"idle", "setup", "enable", "disable", "prefs", "update", "delete", "reset",
               "default", "suggest", "edit", "over"}

\* The call at rest is typed.
LEMMA IdleCallTyped == IdleCall \in CallStates
<1>1. AnyUser \in AccountUsers
  BY AccountsAssumption DEF AnyUser
<1>2. FreshAccount(AnyUser) \in AccountRows
  BY DEF FreshAccount, AccountRows
<1> QED
  BY <1>1, <1>2 DEF IdleCall, CallStates

\* A call that is over knows nothing and may do nothing.
LEMMA OverCall ==
  /\ [IdleCall EXCEPT !.at = "over"] \in CallStates
  /\ [IdleCall EXCEPT !.at = "over"].at = "over"
  /\ [IdleCall EXCEPT !.at = "over"].topic = "none"
<1>1. IdleCall.topic = "none"
  BY DEF IdleCall
<1> QED
  BY <1>1, IdleCallTyped DEF CallStates

\* What a call holds that was just made.
Made(call, at, topic, actor, user) ==
    /\ call \in CallStates
    /\ call.at = at /\ call.topic = topic
    /\ call.actor = actor /\ call.user = user
    /\ call.saw = accounts[user]
    /\ call.stale = FALSE

\* Calls are made so.
LEMMA CallMade ==
  ASSUME AccountsTypeOK, NEW q \in AccountRequests, NEW at \in CallPoints,
         NEW topic \in Topics \cup {"none"}, NEW actor \in AccountUsers,
         NEW user \in AccountUsers
  PROVE  Made(Calls(q, at, topic, actor, user), at, topic, actor, user)
<1> DEFINE c1 == [IdleCall EXCEPT !.at = at]
           c2 == [c1 EXCEPT !.topic = topic]
           c3 == [c2 EXCEPT !.actor = actor]
           c4 == [c3 EXCEPT !.user = user]
           c5 == [c4 EXCEPT !.saw = accounts[user]]
           c6 == [c5 EXCEPT !.vouch = accounts[actor].super]
<1>1. c1 \in CallStates /\ c1.at = at /\ c1.stale = FALSE
  <2>1. IdleCall.stale = FALSE
    BY DEF IdleCall
  <2> QED
    BY <2>1, IdleCallTyped DEF CallStates, CallPoints
<1>2. /\ c2 \in CallStates
      /\ c2.at = at /\ c2.topic = topic /\ c2.stale = FALSE
  <2> HIDE DEF c1
  <2> QED
    BY <1>1 DEF CallStates
<1>3. /\ c3 \in CallStates
      /\ c3.at = at /\ c3.topic = topic /\ c3.actor = actor /\ c3.stale = FALSE
  <2> HIDE DEF c2
  <2> QED
    BY <1>2 DEF CallStates
<1>4. /\ c4 \in CallStates
      /\ c4.at = at /\ c4.topic = topic /\ c4.actor = actor /\ c4.user = user
      /\ c4.stale = FALSE
  <2> HIDE DEF c3
  <2> QED
    BY <1>3 DEF CallStates
<1>5. /\ c5 \in CallStates
      /\ c5.at = at /\ c5.topic = topic /\ c5.actor = actor /\ c5.user = user
      /\ c5.saw = accounts[user] /\ c5.stale = FALSE
  <2>1. accounts[user] \in AccountRows
    BY DEF AccountsTypeOK
  <2> HIDE DEF c4
  <2> QED
    BY <1>4, <2>1 DEF CallStates
<1>6. /\ c6 \in CallStates
      /\ c6.at = at /\ c6.topic = topic /\ c6.actor = actor /\ c6.user = user
      /\ c6.saw = accounts[user] /\ c6.stale = FALSE
  <2>1. accounts[actor].super \in BOOLEAN
    BY DEF AccountsTypeOK, AccountRows
  <2> HIDE DEF c5
  <2> QED
    BY <1>5, <2>1 DEF CallStates
<1>7. Calls(q, at, topic, actor, user) = c6
  BY DEF Calls
<1> HIDE DEF c6
<1> QED
  BY <1>6, <1>7 DEF Made

\* The points and the topics there are.
LEMMA PointsAndTopics ==
  /\ "setup" \in CallPoints /\ "enable" \in CallPoints /\ "disable" \in CallPoints
  /\ "prefs" \in CallPoints /\ "update" \in CallPoints /\ "delete" \in CallPoints
  /\ "reset" \in CallPoints /\ "default" \in CallPoints /\ "suggest" \in CallPoints
  /\ "edit" \in CallPoints
  /\ "twofa" \in Topics \cup {"none"} /\ "admin" \in Topics \cup {"none"}
  /\ "prefs" \in Topics \cup {"none"} /\ "default" \in Topics \cup {"none"}
  /\ "none" \in Topics \cup {"none"}
BY DEF CallPoints, Topics

\* What a request does that has just read.
Begins(q, call) ==
    /\ Called(q, call)
    /\ proven \subseteq proven' /\ proven' \subseteq AccountRequests
    /\ Rightful(call, proven') /\ Current(call, accounts', defaults')

\* Calls know what they read.
LEMMA ReadsBegin ==
  ASSUME AccountsTypeOK, UsersKept, NEW q \in AccountRequests, NEW u \in AccountUsers
  PROVE  /\ SetupReads(q, u) \/ EnableReads(q, u) \/ DisableReads(q, u) \/ PrefsRead(q, u) =>
              \E call \in CallStates : Begins(q, call)
         /\ \A v \in AccountUsers :
              (\/ \E active, super \in BOOLEAN : UpdateReads(q, u, v, active, super)
               \/ DeleteReads(q, u, v)
               \/ ResetReads(q, u, v)) => \E call \in CallStates : Begins(q, call)
         /\ \A a \in Abbreviations :
              (\/ SuggestReads(q, u, a)
               \/ \E active \in BOOLEAN : EditReads(q, u, a, active)) =>
                  \E call \in CallStates : Begins(q, call)
         /\ \A h \in Homes : DefaultReads(q, h) => \E call \in CallStates : Begins(q, call)
<1>1. ASSUME NEW at \in {"setup", "enable", "disable", "prefs"},
             NEW topic \in {"twofa", "prefs"},
             topic = IF at = "prefs" THEN "prefs" ELSE "twofa",
             at \in {"setup", "enable"} => ~accounts[u].twofa,
             at = "enable" => accounts[u].secret # NoSecret /\ accounts[u].secret \in proven',
             proven \subseteq proven', proven' \subseteq AccountRequests,
             Called(q, Calls(q, at, topic, u, u))
      PROVE  \E c \in CallStates : Begins(q, c)
  <2> DEFINE c == Calls(q, at, topic, u, u)
  <2>1. /\ c \in CallStates /\ c.at = at /\ c.topic = topic /\ c.actor = u /\ c.user = u
        /\ c.saw = accounts[u] /\ c.stale = FALSE
    <3>1. Made(c, at, topic, u, u)
      BY PointsAndTopics, CallMade
    <3> QED
      BY <3>1 DEF Made
  <2>2. accounts' = accounts /\ defaults' = defaults
    BY <1>1 DEF Called
  <2> HIDE DEF c
  <2>3. Rightful(c, proven')
    BY <1>1, <2>1, <2>2 DEF Rightful
  <2>4. Current(c, accounts', defaults')
    BY <1>1, <2>1, <2>2 DEF Current
  <2> QED
    BY <1>1, <2>1, <2>3, <2>4 DEF Begins, c
<1>2. SetupReads(q, u) => \E c \in CallStates : Begins(q, c)
  BY <1>1 DEF SetupReads, AccountsTypeOK
<1>3. EnableReads(q, u) => \E c \in CallStates : Begins(q, c)
  <2> SUFFICES ASSUME EnableReads(q, u)
               PROVE  \E c \in CallStates : Begins(q, c)
    OBVIOUS
  <2>1. accounts[u].secret \in AccountRequests
    BY DEF EnableReads, AccountsTypeOK, AccountRows
  <2> QED
    BY <1>1, <2>1 DEF EnableReads, AccountsTypeOK
<1>4. DisableReads(q, u) \/ PrefsRead(q, u) => \E c \in CallStates : Begins(q, c)
  BY <1>1 DEF DisableReads, PrefsRead, AccountsTypeOK
<1>5. ASSUME NEW v \in AccountUsers, NEW at \in {"delete", "reset"},
             PeersGuarded(u, v), at = "delete" => v # u,
             Called(q, Calls(q, at, "admin", u, v)), UNCHANGED proven
      PROVE  \E c \in CallStates : Begins(q, c)
  <2> DEFINE c == Calls(q, at, "admin", u, v)
  <2>1. /\ c \in CallStates /\ c.at = at /\ c.topic = "admin" /\ c.actor = u /\ c.user = v
        /\ c.saw = accounts[v] /\ c.stale = FALSE
    <3>1. Made(c, at, "admin", u, v)
      BY PointsAndTopics, CallMade
    <3> QED
      BY <3>1 DEF Made
  <2>2. accounts' = accounts /\ defaults' = defaults
    BY <1>5 DEF Called
  <2>3. v \in FirstSuperadmins => accounts[v].super
    BY DEF UsersKept, UserKept
  <2> HIDE DEF c
  <2>4. Rightful(c, proven')
    BY <1>5, <2>1, <2>2, <2>3 DEF Rightful, PeersGuarded
  <2>5. Current(c, accounts', defaults')
    BY <2>1, <2>2 DEF Current
  <2> QED
    BY <1>5, <2>1, <2>4, <2>5 DEF Begins, c, AccountsTypeOK
<1>6. ASSUME NEW v \in AccountUsers, NEW active \in BOOLEAN, NEW super \in BOOLEAN,
             UpdateReads(q, u, v, active, super)
      PROVE  \E c \in CallStates : Begins(q, c)
  <2> DEFINE b == Calls(q, "update", "admin", u, v)
             d == [b EXCEPT !.active = active]
             c == [d EXCEPT !.super = super]
  <2>1. /\ b \in CallStates /\ b.at = "update" /\ b.topic = "admin" /\ b.actor = u /\ b.user = v
        /\ b.saw = accounts[v] /\ b.stale = FALSE
    <3>1. Made(b, "update", "admin", u, v)
      BY PointsAndTopics, CallMade
    <3> QED
      BY <3>1 DEF Made
  <2>2. /\ d \in CallStates /\ d.at = "update" /\ d.topic = "admin" /\ d.actor = u /\ d.user = v
        /\ d.saw = accounts[v] /\ d.stale = FALSE
    <3> HIDE DEF b
    <3> QED
      BY <2>1 DEF CallStates
  <2>3. /\ c \in CallStates /\ c.at = "update" /\ c.topic = "admin" /\ c.actor = u /\ c.user = v
        /\ c.saw = accounts[v] /\ c.stale = FALSE /\ c.super = super
    <3> HIDE DEF d
    <3> QED
      BY <2>2 DEF CallStates
  <2>4. Called(q, c)
    BY <1>6 DEF UpdateReads
  <2> HIDE DEF c
  <2>5. accounts' = accounts /\ defaults' = defaults
    BY <2>4 DEF Called
  <2>6. v \in FirstSuperadmins => accounts[v].super
    BY DEF UsersKept, UserKept
  <2>7. Rightful(c, proven')
    BY <1>6, <2>3, <2>5, <2>6 DEF Rightful, PeersGuarded, UpdateReads
  <2>8. Current(c, accounts', defaults')
    BY <2>3, <2>5 DEF Current
  <2> QED
    BY <1>6, <2>3, <2>4, <2>7, <2>8 DEF Begins, UpdateReads, AccountsTypeOK
<1>7. ASSUME NEW v \in AccountUsers, DeleteReads(q, u, v) \/ ResetReads(q, u, v)
      PROVE  \E c \in CallStates : Begins(q, c)
  BY <1>5, <1>7 DEF DeleteReads, ResetReads
<1>8. ASSUME NEW a \in Abbreviations, SuggestReads(q, u, a)
      PROVE  \E c \in CallStates : Begins(q, c)
  <2> DEFINE b == Calls(q, "suggest", "none", u, u)
             c == [b EXCEPT !.item = a]
  <2>1. /\ b \in CallStates /\ b.at = "suggest" /\ b.topic = "none" /\ b.user = u
        /\ b.stale = FALSE
    <3>1. Made(b, "suggest", "none", u, u)
      BY PointsAndTopics, CallMade
    <3> QED
      BY <3>1 DEF Made
  <2>2. /\ c \in CallStates /\ c.at = "suggest" /\ c.topic = "none" /\ c.user = u
        /\ c.stale = FALSE /\ c.item = a
    <3> HIDE DEF b
    <3> QED
      BY <2>1 DEF CallStates
  <2>3. Called(q, c)
    BY <1>8 DEF SuggestReads
  <2> HIDE DEF c
  <2> QED
    BY <1>8, <2>2, <2>3 DEF Begins, SuggestReads, AccountsTypeOK, Rightful, Current
<1>9. ASSUME NEW a \in Abbreviations, NEW active \in BOOLEAN, EditReads(q, u, a, active)
      PROVE  \E c \in CallStates : Begins(q, c)
  <2> DEFINE b == Calls(q, "edit", "none", u, u)
             d == [b EXCEPT !.item = a]
             e == [d EXCEPT !.active = active]
             c == [e EXCEPT !.was = shortForms[a].active]
  <2>1. /\ b \in CallStates /\ b.at = "edit" /\ b.topic = "none"
        /\ b.stale = FALSE
    <3>1. Made(b, "edit", "none", u, u)
      BY PointsAndTopics, CallMade
    <3> QED
      BY <3>1 DEF Made
  <2>2. /\ d \in CallStates /\ d.at = "edit" /\ d.topic = "none"
        /\ d.stale = FALSE /\ d.item = a
    <3> HIDE DEF b
    <3> QED
      BY <2>1 DEF CallStates
  <2>3. /\ e \in CallStates /\ e.at = "edit" /\ e.topic = "none"
        /\ e.stale = FALSE /\ e.item = a
    <3> HIDE DEF d
    <3> QED
      BY <2>2 DEF CallStates
  <2>4. /\ c \in CallStates /\ c.at = "edit" /\ c.topic = "none"
        /\ c.stale = FALSE /\ c.item = a
    <3>1. shortForms[a].active \in BOOLEAN
      BY DEF AccountsTypeOK, ShortFormRows
    <3> HIDE DEF e
    <3> QED
      BY <2>3, <3>1 DEF CallStates
  <2>5. Called(q, c)
    BY <1>9 DEF EditReads
  <2> HIDE DEF c
  <2> QED
    BY <1>9, <2>4, <2>5 DEF Begins, EditReads, AccountsTypeOK, Rightful, Current
<1>10. ASSUME NEW h \in Homes, DefaultReads(q, h)
       PROVE  \E c \in CallStates : Begins(q, c)
  <2> DEFINE o == HomeOwner[h]
             others == {g \in defaults : HomeOwner[g] = o}
             b == Calls(q, "default", "default", o, o)
             d == [b EXCEPT !.item = h]
             c == [d EXCEPT !.others = others]
  <2>1. o \in AccountUsers /\ others \in SUBSET Homes
    BY AccountsAssumption DEF AccountsTypeOK
  <2>2. /\ b \in CallStates /\ b.at = "default" /\ b.topic = "default" /\ b.user = o
        /\ b.stale = FALSE
    <3>1. Made(b, "default", "default", o, o)
      BY <2>1, PointsAndTopics, CallMade
    <3> QED
      BY <3>1 DEF Made
  <2>3. /\ d \in CallStates /\ d.at = "default" /\ d.topic = "default" /\ d.user = o
        /\ d.stale = FALSE /\ d.item = h
    <3> HIDE DEF b
    <3> QED
      BY <2>2 DEF CallStates
  <2>4. /\ c \in CallStates /\ c.at = "default" /\ c.topic = "default" /\ c.user = o
        /\ c.stale = FALSE /\ c.item = h /\ c.others = others
    <3> HIDE DEF d, others
    <3> QED
      BY <2>1, <2>3 DEF CallStates
  <2>5. Called(q, c)
    BY <1>10 DEF DefaultReads
  <2> HIDE DEF c
  <2>6. accounts' = accounts /\ defaults' = defaults
    BY <2>5 DEF Called
  <2> QED
    BY <1>10, <2>4, <2>5, <2>6 DEF Begins, DefaultReads, AccountsTypeOK, Rightful, Current
<1> QED
  BY <1>2, <1>3, <1>4, <1>6, <1>7, <1>8, <1>9, <1>10

\* Other requests are as they were, but stale if they had read what was written.
LEMMA Ended ==
  ASSUME AccountsTypeOK, NEW q \in AccountRequests, Ends(q)
  PROVE  /\ calls' \in [AccountRequests -> CallStates]
         /\ clashed' \in SUBSET (AccountUsers \X Topics)
         /\ clashed \subseteq clashed'
         /\ calls[q].stale /\ calls[q].topic # "none" =>
               <<calls[q].user, calls[q].topic>> \in clashed'
         /\ calls'[q].at = "over" /\ calls'[q].topic = "none"
         /\ \A r \in AccountRequests \ {q} :
               /\ calls'[r].at = calls[r].at
               /\ calls'[r].topic = calls[r].topic
               /\ calls'[r].actor = calls[r].actor
               /\ calls'[r].user = calls[r].user
               /\ calls'[r].saw = calls[r].saw
               /\ calls'[r].super = calls[r].super
               /\ calls'[r].item = calls[r].item
               /\ calls'[r].others = calls[r].others
               /\ ~calls'[r].stale =>
                     ~calls[r].stale /\ (calls[r].topic # calls[q].topic
                                         \/ calls[r].user # calls[q].user)
<1> DEFINE now(r) == calls[r].stale \/ (calls[r].topic = calls[q].topic
                                         /\ calls[r].user = calls[q].user)
           older(r) == [calls[r] EXCEPT !.stale = now(r)]
           over == [IdleCall EXCEPT !.at = "over"]
<1>1. calls' = [r \in AccountRequests |-> IF r = q THEN over ELSE older(r)]
  BY DEF Ends
<1>2. ASSUME NEW r \in AccountRequests
      PROVE  /\ older(r) \in CallStates
             /\ older(r).at = calls[r].at
             /\ older(r).topic = calls[r].topic
             /\ older(r).actor = calls[r].actor
             /\ older(r).user = calls[r].user
             /\ older(r).saw = calls[r].saw
             /\ older(r).super = calls[r].super
             /\ older(r).item = calls[r].item
             /\ older(r).others = calls[r].others
             /\ older(r).stale = now(r)
  <2>1. calls[r] \in CallStates
    BY DEF AccountsTypeOK
  <2>2. now(r) \in BOOLEAN
    BY <2>1 DEF CallStates
  <2> HIDE DEF now
  <2> QED
    BY <2>1, <2>2 DEF CallStates
<1>3. over \in CallStates /\ over.at = "over" /\ over.topic = "none"
  BY OverCall
<1> HIDE DEF older, over
<1>4. /\ calls'[q] = over
      /\ \A r \in AccountRequests \ {q} : calls'[r] = older(r)
      /\ calls' \in [AccountRequests -> CallStates]
  BY <1>1, <1>2, <1>3
<1>5. calls[q].user \in AccountUsers /\ calls[q].topic \in Topics \cup {"none"}
  BY DEF AccountsTypeOK, CallStates
<1>6. clashed' = IF calls[q].stale /\ calls[q].topic # "none"
                 THEN clashed \cup {<<calls[q].user, calls[q].topic>>} ELSE clashed
  BY DEF Ends
<1>7. /\ clashed' \in SUBSET (AccountUsers \X Topics)
      /\ clashed \subseteq clashed'
      /\ calls[q].stale /\ calls[q].topic # "none" =>
            <<calls[q].user, calls[q].topic>> \in clashed'
  BY <1>5, <1>6 DEF AccountsTypeOK
<1>8. ASSUME NEW r \in AccountRequests \ {q}
      PROVE  /\ calls'[r].at = calls[r].at
             /\ calls'[r].topic = calls[r].topic
             /\ calls'[r].actor = calls[r].actor
             /\ calls'[r].user = calls[r].user
             /\ calls'[r].saw = calls[r].saw
             /\ calls'[r].super = calls[r].super
             /\ calls'[r].item = calls[r].item
             /\ calls'[r].others = calls[r].others
             /\ calls'[r].stale = now(r)
  <2>1. calls'[r] = older(r)
    BY <1>4
  <2> HIDE DEF now
  <2> QED
    BY <1>2, <2>1
<1>9. /\ calls' \in [AccountRequests -> CallStates]
      /\ calls'[q].at = "over" /\ calls'[q].topic = "none"
  BY <1>3, <1>4
<1> QED
  BY <1>7, <1>8, <1>9

\* A request that writes what its topic is about keeps what others know.
LEMMA CommitKeepsCalls ==
  ASSUME AccountsTypeOK, CallsKnow, NEW q \in AccountRequests, Ends(q), proven' = proven,
         \A v \in AccountUsers :
            /\ v # calls[q].user => accounts'[v] = accounts[v]
            /\ calls[q].topic # "twofa" =>
                  /\ accounts'[v].twofa = accounts[v].twofa
                  /\ accounts'[v].secret = accounts[v].secret
            /\ calls[q].topic # "admin" => accounts'[v].super = accounts[v].super
            /\ calls[q].topic # "prefs" => accounts'[v].prefs = accounts[v].prefs
            /\ accounts'[v].there => accounts[v].there
            /\ (v # calls[q].user \/ calls[q].topic # "default") /\ accounts'[v].there =>
                  {g \in defaults' : HomeOwner[g] = v} = {g \in defaults : HomeOwner[g] = v}
  PROVE  CallsKnow'
<1> SUFFICES ASSUME NEW r \in AccountRequests
             PROVE  /\ Rightful(calls'[r], proven')
                    /\ ~calls'[r].stale => Current(calls'[r], accounts', defaults')
  BY DEF CallsKnow
<1>1. CASE r = q
  BY <1>1, Ended DEF Rightful, Current
<1>2. CASE r # q
  <2>1. /\ calls'[r].at = calls[r].at
        /\ calls'[r].topic = calls[r].topic
        /\ calls'[r].actor = calls[r].actor
        /\ calls'[r].user = calls[r].user
        /\ calls'[r].saw = calls[r].saw
        /\ calls'[r].super = calls[r].super
        /\ calls'[r].item = calls[r].item
        /\ calls'[r].others = calls[r].others
        /\ ~calls'[r].stale =>
              ~calls[r].stale /\ (calls[r].topic # calls[q].topic
                                  \/ calls[r].user # calls[q].user)
    BY <1>2, Ended
  <2>2. Rightful(calls[r], proven) /\ (~calls[r].stale => Current(calls[r], accounts, defaults))
    BY DEF CallsKnow
  <2>3. Rightful(calls'[r], proven')
    BY <2>1, <2>2 DEF Rightful
  <2>4. calls[r].user \in AccountUsers
    BY DEF AccountsTypeOK, CallStates
  <2>5. ASSUME ~calls'[r].stale
        PROVE  Current(calls'[r], accounts', defaults')
    <3> DEFINE u == calls[r].user
    <3>1. \/ u # calls[q].user
          \/ calls[r].topic # calls[q].topic
      BY <2>1, <2>5
    <3>2. Current(calls[r], accounts, defaults)
      BY <2>1, <2>2, <2>5
    <3>3. calls[r].topic = "twofa" => /\ accounts'[u].twofa = accounts[u].twofa
                                      /\ accounts'[u].secret = accounts[u].secret
      BY <2>4, <3>1
    <3>4. calls[r].topic = "admin" => accounts'[u].super = accounts[u].super
      BY <2>4, <3>1
    <3>5. calls[r].topic = "prefs" => accounts'[u].prefs = accounts[u].prefs
      BY <2>4, <3>1
    <3>6. calls[r].topic = "default" /\ accounts'[u].there =>
             /\ accounts[u].there
             /\ {g \in defaults' : HomeOwner[g] = u} = {g \in defaults : HomeOwner[g] = u}
      BY <2>4, <3>1
    <3> QED
      BY <2>1, <3>2, <3>3, <3>4, <3>5, <3>6 DEF Current
  <2> QED
    BY <2>3, <2>5
<1> QED
  BY <1>1, <1>2

\* The request that commits has a right to, and knows the row unless it is stale.
LEMMA Committing ==
  ASSUME AccountsInv, NEW q \in AccountRequests
  PROVE  /\ calls[q] \in CallStates
         /\ calls[q].user \in AccountUsers
         /\ accounts[calls[q].user] \in AccountRows
         /\ Rightful(calls[q], proven)
         /\ ~calls[q].stale => Current(calls[q], accounts, defaults)
         /\ UserKept(calls[q].user)
BY DEF AccountsInv, AccountsTypeOK, CallStates, CallsKnow, UsersKept

\* A request that writes its user's row, and there only what its topic is about.
LEMMA RowWritten ==
  ASSUME AccountsInv, NEW q \in AccountRequests, NEW u \in AccountUsers, u = calls[q].user,
         NEW at, NEW new \in AccountRows,
         WritesRow(q, at, new), UNCHANGED <<defaults, shortForms, proven, activated>>, new.there,
         calls[q].topic # "twofa" => /\ new.twofa = accounts[u].twofa
                                     /\ new.secret = accounts[u].secret,
         calls[q].topic # "admin" => new.super = accounts[u].super,
         calls[q].topic # "prefs" => new.prefs = accounts[u].prefs,
         calls[q].topic # "default",
         promoted' \in SUBSET AccountUsers, steppedDown' \in SUBSET AccountUsers,
         stored' \in [AccountUsers -> SUBSET AccountRequests],
         \A v \in AccountUsers \ {u} :
            /\ v \in promoted' => v \in promoted
            /\ v \in steppedDown => v \in steppedDown'
            /\ stored'[v] = stored[v],
         accounts' = [accounts EXCEPT ![u] = new] => UserKept(u)'
  PROVE  AccountsInv'
<1>1. u \in AccountUsers /\ accounts \in [AccountUsers -> AccountRows]
  BY Committing DEF AccountsInv, AccountsTypeOK
<1>2. /\ accounts[u].there
      /\ accounts' = [accounts EXCEPT ![u] = new]
      /\ Ends(q)
  BY DEF WritesRow
<1>3. /\ accounts' \in [AccountUsers -> AccountRows]
      /\ accounts'[u] = new
      /\ \A v \in AccountUsers \ {u} : accounts'[v] = accounts[v]
  BY <1>1, <1>2
<1>4. AccountsTypeOK'
  BY <1>2, <1>3, Ended DEF AccountsInv, AccountsTypeOK
<1>5. CallsKnow'
  BY <1>2, <1>3, CommitKeepsCalls DEF AccountsInv
<1>6. clashed \subseteq clashed'
  BY <1>2, Ended DEF AccountsInv
<1>7. ASSUME NEW v \in AccountUsers \ {u}
      PROVE  UserKept(v)'
  <2>1. UserKept(v) /\ accounts'[v] = accounts[v]
    BY <1>3 DEF AccountsInv, UsersKept
  <2>2. /\ v \in promoted' => v \in promoted
        /\ v \in steppedDown => v \in steppedDown'
        /\ stored'[v] = stored[v]
    OBVIOUS
  <2> QED
    BY <1>6, <2>1, <2>2 DEF UserKept
<1>8. UsersKept'
  BY <1>2, <1>7 DEF UsersKept
<1>9. ShortFormsKept'
  BY <1>3 DEF AccountsInv, ShortFormsKept, AccountsTypeOK, ShortFormRows
<1> QED
  BY <1>4, <1>5, <1>8, <1>9 DEF AccountsInv

\* Whatever request reads or commits next.
LEMMA RequestKeepsAccounts ==
  ASSUME AccountsInv, NEW q \in AccountRequests
  PROVE  /\ \A call \in CallStates : Begins(q, call) => AccountsInv'
         /\ SetupCommits(q) \/ EnableCommits(q) \/ DisableCommits(q) => AccountsInv'
         /\ PrefsCommit(q) \/ UpdateCommits(q) \/ ResetCommits(q) => AccountsInv'
<1>1. ASSUME NEW call \in CallStates, Begins(q, call)
      PROVE  AccountsInv'
  <2>1. /\ calls' = [calls EXCEPT ![q] = call]
        /\ UNCHANGED <<accounts, defaults, shortForms, promoted, steppedDown, stored,
                        activated, clashed>>
        /\ proven \subseteq proven' /\ proven' \subseteq AccountRequests
        /\ Rightful(call, proven') /\ Current(call, accounts', defaults')
    BY <1>1 DEF Begins, Called
  <2>2. AccountsTypeOK'
    BY <2>1 DEF AccountsInv, AccountsTypeOK
  <2>3. ASSUME NEW r \in AccountRequests
        PROVE  /\ Rightful(calls'[r], proven')
               /\ ~calls'[r].stale => Current(calls'[r], accounts', defaults')
    <3>1. CASE r = q
      BY <2>1, <3>1 DEF AccountsInv, AccountsTypeOK
    <3>2. CASE r # q
      <4>1. calls'[r] = calls[r]
        BY <2>1, <3>2 DEF AccountsInv, AccountsTypeOK
      <4>2. Rightful(calls[r], proven) /\ (~calls[r].stale => Current(calls[r], accounts, defaults))
        BY DEF AccountsInv, CallsKnow
      <4>3. Rightful(calls[r], proven')
        BY <2>1, <4>2 DEF Rightful
      <4>4. ~calls[r].stale => Current(calls[r], accounts', defaults')
        BY <2>1, <4>2
      <4> QED
        BY <4>1, <4>3, <4>4
    <3> QED
      BY <3>1, <3>2
  <2>4. ASSUME NEW u \in AccountUsers
        PROVE  UserKept(u)'
    <3>1. UserKept(u)
      BY DEF AccountsInv, UsersKept
    <3> QED
      BY <2>1, <3>1 DEF UserKept
  <2>5. ShortFormsKept'
    BY <2>1 DEF AccountsInv, ShortFormsKept
  <2> QED
    BY <2>2, <2>3, <2>4, <2>5 DEF AccountsInv, CallsKnow, UsersKept
<1>2. ASSUME SetupCommits(q)
      PROVE  AccountsInv'
  <2>1. PICK u \in AccountUsers : u = calls[q].user
    BY Committing
  <2> DEFINE old == accounts[u]
             new == [old EXCEPT !.secret = q]
  <2>2. /\ WritesRow(q, "setup", new)
        /\ old.there /\ calls[q].at = "setup" /\ Ends(q)
        /\ UNCHANGED <<defaults, shortForms, proven, activated>>
    BY <1>2, <2>1 DEF SetupCommits, WritesRow, Row
  <2>3. /\ old \in AccountRows /\ Rightful(calls[q], proven) /\ UserKept(u)
        /\ calls[q].topic = "twofa"
        /\ ~calls[q].stale => Current(calls[q], accounts, defaults)
    BY <2>1, <2>2, Committing DEF Rightful
  <2>4. /\ new \in AccountRows
        /\ new.there = old.there /\ new.active = old.active
        /\ new.super = old.super /\ new.twofa = old.twofa
        /\ new.prefs = old.prefs /\ new.password = old.password
        /\ new.secret = q
    BY <2>3 DEF AccountRows
  <2>5. /\ clashed \subseteq clashed'
        /\ calls[q].stale => <<u, "twofa">> \in clashed'
    BY <2>1, <2>2, <2>3, Ended DEF AccountsInv
  <2>6. /\ promoted' = promoted /\ steppedDown' = steppedDown /\ stored' = stored
        /\ promoted' \in SUBSET AccountUsers /\ steppedDown' \in SUBSET AccountUsers
        /\ stored' \in [AccountUsers -> SUBSET AccountRequests]
    BY <1>2 DEF SetupCommits, AccountsInv, AccountsTypeOK
  <2> HIDE DEF new
  <2>7. ASSUME accounts' = [accounts EXCEPT ![u] = new]
        PROVE  UserKept(u)'
    <3>1. accounts'[u] = new
      BY <2>7 DEF AccountsInv, AccountsTypeOK
    <3> QED
      BY <2>1, <2>2, <2>3, <2>4, <2>5, <2>6, <3>1 DEF UserKept, Rightful, Current
  <2> QED
    BY <2>1, <2>2, <2>3, <2>4, <2>6, <2>7, RowWritten
<1>3. ASSUME EnableCommits(q)
      PROVE  AccountsInv'
  <2>1. PICK u \in AccountUsers : u = calls[q].user
    BY Committing
  <2> DEFINE old == accounts[u]
             new == [old EXCEPT !.twofa = TRUE]
  <2>2. /\ WritesRow(q, "enable", new)
        /\ old.there /\ calls[q].at = "enable" /\ Ends(q)
        /\ UNCHANGED <<defaults, shortForms, proven, activated>>
    BY <1>3, <2>1 DEF EnableCommits, WritesRow, Row
  <2>3. /\ old \in AccountRows /\ Rightful(calls[q], proven) /\ UserKept(u)
        /\ calls[q].topic = "twofa"
        /\ ~calls[q].stale => Current(calls[q], accounts, defaults)
    BY <2>1, <2>2, Committing DEF Rightful
  <2>4. /\ new \in AccountRows
        /\ new.there = old.there /\ new.active = old.active
        /\ new.super = old.super /\ new.secret = old.secret
        /\ new.prefs = old.prefs /\ new.password = old.password
        /\ new.twofa
    BY <2>3 DEF AccountRows
  <2>5. /\ clashed \subseteq clashed'
        /\ calls[q].stale => <<u, "twofa">> \in clashed'
    BY <2>1, <2>2, <2>3, Ended DEF AccountsInv
  <2>6. /\ promoted' = promoted /\ steppedDown' = steppedDown /\ stored' = stored
        /\ promoted' \in SUBSET AccountUsers /\ steppedDown' \in SUBSET AccountUsers
        /\ stored' \in [AccountUsers -> SUBSET AccountRequests]
    BY <1>3 DEF EnableCommits, AccountsInv, AccountsTypeOK
  <2> HIDE DEF new
  <2>7. ASSUME accounts' = [accounts EXCEPT ![u] = new]
        PROVE  UserKept(u)'
    <3>1. accounts'[u] = new
      BY <2>7 DEF AccountsInv, AccountsTypeOK
    <3> QED
      BY <2>1, <2>2, <2>3, <2>4, <2>5, <2>6, <3>1 DEF UserKept, Rightful, Current
  <2> QED
    BY <2>1, <2>2, <2>3, <2>4, <2>6, <2>7, RowWritten
<1>4. ASSUME DisableCommits(q)
      PROVE  AccountsInv'
  <2>1. PICK u \in AccountUsers : u = calls[q].user
    BY Committing
  <2> DEFINE old == accounts[u]
             new == Disabled(old, calls[q].saw)
  <2>2. /\ WritesRow(q, "disable", new)
        /\ old.there /\ calls[q].at = "disable" /\ Ends(q)
        /\ UNCHANGED <<defaults, shortForms, proven, activated>>
    BY <1>4, <2>1 DEF DisableCommits, WritesRow, Row
  <2>3. /\ old \in AccountRows /\ Rightful(calls[q], proven) /\ UserKept(u)
        /\ calls[q].topic = "twofa"
        /\ ~calls[q].stale => Current(calls[q], accounts, defaults)
    BY <2>1, <2>2, Committing DEF Rightful
  <2>4. /\ new \in AccountRows
        /\ new.there = old.there /\ new.active = old.active
        /\ new.super = old.super /\ new.prefs = old.prefs
        /\ new.password = old.password
        /\ calls[q].saw.secret = old.secret => new.secret = NoSecret
        /\ calls[q].saw.twofa = old.twofa => ~new.twofa
    <3> DEFINE twofa == old.twofa /\ ~calls[q].saw.twofa
               secret == IF calls[q].saw.secret = NoSecret THEN old.secret ELSE NoSecret
               half == [old EXCEPT !.twofa = twofa]
    <3>1. calls[q].saw \in AccountRows
      BY Committing DEF CallStates
    <3>2. twofa \in BOOLEAN /\ secret \in AccountRequests \cup {NoSecret}
      BY <2>3, <3>1 DEF AccountRows
    <3>3. new = [half EXCEPT !.secret = secret]
      BY <2>3 DEF Disabled, AccountRows
    <3>4. /\ calls[q].saw.secret = old.secret => secret = NoSecret
          /\ calls[q].saw.twofa = old.twofa => ~twofa
      OBVIOUS
    <3> HIDE DEF twofa, secret, new
    <3> QED
      BY <2>3, <3>2, <3>3, <3>4 DEF AccountRows
  <2>5. /\ clashed \subseteq clashed'
        /\ calls[q].stale => <<u, "twofa">> \in clashed'
    BY <2>1, <2>2, <2>3, Ended DEF AccountsInv
  <2>6. /\ promoted' = promoted /\ steppedDown' = steppedDown /\ stored' = stored
        /\ promoted' \in SUBSET AccountUsers /\ steppedDown' \in SUBSET AccountUsers
        /\ stored' \in [AccountUsers -> SUBSET AccountRequests]
    BY <1>4 DEF DisableCommits, AccountsInv, AccountsTypeOK
  <2> HIDE DEF new
  <2>7. ASSUME accounts' = [accounts EXCEPT ![u] = new]
        PROVE  UserKept(u)'
    <3>1. accounts'[u] = new
      BY <2>7 DEF AccountsInv, AccountsTypeOK
    <3> QED
      BY <2>1, <2>2, <2>3, <2>4, <2>5, <2>6, <3>1 DEF UserKept, Rightful, Current
  <2> QED
    BY <2>1, <2>2, <2>3, <2>4, <2>6, <2>7, RowWritten
<1>5. ASSUME PrefsCommit(q)
      PROVE  AccountsInv'
  <2>1. PICK u \in AccountUsers : u = calls[q].user
    BY Committing
  <2> DEFINE old == accounts[u]
             new == [old EXCEPT !.prefs = calls[q].saw.prefs \cup {q}]
  <2>2. /\ WritesRow(q, "prefs", new)
        /\ old.there /\ calls[q].at = "prefs" /\ Ends(q)
        /\ UNCHANGED <<defaults, shortForms, proven, activated>>
    BY <1>5, <2>1 DEF PrefsCommit, WritesRow, Row
  <2>3. /\ old \in AccountRows /\ Rightful(calls[q], proven) /\ UserKept(u)
        /\ calls[q].topic = "prefs"
        /\ ~calls[q].stale => Current(calls[q], accounts, defaults)
    BY <2>1, <2>2, Committing DEF Rightful
  <2>4. /\ new \in AccountRows
        /\ new.there = old.there /\ new.active = old.active
        /\ new.super = old.super /\ new.secret = old.secret
        /\ new.twofa = old.twofa /\ new.password = old.password
        /\ new.prefs = calls[q].saw.prefs \cup {q}
    <3>1. calls[q].saw.prefs \in SUBSET AccountRequests
      BY Committing DEF CallStates, AccountRows
    <3> QED
      BY <2>3, <3>1 DEF AccountRows
  <2>5. /\ clashed \subseteq clashed'
        /\ calls[q].stale => <<u, "prefs">> \in clashed'
    BY <2>1, <2>2, <2>3, Ended DEF AccountsInv
  <2>6. /\ promoted' = promoted /\ steppedDown' = steppedDown
        /\ promoted' \in SUBSET AccountUsers /\ steppedDown' \in SUBSET AccountUsers
        /\ stored' \in [AccountUsers -> SUBSET AccountRequests]
        /\ stored'[u] = stored[u] \cup {q}
        /\ \A v \in AccountUsers \ {u} : stored'[v] = stored[v]
    BY <1>5, <2>1 DEF PrefsCommit, AccountsInv, AccountsTypeOK
  <2> HIDE DEF new
  <2>7. ASSUME accounts' = [accounts EXCEPT ![u] = new]
        PROVE  UserKept(u)'
    <3>1. accounts'[u] = new
      BY <2>7 DEF AccountsInv, AccountsTypeOK
    <3>2. <<u, "prefs">> \notin clashed' => new.prefs = stored'[u]
      BY <2>1, <2>3, <2>4, <2>5, <2>6 DEF UserKept, Current
    <3> QED
      BY <2>2, <2>3, <2>4, <2>5, <2>6, <3>1, <3>2 DEF UserKept
  <2> QED
    BY <2>1, <2>2, <2>3, <2>4, <2>6, <2>7, RowWritten
<1>6. ASSUME UpdateCommits(q)
      PROVE  AccountsInv'
  <2>1. PICK u \in AccountUsers : u = calls[q].user
    BY Committing
  <2> DEFINE old == accounts[u]
             new == UserUpdated(q)
  <2>2. /\ WritesRow(q, "update", new)
        /\ old.there /\ calls[q].at = "update" /\ Ends(q)
        /\ UNCHANGED <<defaults, shortForms, proven, activated>>
    BY <1>6, <2>1 DEF UpdateCommits, WritesRow, Row
  <2>3. /\ old \in AccountRows /\ Rightful(calls[q], proven) /\ UserKept(u)
        /\ calls[q].topic = "admin"
        /\ ~calls[q].stale => Current(calls[q], accounts, defaults)
    BY <2>1, <2>2, Committing DEF Rightful
  <2>4. /\ new \in AccountRows
        /\ new.there = old.there /\ new.secret = old.secret
        /\ new.twofa = old.twofa /\ new.prefs = old.prefs
        /\ new.password = old.password
        /\ new.active = IF calls[q].active = calls[q].saw.active THEN old.active ELSE calls[q].active
        /\ new.super = IF calls[q].super = calls[q].saw.super THEN old.super ELSE calls[q].super
    <3> DEFINE active == IF calls[q].active = calls[q].saw.active
                         THEN old.active ELSE calls[q].active
               super == IF calls[q].super = calls[q].saw.super
                        THEN old.super ELSE calls[q].super
               half == [old EXCEPT !.active = active]
    <3>1. calls[q].active \in BOOLEAN /\ calls[q].super \in BOOLEAN
      BY Committing DEF CallStates
    <3>2. active \in BOOLEAN /\ super \in BOOLEAN
      BY <2>3, <3>1 DEF AccountRows
    <3>3. new = [half EXCEPT !.super = super]
      BY <2>1, <2>3 DEF UserUpdated, Row, AccountRows
    <3> HIDE DEF active, super, new
    <3>4. /\ new \in AccountRows
          /\ new.there = old.there /\ new.secret = old.secret /\ new.twofa = old.twofa
          /\ new.prefs = old.prefs /\ new.password = old.password
          /\ new.active = active /\ new.super = super
      BY <2>3, <3>2, <3>3 DEF AccountRows
    <3> QED
      BY <3>4 DEF active, super
  <2>5. /\ clashed \subseteq clashed'
        /\ calls[q].stale => <<u, "admin">> \in clashed'
    BY <2>1, <2>2, <2>3, Ended DEF AccountsInv
  <2>6. /\ stored' = stored
        /\ promoted' = IF calls[q].super /\ ~calls[q].saw.super
                       THEN promoted \cup {u} ELSE promoted
        /\ steppedDown' = IF calls[q].user = calls[q].actor /\ ~calls[q].active
                          THEN steppedDown \cup {u} ELSE steppedDown
        /\ promoted' \in SUBSET AccountUsers /\ steppedDown' \in SUBSET AccountUsers
        /\ stored' \in [AccountUsers -> SUBSET AccountRequests]
    BY <1>6, <2>1 DEF UpdateCommits, AccountsInv, AccountsTypeOK
  <2> HIDE DEF new
  <2>7. ASSUME accounts' = [accounts EXCEPT ![u] = new]
        PROVE  UserKept(u)'
    <3>1. accounts'[u] = new
      BY <2>7 DEF AccountsInv, AccountsTypeOK
    <3> QED
      BY <2>1, <2>2, <2>3, <2>4, <2>5, <2>6, <3>1 DEF UserKept, Rightful, Current
  <2> QED
    BY <2>1, <2>2, <2>3, <2>4, <2>6, <2>7, RowWritten
<1>7. ASSUME ResetCommits(q)
      PROVE  AccountsInv'
  <2>1. PICK u \in AccountUsers : u = calls[q].user
    BY Committing
  <2> DEFINE old == accounts[u]
             new == [old EXCEPT !.password =
                         IF calls[q].user = calls[q].actor THEN "own" ELSE "reset"]
  <2>2. /\ WritesRow(q, "reset", new)
        /\ old.there /\ calls[q].at = "reset" /\ Ends(q)
        /\ UNCHANGED <<defaults, shortForms, proven, activated>>
    BY <1>7, <2>1 DEF ResetCommits, WritesRow, Row
  <2>3. /\ old \in AccountRows /\ Rightful(calls[q], proven) /\ UserKept(u)
        /\ calls[q].topic = "admin"
        /\ ~calls[q].stale => Current(calls[q], accounts, defaults)
    BY <2>1, <2>2, Committing DEF Rightful
  <2>4. /\ new \in AccountRows
        /\ new.there = old.there /\ new.active = old.active
        /\ new.super = old.super /\ new.secret = old.secret
        /\ new.twofa = old.twofa /\ new.prefs = old.prefs
        /\ new.password = IF calls[q].user = calls[q].actor THEN "own" ELSE "reset"
    BY <2>3 DEF AccountRows
  <2>5. /\ clashed \subseteq clashed'
        /\ calls[q].stale => <<u, "admin">> \in clashed'
    BY <2>1, <2>2, <2>3, Ended DEF AccountsInv
  <2>6. /\ promoted' = promoted /\ steppedDown' = steppedDown /\ stored' = stored
        /\ promoted' \in SUBSET AccountUsers /\ steppedDown' \in SUBSET AccountUsers
        /\ stored' \in [AccountUsers -> SUBSET AccountRequests]
    BY <1>7 DEF ResetCommits, AccountsInv, AccountsTypeOK
  <2> HIDE DEF new
  <2>7. ASSUME accounts' = [accounts EXCEPT ![u] = new]
        PROVE  UserKept(u)'
    <3>1. accounts'[u] = new
      BY <2>7 DEF AccountsInv, AccountsTypeOK
    <3> QED
      BY <2>1, <2>2, <2>3, <2>4, <2>5, <2>6, <3>1 DEF UserKept, Rightful, Current
  <2> QED
    BY <2>1, <2>2, <2>3, <2>4, <2>6, <2>7, RowWritten
<1> QED
  BY <1>1, <1>2, <1>3, <1>4, <1>5, <1>6, <1>7

\* An account that is deleted is nobody's default.
LEMMA DeleteKeepsAccounts ==
  ASSUME AccountsInv, NEW q \in AccountRequests, DeleteCommits(q)
  PROVE  AccountsInv'
<1>1. PICK u \in AccountUsers : u = calls[q].user
  BY Committing
<1> DEFINE old == accounts[u]
           new == [old EXCEPT !.there = FALSE]
<1>2. /\ accounts' = [accounts EXCEPT ![u] = new]
      /\ old.there /\ calls[q].at = "delete" /\ Ends(q)
      /\ defaults' = {h \in defaults : HomeOwner[h] # u}
      /\ UNCHANGED <<shortForms, proven, promoted, steppedDown, stored, activated>>
      /\ \A a \in Abbreviations : ~(shortForms[a].at = "there" /\ shortForms[a].user = u)
  BY <1>1 DEF DeleteCommits, WritesRow, Row
<1>3. /\ old \in AccountRows /\ UserKept(u)
      /\ calls[q].topic = "admin"
      /\ u \notin FirstSuperadmins /\ ~calls[q].saw.super
      /\ ~calls[q].stale => ~old.super
  BY <1>1, <1>2, Committing DEF Rightful, Current
<1>4. /\ new \in AccountRows
      /\ ~new.there /\ new.super = old.super
      /\ new.secret = old.secret /\ new.twofa = old.twofa /\ new.prefs = old.prefs
  BY <1>3 DEF AccountRows
<1> HIDE DEF new
<1>5. /\ accounts' \in [AccountUsers -> AccountRows]
      /\ accounts'[u] = new
      /\ \A v \in AccountUsers \ {u} : accounts'[v] = accounts[v]
  BY <1>2, <1>4 DEF AccountsInv, AccountsTypeOK
<1>6. AccountsTypeOK'
  BY <1>2, <1>5, Ended DEF AccountsInv, AccountsTypeOK
<1>7. CallsKnow'
  <2>1. ASSUME NEW v \in AccountUsers
        PROVE  /\ accounts'[v].twofa = accounts[v].twofa
               /\ accounts'[v].secret = accounts[v].secret
               /\ accounts'[v].prefs = accounts[v].prefs
               /\ accounts'[v].there => accounts[v].there
               /\ accounts'[v].there =>
                     {g \in defaults' : HomeOwner[g] = v} = {g \in defaults : HomeOwner[g] = v}
    BY <1>2, <1>4, <1>5
  <2> QED
    BY <1>1, <1>2, <1>3, <1>5, <2>1, CommitKeepsCalls DEF AccountsInv
<1>8. /\ clashed \subseteq clashed'
      /\ calls[q].stale => <<u, "admin">> \in clashed'
  BY <1>1, <1>2, <1>3, Ended DEF AccountsInv
<1>9. ASSUME NEW v \in AccountUsers
      PROVE  UserKept(v)'
  <2>1. CASE v = u
    BY <1>2, <1>3, <1>4, <1>5, <1>8, <2>1 DEF UserKept
  <2>2. CASE v # u
    <3>1. UserKept(v) /\ accounts'[v] = accounts[v]
      BY <1>5, <2>2 DEF AccountsInv, UsersKept
    <3> QED
      BY <1>2, <1>8, <3>1 DEF UserKept
  <2> QED
    BY <2>1, <2>2
<1>10. ShortFormsKept'
  BY <1>2, <1>5 DEF AccountsInv, ShortFormsKept, AccountsTypeOK, ShortFormRows
<1> QED
  BY <1>6, <1>7, <1>9, <1>10 DEF AccountsInv, UsersKept

\* A default that is set takes the place of those that were read.
LEMMA DefaultKeepsAccounts ==
  ASSUME AccountsInv, NEW q \in AccountRequests, DefaultCommits(q)
  PROVE  AccountsInv'
<1>1. PICK u \in AccountUsers : u = calls[q].user
  BY Committing
<1> DEFINE h == calls[q].item
           others == calls[q].others
<1>2. /\ calls[q].at = "default" /\ accounts[u].there /\ Ends(q)
      /\ defaults' = IF h \in others THEN defaults \ (others \ {h})
                     ELSE (defaults \ others) \cup {h}
      /\ UNCHANGED <<accounts, shortForms, proven, promoted, steppedDown, stored, activated>>
  BY <1>1 DEF DefaultCommits, Row
<1>3. /\ h \in Homes /\ HomeOwner[h] = u /\ \A g \in others : HomeOwner[g] = u
      /\ calls[q].topic = "default"
      /\ ~calls[q].stale => others = {g \in defaults : HomeOwner[g] = u}
  BY <1>1, <1>2, Committing DEF Rightful, Current
<1> HIDE DEF h, others
<1>4. AccountsTypeOK'
  BY <1>2, <1>3, Ended DEF AccountsInv, AccountsTypeOK
<1>5. CallsKnow'
  <2>1. ASSUME NEW v \in AccountUsers, v # u
        PROVE  {g \in defaults' : HomeOwner[g] = v} = {g \in defaults : HomeOwner[g] = v}
    BY <1>2, <1>3, <2>1
  <2> QED
    BY <1>1, <1>2, <1>3, <2>1, CommitKeepsCalls DEF AccountsInv
<1>6. /\ clashed \subseteq clashed'
      /\ calls[q].stale => <<u, "default">> \in clashed'
  BY <1>1, <1>2, <1>3, Ended DEF AccountsInv
<1>7. ASSUME NEW v \in AccountUsers
      PROVE  UserKept(v)'
  <2>1. UserKept(v)
    BY DEF AccountsInv, UsersKept
  <2>2. <<v, "default">> \notin clashed' =>
           \A f, g \in defaults' : HomeOwner[f] = v /\ HomeOwner[g] = v => f = g
    BY <1>2, <1>3, <1>6, <2>1 DEF UserKept
  <2> QED
    BY <1>2, <1>6, <2>1, <2>2 DEF UserKept
<1>8. ShortFormsKept'
  BY <1>2 DEF AccountsInv, ShortFormsKept
<1> QED
  BY <1>4, <1>5, <1>7, <1>8 DEF AccountsInv, UsersKept

\* Abbreviations change as their owners and superadmins make them.
LEMMA ShortFormsChange ==
  ASSUME AccountsInv, NEW q \in AccountRequests, SuggestCommits(q) \/ EditCommits(q)
  PROVE  AccountsInv'
<1> DEFINE a == calls[q].item
<1>1. /\ calls[q].at \in {"suggest", "edit"} /\ Ends(q)
      /\ UNCHANGED <<accounts, defaults, proven, promoted, steppedDown, stored>>
  BY DEF SuggestCommits, EditCommits
<1>2. /\ a \in Abbreviations /\ calls[q].topic = "none"
      /\ calls[q].active \in BOOLEAN /\ calls[q].vouch \in BOOLEAN
      /\ calls[q].user \in AccountUsers
  BY <1>1, Committing DEF Rightful, CallStates
<1>3. /\ shortForms' \in [Abbreviations -> ShortFormRows]
      /\ activated' \in SUBSET Abbreviations
      /\ ShortFormsKept'
  <2>1. CASE SuggestCommits(q)
    <3> DEFINE new == [at |-> "there", user |-> calls[q].user, active |-> calls[q].vouch]
    <3>1. /\ shortForms' = [shortForms EXCEPT ![a] = new]
          /\ activated' = IF calls[q].vouch THEN activated \cup {a} ELSE activated
          /\ accounts[calls[q].user].there
      BY <2>1 DEF SuggestCommits, Row
    <3>2. /\ new \in ShortFormRows /\ new.user = calls[q].user /\ new.active = calls[q].vouch
      BY <1>2 DEF ShortFormRows
    <3> HIDE DEF a, new
    <3>3. /\ shortForms' \in [Abbreviations -> ShortFormRows]
          /\ shortForms'[a] = new
          /\ \A b \in Abbreviations \ {a} : shortForms'[b] = shortForms[b]
      BY <1>2, <3>1, <3>2 DEF AccountsInv, AccountsTypeOK
    <3> QED
      BY <1>1, <1>2, <3>1, <3>2, <3>3 DEF AccountsInv, AccountsTypeOK, ShortFormsKept, a
  <2>2. CASE EditCommits(q)
    <3> DEFINE old == shortForms[a]
               active == IF calls[q].active = calls[q].was THEN old.active ELSE calls[q].active
               new == [old EXCEPT !.active = active]
    <3>1. old \in ShortFormRows
      BY <1>2 DEF AccountsInv, AccountsTypeOK
    <3>2. active \in BOOLEAN
      BY <1>2, <3>1 DEF ShortFormRows
    <3>3. /\ shortForms' = [shortForms EXCEPT ![a] = new]
          /\ activated' = IF calls[q].active /\ ~calls[q].was
                          THEN activated \cup {a} ELSE activated
          /\ old.at = "there"
      BY <1>2, <2>2 DEF EditCommits, AccountsInv, AccountsTypeOK
    <3>4. active => old.active \/ a \in activated'
      <4>1. calls[q].was \in BOOLEAN
        BY Committing DEF CallStates
      <4> QED
        BY <1>2, <3>3, <4>1
    <3>5. /\ new \in ShortFormRows /\ new.user = old.user /\ new.active = active
      <4> HIDE DEF active
      <4> QED
        BY <3>1, <3>2 DEF ShortFormRows
    <3> HIDE DEF a, new, active
    <3>6. /\ shortForms' \in [Abbreviations -> ShortFormRows]
          /\ shortForms'[a] = new
          /\ \A b \in Abbreviations \ {a} : shortForms'[b] = shortForms[b]
      BY <1>2, <3>3, <3>5 DEF AccountsInv, AccountsTypeOK
    <3>7. activated \subseteq activated' /\ activated' \in SUBSET Abbreviations
      BY <1>2, <3>3 DEF AccountsInv, AccountsTypeOK
    <3> QED
      BY <1>1, <1>2, <3>3, <3>4, <3>5, <3>6, <3>7 DEF AccountsInv, ShortFormsKept
  <2> QED
    BY <2>1, <2>2
<1>4. AccountsTypeOK'
  BY <1>1, <1>3, Ended DEF AccountsInv, AccountsTypeOK
<1>5. CallsKnow'
  BY <1>1, <1>2, CommitKeepsCalls DEF AccountsInv
<1>6. clashed \subseteq clashed'
  BY <1>1, Ended DEF AccountsInv
<1>7. UsersKept'
  BY <1>1, <1>6 DEF AccountsInv, UsersKept, UserKept
<1> QED
  BY <1>3, <1>4, <1>5, <1>7 DEF AccountsInv

\* Every step keeps the invariant.
LEMMA AccountsStep == AccountsInv /\ [AccountsNext]_accountVars => AccountsInv'
<1> SUFFICES ASSUME AccountsInv, [AccountsNext]_accountVars
             PROVE  AccountsInv'
  OBVIOUS
<1>1. ASSUME NEW q \in AccountRequests, NEW u \in AccountUsers,
             \/ SetupReads(q, u) \/ EnableReads(q, u) \/ DisableReads(q, u) \/ PrefsRead(q, u)
             \/ \E v \in AccountUsers :
                   \/ \E active, super \in BOOLEAN : UpdateReads(q, u, v, active, super)
                   \/ DeleteReads(q, u, v)
                   \/ ResetReads(q, u, v)
             \/ \E a \in Abbreviations :
                   \/ SuggestReads(q, u, a)
                   \/ \E active \in BOOLEAN : EditReads(q, u, a, active)
             \/ \E h \in Homes : DefaultReads(q, h)
      PROVE  AccountsInv'
  <2>1. \E call \in CallStates : Begins(q, call)
    BY <1>1, ReadsBegin DEF AccountsInv
  <2> QED
    BY <2>1, RequestKeepsAccounts
<1>2. ASSUME NEW q \in AccountRequests,
             SetupCommits(q) \/ EnableCommits(q) \/ DisableCommits(q) \/ PrefsCommit(q)
             \/ UpdateCommits(q) \/ ResetCommits(q)
      PROVE  AccountsInv'
  BY <1>2, RequestKeepsAccounts
<1>3. ASSUME NEW q \in AccountRequests,
             DeleteCommits(q) \/ DefaultCommits(q) \/ SuggestCommits(q) \/ EditCommits(q)
      PROVE  AccountsInv'
  BY <1>3, DeleteKeepsAccounts, DefaultKeepsAccounts, ShortFormsChange
<1>4. ASSUME NEW q \in AccountRequests, CallFails(q)
      PROVE  AccountsInv'
  <2> DEFINE over == [IdleCall EXCEPT !.at = "over"]
  <2>1. over \in CallStates /\ over.at = "over" /\ over.topic = "none"
    BY OverCall
  <2>2. /\ calls' = [calls EXCEPT ![q] = over]
        /\ UNCHANGED <<accounts, defaults, shortForms, proven, promoted, steppedDown, stored,
                        activated, clashed>>
    BY <1>4 DEF CallFails
  <2> HIDE DEF over
  <2>3. AccountsTypeOK'
    BY <2>1, <2>2 DEF AccountsInv, AccountsTypeOK
  <2>4. Rightful(over, proven) /\ Current(over, accounts, defaults)
    BY <2>1 DEF Rightful, Current
  <2>5. ASSUME NEW r \in AccountRequests
        PROVE  calls'[r] \in {calls[r], over}
    BY <2>2 DEF AccountsInv, AccountsTypeOK
  <2>6. CallsKnow'
    BY <2>2, <2>4, <2>5 DEF AccountsInv, CallsKnow
  <2> QED
    BY <2>2, <2>3, <2>6 DEF AccountsInv, UsersKept, UserKept, ShortFormsKept
<1>5. ASSUME NEW u \in AccountUsers, NEW a \in Abbreviations, DeleteShortForm(u, a)
      PROVE  AccountsInv'
  <2> DEFINE new == [shortForms[a] EXCEPT !.at = "gone"]
  <2>1. /\ shortForms' = [shortForms EXCEPT ![a] = new]
        /\ UNCHANGED <<accounts, defaults, calls, proven, promoted, steppedDown, stored,
                        activated, clashed>>
    BY <1>5 DEF DeleteShortForm, AccountsInv, AccountsTypeOK
  <2>2. new \in ShortFormRows /\ new.at = "gone"
    BY DEF AccountsInv, AccountsTypeOK, ShortFormRows
  <2> HIDE DEF new
  <2>3. AccountsTypeOK' /\ ShortFormsKept'
    BY <2>1, <2>2 DEF AccountsInv, AccountsTypeOK, ShortFormsKept
  <2> QED
    BY <2>1, <2>3 DEF AccountsInv, CallsKnow, UsersKept, UserKept
<1>6. CASE UNCHANGED accountVars
  BY <1>6 DEF accountVars, AccountsInv, AccountsTypeOK, CallsKnow, UsersKept, UserKept,
              ShortFormsKept
<1>7. CASE \E h \in Homes, q \in AccountRequests : DefaultReads(q, h)
  <2>1. PICK u \in AccountUsers : TRUE
    BY AccountsAssumption
  <2> QED
    BY <1>1, <1>7
<1> QED
  BY <1>1, <1>2, <1>3, <1>4, <1>5, <1>6, <1>7 DEF AccountsNext

\* In every reachable state accounts are well typed and kept: whatever requests
\* overlap and fail, and however many.
THEOREM AccountsKept == AccountsSpec => [](AccountsTypeOK /\ AccountsAreKept)
<1>1. AccountsInit => AccountsInv
  <2> SUFFICES ASSUME AccountsInit
               PROVE  AccountsInv
    OBVIOUS
  <2>1. ASSUME NEW u \in AccountUsers
        PROVE  /\ FreshAccount(u) \in AccountRows
               /\ ~FreshAccount(u).twofa /\ FreshAccount(u).there /\ FreshAccount(u).active
               /\ u \in FirstSuperadmins => FreshAccount(u).super
               /\ FreshAccount(u).password = "own" /\ FreshAccount(u).prefs = {}
    <3> DEFINE super == u \in FirstSuperadmins
    <3>1. super \in BOOLEAN
      OBVIOUS
    <3>2. u \in FirstSuperadmins => super
      OBVIOUS
    <3>3. FreshAccount(u) =
             [there |-> TRUE, active |-> TRUE, super |-> super,
              secret |-> NoSecret, twofa |-> FALSE, prefs |-> {}, password |-> "own"]
      BY DEF FreshAccount
    <3> HIDE DEF super
    <3> QED
      BY <3>1, <3>2, <3>3 DEF AccountRows
  <2>2. /\ accounts \in [AccountUsers -> AccountRows]
        /\ \A u \in AccountUsers : accounts[u] = FreshAccount(u)
    BY <2>1 DEF AccountsInit
  <2>3. /\ shortForms \in [Abbreviations -> ShortFormRows]
        /\ \A a \in Abbreviations : shortForms[a].at = "unknown"
    <3>1. AnyUser \in AccountUsers
      BY AccountsAssumption DEF AnyUser
    <3> QED
      BY <3>1 DEF AccountsInit, ShortFormRows
  <2>4. calls = [q \in AccountRequests |-> IdleCall]
    BY DEF AccountsInit
  <2>5. AccountsTypeOK
    BY <2>2, <2>3, <2>4, IdleCallTyped, AccountsAssumption DEF AccountsInit, AccountsTypeOK
  <2>6. IdleCall.at = "idle" /\ IdleCall.topic = "none"
    BY DEF IdleCall
  <2>7. CallsKnow
    BY <2>4, <2>6 DEF CallsKnow, Rightful, Current
  <2>8. UsersKept
    <3>1. /\ clashed = {} /\ promoted = {} /\ defaults = FirstDefaults
          /\ \A u \in AccountUsers : stored[u] = {}
      BY DEF AccountsInit
    <3>2. ASSUME NEW u \in AccountUsers
          PROVE  UserKept(u)
      <4>1. \A g, h \in defaults : HomeOwner[g] = u /\ HomeOwner[h] = u => g = h
        BY <3>1, AccountsAssumption
      <4> QED
        BY <2>1, <2>2, <3>1, <4>1 DEF UserKept
    <3> QED
      BY <3>2 DEF UsersKept
  <2> QED
    BY <2>3, <2>5, <2>7, <2>8 DEF AccountsInv, ShortFormsKept
<1>2. AccountsInv => AccountsTypeOK /\ AccountsAreKept
  BY DEF AccountsInv, UsersKept, UserKept, ShortFormsKept, AccountsAreKept, CanSignIn
<1> QED
  BY <1>1, <1>2, AccountsStep, PTL DEF AccountsSpec

-----------------------------------------------------------------------------
(* Starts of API processes.                                                *)

Done == [status |-> "current", flags |-> "true", markdown |-> "object"]

\* A start that found the schema complete leaves no legacy status, and none
\* comes back; once any start has migrated, every workspace has a visibility.
MigratedOnce ==
    \A b \in Starts :
       /\ start[b].upgraded => schema.tables /\ schema.enum /\ start[b].tables
       /\ start[b].at \notin {"idle", "create", "down"} =>
             /\ start[b].upgraded => \A d \in StartDocuments : document[d].status # "legacy"
             /\ \A s \in StartSpaces : space[s].there => space[s].visibility # "missing"

\* What the start read of the administrator is there still, or more.
AdminEnsured ==
    \A b \in Starts :
       /\ start[b].at = "ensure" =>
             /\ start[b].saw.there => admin.there
             /\ start[b].saw.active => admin.active \/ start[b].changed
             /\ start[b].saw.super => admin.super
       /\ start[b].at \in {"publish", "columns", "serving"} /\ "admin" \notin start[b].failed =>
             admin.there /\ (admin = EnsuredAdmin \/ start[b].changed)

SpacesKept ==
    /\ \A b \in Starts :
          start[b].at \in {"columns", "serving"} /\ "publish" \notin start[b].failed =>
             \A s \in StartSpaces : Ownerless(space[s]) => chosen[s] = "personal"
    /\ \A s \in StartSpaces : space[s].owned =>
          space[s].there /\ space[s].visibility = chosen[s] /\ chosen[s] \in Visibilities

StartupInv ==
    /\ StartupTypeOK
    /\ MigratedOnce
    /\ AdminEnsured
    /\ SpacesKept
    /\ \A d \in finished : document[d] = Done

\* What the statements of a start make of a document's row.
LEMMA DocumentUpgraded ==
  ASSUME NEW b, NEW row \in DocumentRows
  PROVE  LET new == StatusMigrated(b, DocumentColumns(row))
         IN  /\ new \in DocumentRows
             /\ new.status = "legacy" => row.status = "legacy" /\ ~StatusesUsable(b)
             /\ row = Done => new = Done
<1> DEFINE flags == IF row.status # "none" /\ row.flags = "missing" THEN "false" ELSE row.flags
           markdown == IF row.markdown = "column" THEN "nowhere" ELSE row.markdown
           status == IF row.status = "legacy" /\ StatusesUsable(b) THEN "current" ELSE row.status
           flagged == [row EXCEPT !.flags = flags]
           kept == [flagged EXCEPT !.markdown = markdown]
           new == [kept EXCEPT !.status = status]
<1>1. StatusMigrated(b, DocumentColumns(row)) = new
  BY DEF StatusMigrated, DocumentColumns
<1>2. /\ flags \in {"missing", "false", "true"}
      /\ markdown \in {"column", "object", "nowhere"}
      /\ status \in {"none", "legacy", "current"}
      /\ status = "legacy" => row.status = "legacy" /\ ~StatusesUsable(b)
  BY DEF DocumentRows
<1> HIDE DEF flags, markdown, status
<1>3. new = [status |-> status, flags |-> flags, markdown |-> markdown]
  <2>1. flagged = [status |-> row.status, flags |-> flags, markdown |-> row.markdown]
    BY DEF DocumentRows
  <2> HIDE DEF flagged
  <2>2. kept = [status |-> row.status, flags |-> flags, markdown |-> markdown]
    BY <2>1
  <2> HIDE DEF kept
  <2> QED
    BY <2>2
<1>4. row = Done => flags = "true" /\ markdown = "object" /\ status = "current"
  BY DEF Done, flags, markdown, status
<1> HIDE DEF new, kept, flagged
<1> QED
  BY <1>1, <1>2, <1>3, <1>4 DEF DocumentRows, Done

\* And of a workspace's.
LEMMA SpaceUpgraded ==
  ASSUME NEW row \in SpaceRows
  PROVE  /\ SpaceColumns(row) \in SpaceRows
         /\ SpaceColumns(row).there = row.there
         /\ SpaceColumns(row).owned = row.owned
         /\ SpaceColumns(row).visibility =
              IF row.there /\ row.visibility = "missing" THEN "personal" ELSE row.visibility
BY DEF SpaceColumns, SpaceRows, Visibilities

\* The administrator that is ensured is there, active and a superadmin.
LEMMA AdminEnsuredBy == \A r \in AdminRows : r = EnsuredAdmin <=> r.there /\ r.active /\ r.super
BY DEF AdminRows, EnsuredAdmin

\* Where a start is may change without the rest of its state.
LEMMA StartRow ==
  ASSUME NEW r \in StartStates,
         NEW at \in {"idle", "create", "buckets", "admin", "ensure", "publish", "columns",
                     "serving", "down"}
  PROVE  [r EXCEPT !.at = at] \in StartStates
BY DEF StartStates

\* And the states of all stay typed when one moves.
LEMMA StartMoves ==
  ASSUME StartupTypeOK, NEW b \in Starts,
         NEW at \in {"idle", "create", "buckets", "admin", "ensure", "publish", "columns",
                     "serving", "down"},
         To(b, at)
  PROVE  start' \in [Starts -> StartStates]
<1> DEFINE r == [start[b] EXCEPT !.at = at]
<1>1. r \in StartStates
  BY StartRow DEF StartupTypeOK
<1>2. start' = [start EXCEPT ![b] = r]
  BY DEF To
<1> QED
  BY <1>1, <1>2 DEF StartupTypeOK

\* Every step is well typed.
LEMMA StartupTypes == StartupTypeOK /\ [StartupNext]_startVars => StartupTypeOK'
<1> SUFFICES ASSUME StartupTypeOK, [StartupNext]_startVars
             PROVE  StartupTypeOK'
  OBVIOUS
<1>1. ASSUME NEW b \in Starts, LooksForTables(b)
      PROVE  StartupTypeOK'
  <2> DEFINE r == [start[b] EXCEPT !.at = "create"]
             s == [r EXCEPT !.tables = schema.tables]
             t == [s EXCEPT !.upgraded = schema.tables /\ schema.enum /\ schema.users]
  <2>1. r \in StartStates
    BY StartRow DEF StartupTypeOK
  <2>2. s \in StartStates
    BY <2>1 DEF StartStates, StartupTypeOK
  <2>3. t \in StartStates
    BY <2>2 DEF StartStates, StartupTypeOK
  <2>4. start' = [start EXCEPT ![b] = t]
    BY <1>1 DEF LooksForTables
  <2> HIDE DEF t
  <2> QED
    BY <1>1, <2>3, <2>4 DEF LooksForTables, StartupTypeOK
<1>2. ASSUME NEW b \in Starts, Migrates(b)
      PROVE  StartupTypeOK'
  <2>1. document' \in [StartDocuments -> DocumentRows]
    BY <1>2, DocumentUpgraded DEF Migrates, StartupTypeOK
  <2>2. space' \in [StartSpaces -> SpaceRows]
    BY <1>2, SpaceUpgraded DEF Migrates, StartupTypeOK
  <2>3. message' \in [StartMessages -> {"none", "workspace", "nothing"}]
    BY <1>2 DEF Migrates, StartupTypeOK, MessageColumns
  <2>4. schema' \in [tables : BOOLEAN, keys : BOOLEAN, enum : BOOLEAN,
                     users : BOOLEAN, buckets : BOOLEAN]
    BY <1>2 DEF Migrates, StartupTypeOK
  <2>5. start' \in [Starts -> StartStates]
    BY <1>2, StartMoves DEF Migrates
  <2> QED
    BY <1>2, <2>1, <2>2, <2>3, <2>4, <2>5 DEF Migrates, StartupTypeOK
<1>3. ASSUME NEW b \in Starts,
             MigrationFails(b) \/ EnsureBuckets(b) \/ AddUserColumns(b) \/ ShutDown(b)
      PROVE  StartupTypeOK'
  <2>1. schema' \in [tables : BOOLEAN, keys : BOOLEAN, enum : BOOLEAN,
                     users : BOOLEAN, buckets : BOOLEAN]
    BY <1>3 DEF MigrationFails, EnsureBuckets, AddUserColumns, ShutDown, StartupTypeOK
  <2>2. start' \in [Starts -> StartStates]
    BY <1>3, StartMoves DEF MigrationFails, EnsureBuckets, AddUserColumns, ShutDown
  <2> QED
    BY <1>3, <2>1, <2>2
       DEF MigrationFails, EnsureBuckets, AddUserColumns, ShutDown, StartupTypeOK
<1>4. ASSUME NEW b \in Starts, AdminReads(b)
      PROVE  StartupTypeOK'
  <2> DEFINE r == [start[b] EXCEPT !.at = "ensure"]
             s == [r EXCEPT !.saw = admin]
             t == [s EXCEPT !.changed = FALSE]
  <2>1. r \in StartStates
    BY StartRow DEF StartupTypeOK
  <2>2. s \in StartStates
    BY <2>1 DEF StartStates, StartupTypeOK
  <2>3. t \in StartStates
    BY <2>2 DEF StartStates
  <2>4. start' = [start EXCEPT ![b] = t]
    BY <1>4 DEF AdminReads, StartupTypeOK
  <2>5. UNCHANGED <<schema, document, space, message, admin, finished, chosen>>
    BY <1>4 DEF AdminReads
  <2> HIDE DEF t
  <2> QED
    BY <2>3, <2>4, <2>5 DEF StartupTypeOK
<1>5. ASSUME NEW b \in Starts, AdminCommits(b)
      PROVE  StartupTypeOK'
  <2>1. admin' \in AdminRows
    BY <1>5 DEF AdminCommits, Ensured, EnsuredAdmin, AdminRows, StartupTypeOK
  <2>2. start' \in [Starts -> StartStates]
    BY <1>5, StartMoves DEF AdminCommits
  <2> QED
    BY <1>5, <2>1, <2>2 DEF AdminCommits, StartupTypeOK
<1>6. ASSUME NEW b \in Starts, PublishOwnerless(b)
      PROVE  StartupTypeOK'
  <2>1. ASSUME NEW s \in StartSpaces
        PROVE  [space[s] EXCEPT !.visibility = "public"] \in SpaceRows
    BY DEF StartupTypeOK, SpaceRows, Visibilities
  <2>2. space' \in [StartSpaces -> SpaceRows]
    BY <1>6, <2>1 DEF PublishOwnerless, StartupTypeOK
  <2>3. start' \in [Starts -> StartStates]
    BY <1>6, StartMoves DEF PublishOwnerless
  <2> QED
    BY <1>6, <2>2, <2>3 DEF PublishOwnerless, StartupTypeOK
<1>7. ASSUME NEW b \in Starts, StepFails(b)
      PROVE  StartupTypeOK'
  <2>1. PICK at \in {"admin", "publish", "columns", "serving"},
             failed \in SUBSET {"admin", "publish"} :
                start' = [start EXCEPT ![b].at = at, ![b].failed = @ \cup failed]
    <3>1. PICK step \in {<<"buckets", "admin", {}>>, <<"admin", "publish", {"admin"}>>,
                         <<"ensure", "publish", {"admin"}>>,
                         <<"publish", "columns", {"publish"}>>,
                         <<"columns", "serving", {}>>} :
                start' = [start EXCEPT ![b].at = step[2], ![b].failed = @ \cup step[3]]
      BY <1>7 DEF StepFails
    <3>2. /\ step[2] \in {"admin", "publish", "columns", "serving"}
          /\ step[3] \in SUBSET {"admin", "publish"}
      OBVIOUS
    <3> QED
      BY <3>1, <3>2
  <2> DEFINE r == [start[b] EXCEPT !.at = at]
             s == [r EXCEPT !.failed = start[b].failed \cup failed]
  <2>2. r \in StartStates
    BY StartRow DEF StartupTypeOK
  <2>3. s \in StartStates
    BY <2>2 DEF StartStates, StartupTypeOK
  <2>4. start' = [start EXCEPT ![b] = s]
    BY <2>1 DEF StartupTypeOK
  <2>5. UNCHANGED <<schema, document, space, message, admin, finished, chosen>>
    BY <1>7 DEF StepFails
  <2> HIDE DEF s
  <2> QED
    BY <2>3, <2>4, <2>5 DEF StartupTypeOK
<1>8. ASSUME NEW d \in StartDocuments, IndexDocument(d)
      PROVE  StartupTypeOK'
  BY <1>8 DEF IndexDocument, StartupTypeOK, DocumentRows
<1>9. ASSUME NEW s \in StartSpaces, NEW visibility \in Visibilities,
             CreateSpace(s, visibility) \/ SetVisibility(s, visibility)
      PROVE  StartupTypeOK'
  <2>1. /\ [there |-> TRUE, owned |-> TRUE, visibility |-> visibility] \in SpaceRows
        /\ [space[s] EXCEPT !.visibility = visibility] \in SpaceRows
    BY DEF SpaceRows, StartupTypeOK
  <2>2. CASE CreateSpace(s, visibility)
    BY <2>1, <2>2 DEF CreateSpace, StartupTypeOK
  <2>3. CASE SetVisibility(s, visibility)
    <3> DEFINE r == [space[s] EXCEPT !.visibility = visibility]
    <3>1. space' = [space EXCEPT ![s] = r]
      BY <2>3 DEF SetVisibility, StartupTypeOK
    <3> HIDE DEF r
    <3> QED
      BY <2>1, <2>3, <3>1 DEF SetVisibility, StartupTypeOK, r
  <2> QED
    BY <1>9, <2>2, <2>3
<1>10. CASE DeactivateAdmin
  <2>1. admin' \in AdminRows
    BY <1>10 DEF DeactivateAdmin, StartupTypeOK, AdminRows
  <2> DEFINE moved(b) == [start[b] EXCEPT !.changed = TRUE]
  <2>2. ASSUME NEW b \in Starts
        PROVE  moved(b) \in StartStates
    <3>1. start[b] \in StartStates
      BY DEF StartupTypeOK
    <3> QED
      BY <3>1 DEF StartStates
  <2>3. start' = [b \in Starts |-> moved(b)]
    BY <1>10 DEF DeactivateAdmin
  <2>4. start' \in [Starts -> StartStates]
    <3> HIDE DEF moved
    <3> QED
      BY <2>2, <2>3
  <2> QED
    BY <1>10, <2>1, <2>4 DEF DeactivateAdmin, StartupTypeOK
<1>11. CASE UNCHANGED startVars
  BY <1>11 DEF startVars, StartupTypeOK
<1> QED
  BY <1>1, <1>2, <1>3, <1>4, <1>5, <1>6, <1>7, <1>8, <1>9, <1>10, <1>11 DEF StartupNext
\* Every step of a start, and of those it serves, keeps all of it.
LEMMA StartupStep == StartupInv /\ [StartupNext]_startVars => StartupInv'
<1> SUFFICES ASSUME StartupInv, [StartupNext]_startVars
             PROVE  StartupInv'
  OBVIOUS
<1>0. StartupTypeOK'
  BY StartupTypes DEF StartupInv
<1> USE <1>0 DEF StartupInv, StartupTypeOK, AdminRows, DocumentRows, SpaceRows, StartStates,
            Visibilities
<1>1. ASSUME NEW b \in Starts, LooksForTables(b)
      PROVE  StartupInv'
  <2> USE <1>1 DEF LooksForTables
  <2>2. MigratedOnce'
    BY DEF MigratedOnce
  <2>3. AdminEnsured'
    BY DEF AdminEnsured
  <2>4. SpacesKept'
    BY DEF SpacesKept, Ownerless
  <2>5. \A e \in finished' : document'[e] = Done
    BY DEF Done
  <2> QED
    BY <2>2, <2>3, <2>4, <2>5
<1>2. ASSUME NEW b \in Starts, Migrates(b)
      PROVE  StartupInv'
  <2>1. /\ \A d \in StartDocuments :
              /\ document'[d].status = "legacy" =>
                    document[d].status = "legacy" /\ ~StatusesUsable(b)
              /\ document[d] = Done => document'[d] = Done
        /\ \A s \in StartSpaces :
              /\ space'[s].there = space[s].there
              /\ space'[s].owned = space[s].owned
              /\ space'[s].visibility = IF space[s].there /\ space[s].visibility = "missing"
                                        THEN "personal" ELSE space[s].visibility
    BY <1>2, DocumentUpgraded, SpaceUpgraded DEF Migrates
  <2>2. /\ start' = [start EXCEPT ![b].at = "buckets"]
        /\ start[b].at = "create" /\ start[b].tables = schema.tables
        /\ schema'.tables /\ schema'.enum
        /\ UNCHANGED <<admin, finished, chosen>>
    BY <1>2 DEF Migrates, To
  <2>3. MigratedOnce'
    <3>1. \A c \in Starts : /\ start'[c].upgraded = start[c].upgraded
                             /\ start'[c].tables = start[c].tables
                             /\ c # b => start'[c].at = start[c].at
      BY <2>2
    <3>2. \A s \in StartSpaces : space'[s].there => space'[s].visibility # "missing"
      BY <2>1
    <3>3. start[b].upgraded => \A d \in StartDocuments : document'[d].status # "legacy"
      BY <2>1, <2>2 DEF MigratedOnce, StatusesUsable
    <3> QED
      BY <2>1, <2>2, <3>1, <3>2, <3>3 DEF MigratedOnce
  <2>4. AdminEnsured'
    BY <2>2 DEF AdminEnsured
  <2>5. SpacesKept'
    <3>1. /\ start'[b].at = "buckets"
          /\ \A c \in Starts \ {b} : start'[c] = start[c]
      BY <2>2
    <3>2. ASSUME NEW c \in Starts, start'[c].at \in {"columns", "serving"},
                 "publish" \notin start'[c].failed,
                 NEW s \in StartSpaces, Ownerless(space[s])'
          PROVE  chosen'[s] = "personal"
      <4>1. c # b /\ start[c] = start'[c]
        BY <3>1, <3>2
      <4>2. space[s].there => space[s].visibility # "missing"
        BY <3>2, <4>1 DEF MigratedOnce
      <4>3. Ownerless(space[s])
        BY <2>1, <3>2, <4>2 DEF Ownerless
      <4> QED
        BY <2>2, <3>2, <4>1, <4>3 DEF SpacesKept
    <3>3. ASSUME NEW s \in StartSpaces, space'[s].owned
          PROVE  space'[s].there /\ space'[s].visibility = chosen'[s] /\ chosen'[s] \in Visibilities
      BY <2>1, <2>2, <3>3 DEF SpacesKept, Visibilities
    <3> QED
      BY <3>2, <3>3 DEF SpacesKept
  <2>6. \A d \in finished' : document'[d] = Done
    BY <2>1, <2>2
  <2> QED
    BY <2>3, <2>4, <2>5, <2>6
<1>3. ASSUME NEW b \in Starts, MigrationFails(b)
      PROVE  StartupInv'
  <2> USE <1>3 DEF MigrationFails, To
  <2>2. MigratedOnce'
    BY DEF MigratedOnce
  <2>3. AdminEnsured'
    BY DEF AdminEnsured
  <2>4. SpacesKept'
    BY DEF SpacesKept, Ownerless
  <2>5. \A e \in finished' : document'[e] = Done
    BY DEF Done
  <2> QED
    BY <2>2, <2>3, <2>4, <2>5
<1>4. ASSUME NEW b \in Starts, EnsureBuckets(b)
      PROVE  StartupInv'
  <2> USE <1>4 DEF EnsureBuckets, To
  <2>2. MigratedOnce'
    BY DEF MigratedOnce
  <2>3. AdminEnsured'
    BY DEF AdminEnsured
  <2>4. SpacesKept'
    BY DEF SpacesKept, Ownerless
  <2>5. \A e \in finished' : document'[e] = Done
    BY DEF Done
  <2> QED
    BY <2>2, <2>3, <2>4, <2>5
<1>5. ASSUME NEW b \in Starts, AdminReads(b)
      PROVE  StartupInv'
  <2> USE <1>5 DEF AdminReads
  <2>2. MigratedOnce'
    BY DEF MigratedOnce
  <2>3. AdminEnsured'
    BY DEF AdminEnsured
  <2>4. SpacesKept'
    BY DEF SpacesKept, Ownerless
  <2>5. \A e \in finished' : document'[e] = Done
    BY DEF Done
  <2> QED
    BY <2>2, <2>3, <2>4, <2>5
<1>6. ASSUME NEW b \in Starts, AdminCommits(b)
      PROVE  StartupInv'
  <2> USE <1>6 DEF AdminCommits, To
  <2>2. MigratedOnce'
    BY DEF MigratedOnce
  <2>3. AdminEnsured'
    <3>1. /\ admin'.there
          /\ admin.active => admin'.active
          /\ admin.super => admin'.super
          /\ start[b].saw.active /\ ~start[b].changed => admin'.active
          /\ ~start[b].saw.active => admin'.active
          /\ admin'.super
      BY DEF Ensured, EnsuredAdmin, AdminEnsured
    <3> QED
      BY <3>1, AdminEnsuredBy DEF AdminEnsured
  <2>4. SpacesKept'
    BY DEF SpacesKept, Ownerless
  <2> QED
    BY <2>2, <2>3, <2>4
<1>7. ASSUME NEW b \in Starts, PublishOwnerless(b)
      PROVE  StartupInv'
  <2> USE <1>7 DEF PublishOwnerless, To
  <2>2. MigratedOnce'
    BY DEF MigratedOnce
  <2>3. AdminEnsured'
    BY DEF AdminEnsured
  <2>4. SpacesKept'
    BY DEF SpacesKept, Ownerless
  <2> QED
    BY <2>2, <2>3, <2>4
<1>8. ASSUME NEW b \in Starts, AddUserColumns(b)
      PROVE  StartupInv'
  <2> USE <1>8 DEF AddUserColumns, To
  <2>2. MigratedOnce'
    BY DEF MigratedOnce
  <2>3. AdminEnsured'
    BY DEF AdminEnsured
  <2>4. SpacesKept'
    BY DEF SpacesKept, Ownerless
  <2>5. \A e \in finished' : document'[e] = Done
    BY DEF Done
  <2> QED
    BY <2>2, <2>3, <2>4, <2>5
<1>9. ASSUME NEW b \in Starts, StepFails(b)
      PROVE  StartupInv'
  <2> USE <1>9 DEF StepFails
  <2>2. MigratedOnce'
    BY DEF MigratedOnce
  <2>3. AdminEnsured'
    BY DEF AdminEnsured
  <2>4. SpacesKept'
    BY DEF SpacesKept, Ownerless
  <2> QED
    BY <2>2, <2>3, <2>4
<1>10. ASSUME NEW b \in Starts, ShutDown(b)
       PROVE  StartupInv'
  <2> USE <1>10 DEF ShutDown, To
  <2>2. MigratedOnce'
    BY DEF MigratedOnce
  <2>3. AdminEnsured'
    BY DEF AdminEnsured
  <2>4. SpacesKept'
    BY DEF SpacesKept, Ownerless
  <2>5. \A e \in finished' : document'[e] = Done
    BY DEF Done
  <2> QED
    BY <2>2, <2>3, <2>4, <2>5
<1>11. ASSUME NEW d \in StartDocuments, IndexDocument(d)
       PROVE  StartupInv'
  <2> USE <1>11 DEF IndexDocument
  <2>2. MigratedOnce'
    BY DEF MigratedOnce
  <2>3. AdminEnsured'
    BY DEF AdminEnsured
  <2>4. SpacesKept'
    BY DEF SpacesKept, Ownerless
  <2>5. \A e \in finished' : document'[e] = Done
    BY DEF Done
  <2> QED
    BY <2>2, <2>3, <2>4, <2>5
<1>12. ASSUME NEW s \in StartSpaces, NEW visibility \in Visibilities,
              CreateSpace(s, visibility) \/ SetVisibility(s, visibility)
       PROVE  StartupInv'
  <2>1. /\ \A t \in StartSpaces \ {s} : space'[t] = space[t] /\ chosen'[t] = chosen[t]
        /\ space'[s].there /\ space'[s].visibility = visibility /\ chosen'[s] = visibility
        /\ UNCHANGED <<schema, document, message, admin, start, finished>>
    BY <1>12 DEF CreateSpace, SetVisibility, StartupTypeOK, SpaceRows
  <2>2. MigratedOnce'
    <3>1. ASSUME NEW t \in StartSpaces, space[t].there => space[t].visibility # "missing"
          PROVE  space'[t].there => space'[t].visibility # "missing"
      BY <2>1, <3>1 DEF Visibilities
    <3> QED
      BY <2>1, <3>1 DEF MigratedOnce
  <2>3. AdminEnsured'
    BY <2>1 DEF AdminEnsured
  <2>4. SpacesKept'
    <3>1. ASSUME NEW t \in StartSpaces
          PROVE  Ownerless(space[t])' /\ chosen[t] = "personal" => chosen'[t] = "personal"
      BY <2>1 DEF Ownerless
    <3>2. ASSUME NEW t \in StartSpaces, Ownerless(space[t])'
          PROVE  Ownerless(space[t]) \/ chosen'[t] = "personal"
      BY <2>1, <3>2 DEF Ownerless
    <3> QED
      BY <2>1, <3>1, <3>2 DEF SpacesKept
  <2> QED
    BY <2>1, <2>2, <2>3, <2>4
<1>13. CASE DeactivateAdmin
  <2>1. \A b \in Starts : /\ start'[b].at = start[b].at
                            /\ start'[b].tables = start[b].tables
                            /\ start'[b].upgraded = start[b].upgraded
                            /\ start'[b].saw = start[b].saw
                            /\ start'[b].changed
                            /\ start'[b].failed = start[b].failed
    BY <1>13 DEF DeactivateAdmin
  <2>2. /\ admin'.there = admin.there
        /\ admin'.super = admin.super
        /\ UNCHANGED <<schema, document, space, message, finished, chosen>>
    BY <1>13 DEF DeactivateAdmin
  <2>3. MigratedOnce'
    BY <2>1, <2>2 DEF MigratedOnce
  <2>4. AdminEnsured'
    BY <2>1, <2>2 DEF AdminEnsured
  <2>5. SpacesKept'
    BY <2>1, <2>2 DEF SpacesKept, Ownerless
  <2> QED
    BY <2>2, <2>3, <2>4, <2>5
<1>14. CASE UNCHANGED startVars
  BY <1>14 DEF startVars, MigratedOnce, AdminEnsured, SpacesKept, Ownerless
<1> QED
  BY <1>1, <1>2, <1>3, <1>4, <1>5, <1>6, <1>7, <1>8, <1>9, <1>10, <1>11, <1>12, <1>13, <1>14
     DEF StartupNext

\* In every reachable state the schema and its rows are well typed, and starts
\* upgrade in place: whatever the number of starts, their interleaving and the
\* steps that fail.
THEOREM StartsUpgrade == StartupSpec => [](StartupTypeOK /\ StartsUpgradeInPlace)
<1>1. StartupInit => StartupInv
  <2> SUFFICES ASSUME StartupInit
               PROVE  StartupInv
    OBVIOUS
  <2>1. /\ schema \in [tables : BOOLEAN, keys : BOOLEAN, enum : BOOLEAN,
                       users : BOOLEAN, buckets : BOOLEAN]
        /\ document \in [StartDocuments -> DocumentRows]
        /\ message \in [StartMessages -> {"none", "workspace", "nothing"}]
    BY DEF StartupInit, DocumentRows
  <2>2. space \in [StartSpaces -> SpaceRows] /\ \A s \in StartSpaces : ~space[s].owned
    BY DEF StartupInit, SpaceRows
  <2>3. admin \in AdminRows
    <3>1. PICK legacy \in BOOLEAN :
             admin \in {NoAdmin, [there |-> legacy, active |-> FALSE, super |-> FALSE]}
      BY DEF StartupInit
    <3>2. /\ NoAdmin \in AdminRows
          /\ [there |-> legacy, active |-> FALSE, super |-> FALSE] \in AdminRows
      BY DEF AdminRows, NoAdmin
    <3> QED
      BY <3>1, <3>2
  <2>4. /\ start \in [Starts -> StartStates]
        /\ \A b \in Starts : start[b].at = "idle" /\ ~start[b].upgraded
    BY DEF StartupInit, StartStates, AdminRows, NoAdmin
  <2>5. finished = {} /\ chosen \in [StartSpaces -> Visibilities \cup {"missing"}]
    BY DEF StartupInit
  <2> QED
    BY <2>1, <2>2, <2>3, <2>4, <2>5
       DEF StartupInv, StartupTypeOK, MigratedOnce, AdminEnsured, SpacesKept
<1>2. StartupInv => StartupTypeOK /\ StartsUpgradeInPlace
  BY DEF StartupInv, MigratedOnce, AdminEnsured, SpacesKept, Done, StartsUpgradeInPlace
<1> QED
  BY <1>1, <1>2, StartupStep, PTL DEF StartupSpec

-----------------------------------------------------------------------------
(* Side by side.                                                           *)

\* A step is a step of one part; the others stutter.
LEMMA PartsStep ==
    [RequestsNext]_requestsVars =>
        /\ [ChatNext]_chatVars
        /\ [DocumentsNext]_documentsVars
        /\ [DeadLettersNext]_deadLetterVars
        /\ [ValidityNext]_validityVars
        /\ [SearchIndexNext]_indexVars
        /\ [KnowledgeGraphNext]_knowledgeGraphVars
        /\ [MembershipNext]_memberVars
        /\ [ReactLoopNext]_reactVars
        /\ [DocumentTypesNext]_typeVars
        /\ [AccountsNext]_accountVars
        /\ [StartupNext]_startVars
BY DEF RequestsNext, requestsVars, Step

\* Side by side every part does what it does by itself.
THEOREM RequestsContainParts ==
    RequestsSpec => /\ ChatSpec /\ DocumentsSpec /\ DeadLettersSpec /\ ValiditySpec
                    /\ SearchIndexSpec
                    /\ KnowledgeGraphSpec
                    /\ MembershipSpec
                    /\ ReactLoopSpec
                    /\ DocumentTypesSpec /\ AccountsSpec /\ StartupSpec
<1>1. RequestsInit => /\ ChatInit /\ DocumentsInit /\ DeadLettersInit /\ ValidityInit
                      /\ SearchIndexInit /\ KnowledgeGraphInit /\ MembershipInit
                      /\ ReactLoopInit /\ DocumentTypesInit /\ AccountsInit /\ StartupInit
  BY DEF RequestsInit
<1> QED BY <1>1, PartsStep, PTL DEF RequestsSpec, ChatSpec, DocumentsSpec, DeadLettersSpec,
           ValiditySpec, SearchIndexSpec, KnowledgeGraphSpec, MembershipSpec, ReactLoopSpec,
           DocumentTypesSpec, AccountsSpec, StartupSpec

\* Every reachable state of the whole is well typed.
THEOREM RequestsTyped == RequestsSpec => []RequestsTypeOK
BY RequestsContainParts, ChatTyped, DocumentsTyped, DeadLettersTyped, ValidityTyped,
   SearchIndexTyped, KnowledgeGraphIsTyped, MembershipTyped, AnswersAreHonest,
   PromptsAreKept, AccountsKept, StartsUpgrade, PTL
   DEF RequestsTypeOK

\* What is proved of the parts holds of the whole.
THEOREM RequestsKeepPromises ==
    RequestsSpec =>
       [](/\ RunsAccountedFor /\ DocumentsAccountedFor /\ DeadLettersAccountedFor
          /\ DeclarationsTakeEffect /\ AnswersFromRightSize /\ OwnershipIsExact
          /\ InviteUsesCapped /\ AnswerIsHonest
          /\ PromptsAreAsWritten /\ AccountsAreKept /\ StartsUpgradeInPlace)
BY RequestsContainParts, RunsAreAccountedFor, DocumentsAreAccountedFor,
   DeadLettersAreAccountedFor, DeclarationsDoTakeEffect, SearchesAnswerFromRightSize,
   OwnershipIsKept, InvitesAreCapped, AnswersAreHonest,
   PromptsAreKept, AccountsKept, StartsUpgrade, PTL
=============================================================================
