-------------------------------- MODULE Resolver --------------------------------
(***************************************************************************)
(* Which document does the user mean?  (services/agent/doc_resolver.py and *)
(* the tool resolve_document_reference.)  Four stages, each tried when     *)
(* those before it are dry - what a pattern finds in the question, what a  *)
(* model finds in it, the nearest chunks, similar titles - over a corpus   *)
(* that changes meanwhile; then the filter by the number that was named,   *)
(* the lift by topic, and the decision to answer, to ask or to give up.    *)
(*                                                                         *)
(* Scores are percentages.  A word stands for a keyword of a title, a      *)
(* kind for a type of document with the suffix its numbers carry.          *)
(***************************************************************************)
EXTENDS Naturals, FiniteSets, SequencesExt

CONSTANTS
    Titled,              \* documents
    KindOf,              \* [document |-> its kind]
    Exact,               \* [document |-> numbers whose full form is the document's]
    ContainedIn,          \* [document |-> numbers whose full form occurs in the document's]
    Bears,               \* [document |-> numbers that stand alone in its number or title]
    WordsOf,             \* [document |-> words of its title]
    Likeness,            \* [document |-> score of its nearest chunk]
    References,          \* questions: [kind, number, full, words, topic]
    NoKind, NoNumber,
    DbLimit,             \* the rows a query takes, in no order (10)
    MaxShown,            \* the candidates that are passed on (5)
    MaxResolveFaults,
    MaxTitleChanges

ASSUME ResolverAssumption ==
    /\ IsFiniteSet(Titled)
    /\ \A r \in References : IsFiniteSet(r.words) /\ IsFiniteSet(r.topic)
    /\ \A d \in Titled : Exact[d] \subseteq ContainedIn[d]
    /\ Likeness \in [Titled -> 0..100]
    /\ {DbLimit, MaxShown} \subseteq Nat \ {0}
    /\ {MaxResolveFaults, MaxTitleChanges} \subseteq Nat

VARIABLES
    row,                 \* [document |-> status of its row]
    asked,               \* the question, and the local variables of its resolution
    resolveFaults,
    titleChanges

resolverVars == <<row, asked, resolveFaults, titleChanges>>

Strategies == {"db_query", "vector"}
Candidates == [doc : Titled, score : 0..100, strategy : Strategies]
Named == {r.number : r \in References} \cup {NoNumber}
Words == UNION {r.words \cup r.topic : r \in References}

Nothing ==
    [phase |-> "idle", kind |-> NoKind, numbers |-> {}, number_raw |-> NoNumber,
     words |-> {}, topic |-> {}, candidates |-> {}, similar |-> {},
     matching0 |-> {}, unfiltered |-> FALSE, answer |-> "none", shown |-> <<>>,
     suggestion |-> FALSE]

\* matching0 and unfiltered are kept for the properties: the rows that matched
\* at first, and whether the lookup of the filter has failed.
AskedStates ==
    [ phase      : {"idle", "db", "llm", "db_again", "vector", "rank", "similar",
                    "present", "over"},
      kind       : {r.kind : r \in References} \cup {NoKind},
      numbers    : SUBSET Named,
      number_raw : Named,
      words      : SUBSET Words,
      topic      : SUBSET Words,
      candidates : SUBSET Candidates,
      similar    : SUBSET Titled,
      matching0  : SUBSET Titled,
      unfiltered : BOOLEAN,
      answer     : {"none", "resolved", "ask", "not_found", "similar"},
      shown      : Seq(Candidates),
      suggestion : BOOLEAN ]

ResolverTypeOK ==
    /\ row \in [Titled -> {"indexed", "building_kg", "gone"}]
    /\ asked \in AskedStates
    /\ Len(asked.shown) <= MaxShown
    /\ resolveFaults \in 0..MaxResolveFaults
    /\ titleChanges \in 0..MaxTitleChanges

ResolverInit ==
    /\ row \in [Titled -> {"indexed", "building_kg"}]
    /\ asked = Nothing
    /\ resolveFaults = 0
    /\ titleChanges = 0

-----------------------------------------------------------------------------
(* A stage that raises is logged and has found nothing.                    *)

StageWorks == resolveFaults' = resolveFaults
StageFails == resolveFaults < MaxResolveFaults /\ resolveFaults' = resolveFaults + 1

\* Meanwhile a document is deleted, or its graph is finished.
RowChanges(d) ==
    /\ titleChanges < MaxTitleChanges
    /\ \/ row[d] # "gone" /\ row' = [row EXCEPT ![d] = "gone"]
       \/ row[d] = "building_kg" /\ row' = [row EXCEPT ![d] = "indexed"]
    /\ titleChanges' = titleChanges + 1
    /\ UNCHANGED <<asked, resolveFaults>>

-----------------------------------------------------------------------------
(* The stages.                                                             *)

\* _generate_number_candidates: a number has full forms if it is given in full
\* or its kind is known.
NumberForms(r) == IF r.number # NoNumber /\ (r.full \/ r.kind # NoKind) THEN {r.number} ELSE {}

\* The rows that a query matches: by number, else by any word of the title.
Matches(q) ==
    {d \in Titled :
        /\ row[d] = "indexed"
        /\ q.kind \in {NoKind, KindOf[d]}
        /\ q.numbers # {} => q.numbers \cap ContainedIn[d] # {}
        /\ q.numbers = {} /\ q.words # {} => q.words \cap WordsOf[d] # {}}

AtMost100(n) == IF n > 100 THEN 100 ELSE n
Share(part, S) == IF S = {} THEN 0 ELSE (Cardinality(part \cap S) * 100) \div Cardinality(S)

DbScore(d, q) ==
    LET number == IF q.numbers \cap Exact[d] # {} THEN 95
                  ELSE IF q.numbers \cap ContainedIn[d] # {} THEN 70 ELSE 0
        kind == IF q.kind # NoKind THEN 25 ELSE 0
    IN  AtMost100(number + kind + Share(WordsOf[d], q.words) \div 4)

\* The rows that the limit leaves, scored.
Queried(q) ==
    {{[doc |-> d, score |-> DbScore(d, q), strategy |-> "db_query"] : d \in S} :
        S \in {S \in SUBSET Matches(q) :
                  IF Cardinality(Matches(q)) <= DbLimit THEN S = Matches(q)
                                                        ELSE Cardinality(S) = DbLimit}}

\* _extract_by_regex
ExtractByRegex ==
    /\ asked.phase = "idle"
    /\ \E r \in References :
          LET q == [Nothing EXCEPT !.phase = "db", !.kind = r.kind, !.number_raw = r.number,
                                   !.numbers = NumberForms(r),
                                   !.words = r.words, !.topic = r.topic]
          IN  asked' = [q EXCEPT !.matching0 = Matches(q)]
    /\ StageWorks
    /\ UNCHANGED <<row, titleChanges>>

\* _query_db, and where a dry stage leads.
Query(phase, next) ==
    /\ asked.phase = phase
    /\ \/ \E found \in Queried(asked) :
             asked' = [asked EXCEPT !.candidates = found,
                                    !.phase = IF found = {} THEN next ELSE "rank"]
          /\ StageWorks
       \/ asked' = [asked EXCEPT !.phase = next] /\ StageFails
    /\ UNCHANGED <<row, titleChanges>>

QueryDb == Query("db", "llm")
QueryDbAgain == Query("db_again", "vector")

\* The model reads the question again; what it finds is added to the pattern's
\* lists and fills its gaps, all but number_raw.
ExtractByLlm ==
    /\ asked.phase = "llm"
    /\ \/ \E r \in References :
             asked' = [asked EXCEPT
                 !.phase = "db_again",
                 !.numbers = @ \cup NumberForms(r),
                 !.words = @ \cup r.words,
                 !.kind = IF @ = NoKind THEN r.kind ELSE @]
          /\ StageWorks
       \/ asked' = [asked EXCEPT !.phase = "vector"] /\ StageFails
    /\ UNCHANGED <<row, titleChanges>>

\* The nearest chunks of the documents that have vectors, at four fifths.
VectorFallback ==
    /\ asked.phase = "vector"
    /\ \/ \E S \in SUBSET {d \in Titled : row[d] # "gone"} :
             asked' = [asked EXCEPT
                 !.phase = IF S = {} THEN "similar" ELSE "rank",
                 !.candidates = {[doc |-> d, score |-> (Likeness[d] * 4) \div 5,
                                  strategy |-> "vector"] : d \in S}]
          /\ StageWorks
       \/ asked' = [asked EXCEPT !.phase = "similar"] /\ StageFails
    /\ UNCHANGED <<row, titleChanges>>

\* The number as a word of its own; without its row, of the candidate's title.
BearsNumber(c, n) == n \in Bears[c.doc]

\* Mutant: when no candidate bears the number, all stay.
KeptAnyway(candidates, n) ==
    LET matching == {c \in candidates : BearsNumber(c, n)}
    IN  IF n = NoNumber \/ matching = {} THEN candidates ELSE matching

\* _rerank_candidates, 1: a document with another number is the wrong one.
NumberFiltered(candidates, n) ==
    IF n = NoNumber THEN candidates ELSE {c \in candidates : BearsNumber(c, n)}

\* _rerank_candidates, 2: a title about the question's topic is lifted.
TopicLifted(candidates, topic) ==
    {[c EXCEPT !.score = AtMost100(@ + (Share(WordsOf[c.doc], topic) * 3) \div 10)] : c \in candidates}

Rank ==
    /\ asked.phase = "rank"
    /\ \/ LET kept == TopicLifted(NumberFiltered(asked.candidates, asked.number_raw), asked.topic)
          IN  asked' = [asked EXCEPT !.candidates = kept,
                                     !.phase = IF kept = {} THEN "similar" ELSE "present"]
          /\ StageWorks
       \/ asked' = [asked EXCEPT !.phase = "present", !.unfiltered = TRUE] /\ StageFails
    /\ UNCHANGED <<row, titleChanges>>

\* _search_similar_documents: some rows with a word of the question in their title.
SearchSimilar ==
    /\ asked.phase = "similar"
    /\ \E S \in SUBSET {d \in Titled : row[d] = "indexed" /\ asked.words \cap WordsOf[d] # {}} :
          /\ Cardinality(S) <= MaxShown
          /\ asked' = [asked EXCEPT !.phase = "over", !.similar = S,
                                    !.answer = IF S = {} THEN "not_found" ELSE "similar"]
    /\ StageWorks
    /\ UNCHANGED <<row, titleChanges>>

-----------------------------------------------------------------------------
(* The decision (resolve_document_reference).                              *)

Ranked(S) ==
    {s \in SetToSeqs(S) : \A i, j \in DOMAIN s : i < j => s[i].score >= s[j].score}

\* _is_low_confidence_vector_match
MereGuess(top) == top.strategy = "vector" /\ top.score < 30

\* Two database hits, the second with three quarters of the first's score.
NearTied(s) ==
    /\ Len(s) > 1
    /\ s[1].strategy = "db_query"
    /\ 4 * s[2].score >= 3 * (IF s[1].score = 0 THEN 1 ELSE s[1].score)

\* _suggest_low_score_match: below 50 a model is asked for a hint.
HintAsked(top) == top.score < 50 /\ ~MereGuess(top)

\* The first candidates are passed on, for the answer to keep to.
Present ==
    /\ asked.phase = "present"
    /\ \E all \in Ranked(asked.candidates), hint \in BOOLEAN :
          LET s == SubSeq(all, 1, IF Len(all) < MaxShown THEN Len(all) ELSE MaxShown)
          IN  /\ hint => HintAsked(s[1])
              /\ IF HintAsked(s[1]) /\ ~hint THEN StageFails ELSE StageWorks
              /\ asked' = [asked EXCEPT
                     !.phase = "over",
                     !.answer = IF MereGuess(s[1]) THEN "not_found"
                                ELSE IF NearTied(s) THEN "ask" ELSE "resolved",
                     !.shown = IF MereGuess(s[1]) THEN <<>> ELSE s,
                     !.suggestion = hint]
    /\ UNCHANGED <<row, titleChanges>>

ResolverNext ==
    \/ \E d \in Titled : RowChanges(d)
    \/ ExtractByRegex
    \/ QueryDb
    \/ ExtractByLlm
    \/ QueryDbAgain
    \/ VectorFallback
    \/ Rank
    \/ SearchSimilar
    \/ Present

ResolverSpec == ResolverInit /\ [][ResolverNext]_resolverVars

-----------------------------------------------------------------------------
(* Properties.                                                             *)

Shown == {asked.shown[i].doc : i \in DOMAIN asked.shown}

\* A number that was named is the number of every candidate passed on, whatever
\* stage it comes from, unless the lookup of the filter failed.
NamedNumberIsKept ==
    asked.number_raw # NoNumber /\ ~asked.unfiltered =>
        \A d \in Shown : asked.number_raw \in Bears[d]

\* The user is asked to choose, or told that the document is found, only on the
\* word of the database or of a chunk that is near enough.
GuessesAreNotAsserted ==
    /\ asked.answer = "ask" => asked.shown[1].strategy = "db_query"
    /\ asked.answer = "resolved" => ~MereGuess(asked.shown[1])

\* A document that matched at first and bears the number that was named is among
\* the candidates, if no stage failed and neither limit cut it off: that of the
\* rows, and that of the candidates with this number.
NamedIsFound ==
    asked.phase = "over" /\ resolveFaults = 0 /\ titleChanges = 0
    /\ asked.number_raw # NoNumber
    /\ Cardinality(asked.matching0) <= DbLimit
    /\ Cardinality({d \in asked.matching0 : asked.number_raw \in Bears[d]}) <= MaxShown =>
        \A d \in asked.matching0 : asked.number_raw \in Bears[d] => d \in Shown

\* What is passed on is the document that was meant, or it is said to be unsure.
ResolutionIsSound == NamedNumberIsKept /\ GuessesAreNotAsserted /\ NamedIsFound
=============================================================================
