----------------------------- MODULE KnowledgeGraph -----------------------------
(***************************************************************************)
(* The graph of a workspace in Neo4j: services/kg/legal_kg_service.py as   *)
(* kg_worker, delete_document and update_document of the API use it.       *)
(* Documents share nodes and relations: each carries the documents that    *)
(* own it (document_ids) and goes with the last of them.  A node's anchor  *)
(* is its document_id, by which a later edit finds a document's root.      *)
(*                                                                         *)
(* An ingest and a deletion are sequences of statements, each committed by *)
(* itself.  A statement that appends to document_ids locks what it reads;  *)
(* the deletion's compute the owners that remain from what they have read, *)
(* so that reading and writing are two steps here.                         *)
(***************************************************************************)
EXTENDS Naturals, Sequences, FiniteSets, SequencesExt

CONSTANTS
    KgDocuments,    \* documents of the workspace
    KgEntities,     \* normalized entity ids
    KgLaws,         \* those of type Document: a document's own number is one
    RootOf,         \* [KgDocuments -> KgLaws]: document_number after parsing
    Mentions,       \* [KgDocuments -> Seq(KgEntities)]: what its text relates it to
    KgNodes,        \* node ids
    NoNode,
    MaxKgRequests   \* bound on deletions, edits, and what breaks

GraphNodes == [entity : KgEntities, anchor : KgDocuments, owners : Seq(KgDocuments)]

ASSUME KnowledgeGraphAssumption ==
    /\ KgLaws \subseteq KgEntities
    /\ RootOf \in [KgDocuments -> KgLaws]
    /\ Mentions \in [KgDocuments -> Seq(KgEntities)]
    /\ NoNode \notin GraphNodes
    /\ MaxKgRequests \in Nat

VARIABLES
    graph,       \* [KgNodes -> the node, or NoNode]
    links,       \* [KgNodes \X KgNodes -> document_ids of the relation, {} if there is none]
    number,      \* [KgDocuments -> document_number of the row]
    ingest,      \* [KgDocuments -> the ingest: running, next statement, root_key]
    kgDone,      \* documents with kg_done
    built,       \* documents whose ingest ran to its end
    cleanUp,     \* [KgDocuments -> the deletion: pass, and where it is]
    readLinks,   \* [KgDocuments -> the owners its deletion read, by relation; {} if not read]
    readNodes,   \* [KgDocuments -> the owners its deletion read, by node; <<>> if not read]
    edit,        \* [KgDocuments -> the edit: where it is, and the new number]
    raced,       \* documents that wrote while a deletion computed owners
    touched,     \* owners of what an edit has changed
    unclean,     \* documents ingested during their deletion, or not cleaned up
    kgRequests

graphVars == <<graph, links>>
kgWorkVars == <<number, ingest, kgDone, built>>
readVars == <<readLinks, readNodes>>
kgRequestVars == <<cleanUp, readVars, edit>>
kgHistoryVars == <<raced, touched, unclean, kgRequests>>
knowledgeGraphVars == <<graphVars, kgWorkVars, kgRequestVars, kgHistoryVars>>

NoLinks == [p \in KgNodes \X KgNodes |-> {}]
NothingRead == [n \in KgNodes |-> <<>>]

KnowledgeGraphTypeOK ==
    /\ graph \in [KgNodes -> GraphNodes \cup {NoNode}]
    /\ links \in [KgNodes \X KgNodes -> SUBSET KgDocuments]
    /\ number \in [KgDocuments -> KgLaws]
    /\ ingest \in [KgDocuments -> [running : BOOLEAN, next : Nat, root : KgLaws]]
    /\ built \subseteq KgDocuments /\ kgDone \subseteq KgDocuments
    /\ cleanUp \in [KgDocuments ->
          [pass : 0..3, at : {"links", "linksRead", "nodes", "nodesRead"}]]
    /\ edit \in [KgDocuments ->
          [at : {"none", "found", "merge", "set"}, to : KgLaws]]
    /\ readLinks \in [KgDocuments -> [KgNodes \X KgNodes -> SUBSET KgDocuments]]
    /\ readNodes \in [KgDocuments -> [KgNodes -> Seq(KgDocuments)]]
    /\ {raced, touched, unclean} \subseteq SUBSET KgDocuments
    /\ kgRequests \in 0..MaxKgRequests

KnowledgeGraphInit ==
    /\ graph = [n \in KgNodes |-> NoNode]
    /\ links = NoLinks
    /\ number = RootOf
    /\ ingest = [d \in KgDocuments |-> [running |-> FALSE, next |-> 0, root |-> RootOf[d]]]
    /\ kgDone = {}
    /\ built = {}
    /\ cleanUp = [d \in KgDocuments |-> [pass |-> 0, at |-> "links"]]
    /\ readLinks = [d \in KgDocuments |-> NoLinks]
    /\ readNodes = [d \in KgDocuments |-> NothingRead]
    /\ edit = [d \in KgDocuments |-> [at |-> "none", to |-> RootOf[d]]]
    /\ raced = {}
    /\ touched = {}
    /\ unclean = {}
    /\ kgRequests = 0

Deleting(d) == cleanUp[d].pass \in {1, 2}
Deleted(d) == cleanUp[d].pass = 3

\* Deletions between the reading and the writing of a statement.
Computing == {d \in KgDocuments : Deleting(d) /\ cleanUp[d].at \in {"linksRead", "nodesRead"}}

LiveNodes == {n \in KgNodes : graph[n] # NoNode}
NodesOf(e) == {n \in LiveNodes : graph[n].entity = e}
OwnersOf(n) == ToSet(graph[n].owners)

\* _doc_ids_append.
OwnedAlso(owners, d) == IF d \in ToSet(owners) THEN owners ELSE Append(owners, d)

FreeNode == CHOOSE n \in KgNodes \ LiveNodes : TRUE

\* MERGE of the nodes of an entity: all that match, else a new one, anchored at
\* the document that creates it.  A root is claimed.
MergeNode(e, d, claim) ==
    IF NodesOf(e) = {}
    THEN /\ LiveNodes # KgNodes
         /\ graph' = [graph EXCEPT ![FreeNode] = [entity |-> e, anchor |-> d, owners |-> <<d>>]]
    ELSE graph' = [n \in KgNodes |->
            IF n \in NodesOf(e)
            THEN [graph[n] EXCEPT !.owners = OwnedAlso(@, d),
                                  !.anchor = IF claim THEN d ELSE @]
            ELSE graph[n]]

\* A document writes: into the results of a deletion that computes, or after its
\* own deletion has begun.
Writes(d) ==
    /\ raced' = IF Computing # {} THEN raced \cup {d} ELSE raced
    /\ unclean' = IF cleanUp[d].pass # 0 THEN unclean \cup {d} ELSE unclean
    /\ UNCHANGED <<touched, kgRequests>>

KgRequest == kgRequests < MaxKgRequests /\ kgRequests' = kgRequests + 1

NextStatement(d) == ingest' = [ingest EXCEPT ![d].next = @ + 1]

-----------------------------------------------------------------------------
(* handle_kg and ingest.                                                   *)

\* The worker takes one message of the workspace at a time; a document that is
\* gone or done is skipped.
StartIngest(d) ==
    /\ \A o \in KgDocuments : ~ingest[o].running
    /\ ~Deleted(d)
    /\ d \notin kgDone
    /\ ingest' = [ingest EXCEPT ![d] = [running |-> TRUE, next |-> 0, root |-> number[d]]]
    /\ UNCHANGED <<graphVars, number, kgDone, built, kgRequestVars, kgHistoryVars>>

\* _upsert_document_root.
UpsertRoot(d) ==
    /\ ingest[d].running
    /\ ingest[d].next = 0
    /\ MergeNode(ingest[d].root, d, TRUE)
    /\ NextStatement(d)
    /\ Writes(d)
    /\ UNCHANGED <<links, number, kgDone, built, kgRequestVars>>

\* The statements after the root: for each mention its node, then its relation.
Mentioned(d) == Mentions[d][(ingest[d].next + 1) \div 2]
More(d) == ingest[d].next <= 2 * Len(Mentions[d])

\* _upsert_node.
UpsertNode(d) ==
    /\ ingest[d].running
    /\ ingest[d].next % 2 = 1
    /\ More(d)
    /\ MergeNode(Mentioned(d), d, FALSE)
    /\ NextStatement(d)
    /\ Writes(d)
    /\ UNCHANGED <<links, number, kgDone, built, kgRequestVars>>

\* _upsert_relation: nothing, if an end is missing.
UpsertRelation(d) ==
    LET ends == NodesOf(ingest[d].root) \X NodesOf(Mentioned(d)) IN
    /\ ingest[d].running
    /\ ingest[d].next > 0 /\ ingest[d].next % 2 = 0
    /\ More(d)
    /\ links' = [p \in KgNodes \X KgNodes |-> IF p \in ends THEN links[p] \cup {d} ELSE links[p]]
    /\ NextStatement(d)
    /\ Writes(d)
    /\ UNCHANGED <<graph, number, kgDone, built, kgRequestVars>>

IngestEnds(d) ==
    /\ ingest[d].running
    /\ ~More(d)
    /\ ingest' = [ingest EXCEPT ![d].running = FALSE]
    /\ kgDone' = kgDone \cup {d}
    /\ built' = built \cup {d}
    /\ UNCHANGED <<graphVars, number, kgRequestVars, kgHistoryVars>>

\* A statement raises: kg_done with a warning.  Or the worker dies or runs into
\* its timeout: the message comes again.
IngestBreaks(d) ==
    /\ ingest[d].running
    /\ KgRequest
    /\ ingest' = [ingest EXCEPT ![d].running = FALSE]
    /\ kgDone' \in {kgDone, kgDone \cup {d}}
    /\ UNCHANGED <<graphVars, number, built, kgRequestVars, raced, touched, unclean>>

-----------------------------------------------------------------------------
(* delete_document: api/documents.py has the graph cleaned up twice, through *)
(* the retrieval service and by itself, before it deletes the row.          *)

DeleteBegins(d) ==
    /\ cleanUp[d].pass = 0
    /\ KgRequest
    /\ cleanUp' = [cleanUp EXCEPT ![d] = [pass |-> 1, at |-> "links"]]
    /\ UNCHANGED <<graphVars, kgWorkVars, readVars, edit, raced, touched, unclean>>

CleanUpGoes(d, at) == cleanUp' = [cleanUp EXCEPT ![d].at = at]

\* The owners of the relations that the document owns.
DeleteReadsLinks(d) ==
    /\ Deleting(d)
    /\ cleanUp[d].at = "links"
    /\ readLinks' = [readLinks EXCEPT ![d] =
          [p \in KgNodes \X KgNodes |-> IF d \in links[p] THEN links[p] ELSE {}]]
    /\ CleanUpGoes(d, "linksRead")
    /\ UNCHANGED <<graphVars, kgWorkVars, readNodes, edit, kgHistoryVars>>

\* Another deletion that computes at the same time.
TrimsRace(d) ==
    /\ raced' = IF Computing \ {d} # {} THEN raced \cup Computing ELSE raced
    /\ UNCHANGED <<touched, unclean, kgRequests>>

\* The owners that remain are written; a relation without any is deleted.
DeleteTrimsLinks(d) ==
    /\ Deleting(d)
    /\ cleanUp[d].at = "linksRead"
    /\ links' = [p \in KgNodes \X KgNodes |->
          IF links[p] # {} /\ readLinks[d][p] # {} THEN readLinks[d][p] \ {d}
                                                  ELSE links[p]]
    /\ readLinks' = [readLinks EXCEPT ![d] = NoLinks]
    /\ CleanUpGoes(d, "nodes")
    /\ TrimsRace(d)
    /\ UNCHANGED <<graph, kgWorkVars, readNodes, edit>>

DeleteReadsNodes(d) ==
    /\ Deleting(d)
    /\ cleanUp[d].at = "nodes"
    /\ readNodes' = [readNodes EXCEPT ![d] = [n \in KgNodes |->
          IF n \in LiveNodes /\ d \in OwnersOf(n) THEN graph[n].owners ELSE <<>>]]
    /\ CleanUpGoes(d, "nodesRead")
    /\ UNCHANGED <<graphVars, kgWorkVars, readLinks, edit, kgHistoryVars>>

\* Mutant: whoever else owns the node.
RemainNone(owners, d) == <<>>

\* An owner is there once: what is before it, and what is after it.
Remain(owners, d) ==
    LET at == CHOOSE i \in 1..Len(owners) : owners[i] = d
    IN  [i \in 1..(Len(owners) - 1) |-> owners[IF i < at THEN i ELSE i + 1]]

AfterPass(d) ==
    [pass |-> cleanUp[d].pass + 1, at |-> "links"]

\* The owners that remain, and the first of them as the anchor; a node without
\* any goes, with its relations.
DeleteTrimsNodes(d) ==
    LET left(n) == Remain(readNodes[d][n], d)
        hit     == {n \in LiveNodes : readNodes[d][n] # <<>>}
        dropped == {n \in hit : left(n) = <<>>}
    IN
    /\ Deleting(d)
    /\ cleanUp[d].at = "nodesRead"
    /\ graph' = [n \in KgNodes |->
          IF n \in dropped THEN NoNode
          ELSE IF n \in hit THEN [graph[n] EXCEPT !.owners = left(n), !.anchor = Head(left(n))]
          ELSE graph[n]]
    /\ links' = [p \in KgNodes \X KgNodes |->
          IF {p[1], p[2]} \cap dropped # {} THEN {} ELSE links[p]]
    /\ readNodes' = [readNodes EXCEPT ![d] = NothingRead]
    /\ cleanUp' = [cleanUp EXCEPT ![d] = AfterPass(d)]
    /\ TrimsRace(d)
    /\ UNCHANGED <<kgWorkVars, readLinks, edit>>

\* Neo4j fails: logged, and on to the next pass, or to the row.
DeletePassFails(d) ==
    /\ Deleting(d)
    /\ KgRequest
    /\ readLinks' = [readLinks EXCEPT ![d] = NoLinks]
    /\ readNodes' = [readNodes EXCEPT ![d] = NothingRead]
    /\ cleanUp' = [cleanUp EXCEPT ![d] = AfterPass(d)]
    /\ unclean' = IF cleanUp[d].pass = 2 THEN unclean \cup {d} ELSE unclean
    /\ UNCHANGED <<graphVars, kgWorkVars, edit, raced, touched>>

-----------------------------------------------------------------------------
(* update_document and update_document_metadata.                           *)

\* Nodes of type Document that are anchored at d: its root, and the stubs that it
\* created.
Anchored(d) == {n \in LiveNodes : graph[n].entity \in KgLaws /\ graph[n].anchor = d}

\* The row gets the new number; if the document is indexed and a node is found
\* the graph is to follow.
EditsNumber(d, e) ==
    /\ KgRequest
    /\ edit[d].at = "none"
    /\ ~Deleted(d)
    /\ e # number[d]
    /\ number' = [number EXCEPT ![d] = e]
    /\ edit' = [edit EXCEPT ![d] =
          [at |-> IF d \in kgDone /\ Anchored(d) # {} THEN "found" ELSE "none", to |-> e]]
    /\ UNCHANGED <<graphVars, ingest, kgDone, built, cleanUp, readVars, raced, touched,
                   unclean>>

Stubs(d) == {n \in NodesOf(edit[d].to) : graph[n].anchor # d}

LooksForStubs(d) ==
    /\ edit[d].at = "found"
    /\ edit' = [edit EXCEPT ![d].at = IF Stubs(d) # {} THEN "merge" ELSE "set"]
    /\ UNCHANGED <<graphVars, kgWorkVars, cleanUp, readVars, kgHistoryVars>>

\* Everyone who owns one of the nodes, or a relation of one, and the deletions
\* that compute.
Concerned(ns) ==
    {x \in KgDocuments : \E n \in ns :
        x \in OwnersOf(n) \/ \E m \in KgNodes : x \in links[<<n, m>>] \cup links[<<m, n>>]}

\* mergeNodes: the others go into an anchored node, which keeps its own
\* properties; their relations move to it.
MergesStubs(d) ==
    /\ edit[d].at = "merge"
    /\ \E root \in Anchored(d) :
          LET stubs   == NodesOf(edit[d].to) \ {root}
              into(n) == {n} \cup (IF n = root THEN stubs ELSE {})
          IN  /\ stubs # {}
              /\ graph' = [n \in KgNodes |-> IF n \in stubs THEN NoNode ELSE graph[n]]
              /\ links' = [p \in KgNodes \X KgNodes |->
                    IF {p[1], p[2]} \cap stubs # {} THEN {}
                    ELSE UNION {links[q] : q \in into(p[1]) \X into(p[2])}]
              /\ touched' = touched \cup Concerned(stubs \cup {root})
    /\ raced' = raced \cup Computing
    /\ edit' = [edit EXCEPT ![d].at = "set"]
    /\ UNCHANGED <<kgWorkVars, cleanUp, readVars, unclean, kgRequests>>

\* The nodes it found are gone by now.
MergesNothing(d) ==
    /\ edit[d].at = "merge"
    /\ \A root \in Anchored(d) : NodesOf(edit[d].to) \subseteq {root}
    /\ edit' = [edit EXCEPT ![d].at = "set"]
    /\ UNCHANGED <<graphVars, kgWorkVars, cleanUp, readVars, kgHistoryVars>>

\* A statement raises (mergeNodes may, when several nodes are anchored): logged.
EditFails(d) ==
    /\ edit[d].at # "none"
    /\ KgRequest
    /\ edit' = [edit EXCEPT ![d].at = "none"]
    /\ UNCHANGED <<graphVars, kgWorkVars, cleanUp, readVars, raced, touched, unclean>>

\* Every anchored node gets the new number.
SetsNumber(d) ==
    /\ edit[d].at = "set"
    /\ graph' = [n \in KgNodes |-> IF n \in Anchored(d)
                                   THEN [graph[n] EXCEPT !.entity = edit[d].to] ELSE graph[n]]
    /\ touched' = touched \cup Concerned(Anchored(d))
    /\ edit' = [edit EXCEPT ![d].at = "none"]
    /\ UNCHANGED <<links, kgWorkVars, cleanUp, readVars, raced, unclean, kgRequests>>

-----------------------------------------------------------------------------
KnowledgeGraphNext ==
    \E d \in KgDocuments :
        \/ StartIngest(d)
        \/ UpsertRoot(d)
        \/ UpsertNode(d)
        \/ UpsertRelation(d)
        \/ IngestEnds(d)
        \/ IngestBreaks(d)
        \/ DeleteBegins(d)
        \/ DeleteReadsLinks(d)
        \/ DeleteTrimsLinks(d)
        \/ DeleteReadsNodes(d)
        \/ DeleteTrimsNodes(d)
        \/ DeletePassFails(d)
        \/ \E e \in KgLaws : EditsNumber(d, e)
        \/ LooksForStubs(d)
        \/ MergesStubs(d)
        \/ MergesNothing(d)
        \/ EditFails(d)
        \/ SetsNumber(d)

KnowledgeGraphSpec == KnowledgeGraphInit /\ [][KnowledgeGraphNext]_knowledgeGraphVars

-----------------------------------------------------------------------------
(* Properties.                                                             *)

\* "This prevents the old bug where deleting one document wiped shared entities
\* used by others" (legal_kg_service.py:662): a document that was ingested to the
\* end keeps its root, what it mentions and the relations between them, whatever
\* other documents are ingested or deleted meanwhile; unless it wrote while a
\* deletion computed the owners that remain, or an edit changed what it owns.
ContributionSurvives ==
    \A d \in built :
        (cleanUp[d].pass = 0 /\ d \notin raced \cup touched) =>
            \A e \in ToSet(Mentions[d]) :
                \E p \in NodesOf(ingest[d].root) \X NodesOf(e) :
                    d \in links[p] /\ d \in OwnersOf(p[1]) /\ d \in OwnersOf(p[2])

\* "Remove this document's contribution to the workspace graph"
\* (legal_kg_service.py:655): after its deletion nothing names a document as its
\* owner, in whatever order it was ingested, deleted and edited with others;
\* unless it was ingested during its deletion, or both clean-ups failed, or two
\* deletions computed at the same time.
NothingLeftBehind ==
    \A d \in KgDocuments :
        (Deleted(d) /\ d \notin raced \cup unclean) =>
            /\ \A n \in LiveNodes : d \notin OwnersOf(n)
            /\ \A p \in KgNodes \X KgNodes : d \notin links[p]

\* A document owns what it contributed for as long as it exists, and no longer.
OwnershipIsExact == ContributionSurvives /\ NothingLeftBehind
=============================================================================
