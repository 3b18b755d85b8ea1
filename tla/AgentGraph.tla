------------------------------ MODULE AgentGraph ------------------------------
(***************************************************************************)
(* One turn of the supervisor graph: services/agents/supervisor.py with    *)
(* the nodes of rag_agent.py and resolve_doc_agent.py.                     *)
(*                                                                         *)
(* A node returns a partial update that LangGraph merges over the shared   *)
(* state; a route function then picks the next node from what it merged.   *)
(* The model has one action per node and outcome, Update for the merge and *)
(* one operator per route function.                                        *)
(*                                                                         *)
(* An intent is the intents of models.py up to routing: "summarize" stands *)
(* for the rag intents without a fallback, "write" and "people" for their  *)
(* groups.  Sources, summaries and section references are present or not.  *)
(* What a model answers is any value the parsing of the answer lets pass.  *)
(***************************************************************************)
EXTENDS Naturals, Sequences

CONSTANTS
    MaxIterations,   \* NEXUSRAG_LG_MAX_ITERATIONS
    MaxPlanSteps,    \* bound on the sub-queries of a plan
    MaxAgentFaults   \* bound on tools and model calls that raise

ASSUME AgentGraphAssumption ==
    /\ MaxIterations \in Nat \ {0}
    /\ MaxPlanSteps \in Nat
    /\ MaxAgentFaults \in Nat

VARIABLES
    node,            \* the node to run next
    turn,            \* SupervisorState
    react,           \* NEXUSRAG_LG_RAG_REACT
    searched,        \* steps of the plan for which the rag node has run
    agentFaults

agentVars == <<node, turn, react, searched, agentFaults>>

\* _INTENT_TO_AGENT_FALLBACK.
AgentOf == [ greeting       |-> "direct",
             personal       |-> "direct",
             search         |-> "rag",
             kg_query       |-> "rag",
             summarize      |-> "rag",
             search_abbr    |-> "rag",
             search_section |-> "rag",
             resolve_doc    |-> "resolve_doc",
             write          |-> "write",
             people         |-> "people" ]

Intents == DOMAIN AgentOf

\* Intents the query analyzer's steps are taken from.
StepIntents == {"search", "search_section", "search_abbr", "resolve_doc", "people"}

\* sub_queries: absent (<<>>) or at least two.
Plans == {<<>>} \cup UNION {[1..n -> StepIntents] : n \in 2..MaxPlanSteps}

PendingIntents == {"none", "search", "kg_query", "summarize", "search_section"}

Nodes == {"query_analyzer", "supervisor", "memory_recall", "query_enricher",
          "rag", "resolve_doc_agent", "result_evaluator", "write", "people",
          "direct", "answer_generator", "react_executor", "END"}

TurnStates ==
    [ intent            : Intents \cup {"none"},
      next_agent        : {"none", "rag", "resolve_doc", "write", "people", "direct",
                           "finish", "answer_generator", "supervisor_loop"},
      pending_intent    : PendingIntents \cup StepIntents,
      needs_memory      : BOOLEAN,
      section_reference : BOOLEAN,
      sections          : BOOLEAN,            \* extracted_params["sections"]
      should_loop_back  : BOOLEAN,
      sub_queries       : Plans,
      current_step      : Nat,                \* current_step_index + 1
      retry_count       : 0..2,
      iterations        : 0..MaxIterations,
      has_results       : BOOLEAN,            \* sources or substantive summaries
      kg_summaries      : BOOLEAN ]

AgentGraphTypeOK ==
    /\ node \in Nodes
    /\ turn \in TurnStates
    /\ react \in BOOLEAN
    /\ searched \in SUBSET (1..MaxPlanSteps + 1)
    /\ agentFaults \in 0..MaxAgentFaults

AgentGraphInit ==
    /\ node = "query_analyzer"
    /\ turn = [ intent |-> "none", next_agent |-> "none", pending_intent |-> "none",
                needs_memory |-> FALSE, section_reference |-> FALSE,
                sections |-> FALSE, should_loop_back |-> FALSE,
                sub_queries |-> <<>>, current_step |-> 1, retry_count |-> 0,
                iterations |-> 0, has_results |-> FALSE, kg_summaries |-> FALSE ]
    /\ react \in BOOLEAN
    /\ searched = {}
    /\ agentFaults = 0

\* The node's update has been merged over the state, on which a route function
\* then decides.
Update(state, next) ==
    /\ turn' = state
    /\ node' = next
    /\ UNCHANGED react

NoFault == UNCHANGED agentFaults

Fault ==
    /\ agentFaults < MaxAgentFaults
    /\ agentFaults' = agentFaults + 1

\* A rag target is the react executor when the flag is on.
RagNode == IF react THEN "react_executor" ELSE "rag"

-----------------------------------------------------------------------------
(* Route functions.                                                        *)

RouteFromSupervisor(s) ==
    CASE s.next_agent \in {"none", "finish"} -> "END"
      [] \/ s.next_agent = "resolve_doc"
         \/ s.next_agent = "rag" /\ s.intent = "resolve_doc" ->
            IF react THEN "react_executor" ELSE "resolve_doc_agent"
      [] s.needs_memory -> "memory_recall"
      [] s.next_agent = "rag" -> RagNode
      [] OTHER -> s.next_agent

RouteFromEnricher(s) ==
    CASE s.intent = "personal" -> "direct"
      [] s.next_agent = "rag" -> RagNode
      [] s.next_agent \in {"write", "people"} -> s.next_agent
      [] OTHER -> "direct"

RouteFromRag(s) ==
    IF \/ s.should_loop_back
       \/ s.intent = "search_section" /\ s.section_reference
    THEN "supervisor"
    ELSE "result_evaluator"

\* A pending intent is looked at before next_agent = finish.
RouteFromResolveDoc(s) ==
    CASE \/ s.pending_intent = "search_section" /\ s.section_reference
         \/ s.pending_intent = "search" -> "rag"
      [] s.pending_intent = "summarize" -> "answer_generator"
      [] s.next_agent = "finish" -> "END"
      [] s.intent = "search_section" /\ s.section_reference -> "rag"
      [] OTHER -> "answer_generator"

RouteFromEvaluator(s) ==
    CASE s.next_agent = "answer_generator" -> "answer_generator"
      [] s.next_agent = "supervisor_loop" -> "supervisor"
      [] OTHER -> "rag"

-----------------------------------------------------------------------------
(* Query analyzer and supervisor.                                          *)

\* Every way out: a simple query, or a plan and the sections found in it.
QueryAnalyzer ==
    /\ node = "query_analyzer"
    /\ \E plan \in Plans, sections \in BOOLEAN :
          Update([turn EXCEPT !.sub_queries = plan, !.sections = sections], "supervisor")
    /\ NoFault
    /\ UNCHANGED searched

SectionPending ==
    /\ turn.intent = "search_section"
    /\ turn.section_reference
    /\ turn.iterations >= 1

\* rag has not run the section search yet: back to it, not counted.
SupervisorResumesSection ==
    /\ node = "supervisor"
    /\ SectionPending
    /\ Update([turn EXCEPT !.next_agent = "rag", !.should_loop_back = FALSE],
              RouteFromSupervisor(turn'))
    /\ NoFault
    /\ UNCHANGED searched

SupervisorForcesFinish ==
    /\ node = "supervisor"
    /\ ~SectionPending
    /\ turn.iterations >= MaxIterations
    /\ Update([turn EXCEPT !.next_agent = "finish"], RouteFromSupervisor(turn'))
    /\ NoFault
    /\ UNCHANGED searched

SupervisorDecides ==
    /\ node = "supervisor"
    /\ ~SectionPending
    /\ turn.iterations < MaxIterations

\* Back from an abbreviation with what the search of it left.
SupervisorAnswersFromResults ==
    /\ SupervisorDecides
    /\ turn.should_loop_back
    /\ turn.has_results \/ turn.kg_summaries
    /\ Update([turn EXCEPT !.next_agent = "answer_generator", !.intent = "summarize",
                           !.iterations = @ + 1, !.should_loop_back = FALSE],
              RouteFromSupervisor(turn'))
    /\ NoFault
    /\ UNCHANGED searched

\* What the model, the deterministic scopes and the safety nets may decide.
Decisions ==
    [intent : Intents, next_agent : {"agent_of_intent", "finish"},
     pending_intent : PendingIntents, needs_memory : BOOLEAN]

StepsLeft == turn.current_step <= Len(turn.sub_queries)

Decided(d) ==
    [turn EXCEPT !.intent = d.intent, !.pending_intent = d.pending_intent,
                 !.needs_memory = d.needs_memory,
                 !.next_agent = IF d.next_agent = "finish" THEN "finish" ELSE AgentOf[d.intent],
                 !.section_reference = @ \/ turn.sections,
                 !.should_loop_back = FALSE, !.iterations = @ + 1]

\* The plan's current step overrides the decision.
PlannedStep(s) ==
    LET intent == s.sub_queries[s.current_step]
        last   == s.sub_queries[Len(s.sub_queries)]
    IN  [s EXCEPT !.intent = intent, !.next_agent = AgentOf[intent],
                  !.pending_intent = IF s.current_step < Len(s.sub_queries) THEN last ELSE @]

SupervisorRoutes ==
    /\ SupervisorDecides
    /\ ~(turn.should_loop_back /\ (turn.has_results \/ turn.kg_summaries))
    /\ \E d \in Decisions :
          Update(IF StepsLeft THEN PlannedStep(Decided(d)) ELSE Decided(d),
                 RouteFromSupervisor(turn'))
    /\ NoFault
    /\ UNCHANGED searched

\* The model call, or anything after it, raises.
SupervisorFails ==
    /\ SupervisorDecides
    /\ Fault
    /\ Update([turn EXCEPT !.next_agent = "rag", !.iterations = @ + 1,
                           !.intent = IF @ = "none" THEN "search" ELSE @],
              RouteFromSupervisor(turn'))
    /\ UNCHANGED searched

\* memory_recall and query_enricher change only the memory context and the
\* wording of the query, fail or not.
MemoryRecall ==
    /\ node = "memory_recall"
    /\ Update(turn, "query_enricher")
    /\ NoFault
    /\ UNCHANGED searched

QueryEnricher ==
    /\ node = "query_enricher"
    /\ Update(turn, RouteFromEnricher(turn'))
    /\ NoFault
    /\ UNCHANGED searched

-----------------------------------------------------------------------------
(* rag, resolve_doc_agent and result_evaluator.                            *)

RagTools == {i \in Intents : AgentOf[i] = "rag"}

\* _map_search_section: tells route_from_rag that the tool has run.
SectionUpdate ==
    [turn EXCEPT !.intent = "summarize", !.section_reference = FALSE, !.kg_summaries = TRUE]

\* _map_abbr_result: loop back if a meaning was found.
AbbreviationUpdate(hit) == [turn EXCEPT !.kg_summaries = TRUE, !.should_loop_back = hit]

\* The tool of the intent returns, with or without results.
RagFinds ==
    /\ node = "rag"
    /\ turn.intent \in RagTools
    /\ \E found \in BOOLEAN, hit \in BOOLEAN :
          LET mapped ==
                CASE turn.intent = "search_section" -> SectionUpdate
                  [] turn.intent = "search_abbr" -> AbbreviationUpdate(hit)
                  [] OTHER -> [turn EXCEPT !.kg_summaries = @ \/ found]
          IN  Update([mapped EXCEPT !.has_results = @ \/ found], RouteFromRag(turn'))
    /\ searched' = searched \cup {turn.current_step}
    /\ NoFault

\* An intent without a tool.
RagHasNoTool ==
    /\ node = "rag"
    /\ turn.intent \notin RagTools
    /\ Update([turn EXCEPT !.next_agent = "rag"], RouteFromRag(turn'))
    /\ searched' = searched \cup {turn.current_step}
    /\ NoFault

\* The tool raises: only a summary with the error, which may be long enough to
\* count as a result.
RagFails ==
    /\ node = "rag"
    /\ turn.intent \in RagTools
    /\ Fault
    /\ \E long \in BOOLEAN :
          Update([turn EXCEPT !.kg_summaries = TRUE, !.has_results = @ \/ long],
                 RouteFromRag(turn'))
    /\ searched' = searched \cup {turn.current_step}

\* Nothing found, ambiguous, or a medium confidence: the user is asked.
ResolveDocAsks ==
    /\ node = "resolve_doc_agent"
    /\ \E s \in {turn.section_reference, TRUE, FALSE} :
          Update([turn EXCEPT !.next_agent = "finish", !.section_reference = s],
                 RouteFromResolveDoc(turn'))
    /\ NoFault
    /\ UNCHANGED searched

ResolvedState(section) ==
    CASE section ->
            [turn EXCEPT !.intent = "search_section", !.next_agent = "rag"]
      [] ~section /\ turn.pending_intent = "search_section" ->
            [turn EXCEPT !.intent = "search", !.pending_intent = "search",
                         !.next_agent = "rag"]
      [] ~section /\ turn.pending_intent \notin {"none", "search_section"} ->
            [turn EXCEPT !.intent = turn.pending_intent,
                         !.next_agent = IF turn.pending_intent \in {"search", "kg_query"}
                                        THEN "rag" ELSE "answer_generator"]
      [] OTHER ->
            [turn EXCEPT !.intent = "summarize", !.next_agent = "answer_generator"]

\* A document is resolved, with a section reference or not.
ResolveDocFinds ==
    /\ node = "resolve_doc_agent"
    /\ \E section \in BOOLEAN :
          Update([ResolvedState(section) EXCEPT !.section_reference = section,
                                                !.should_loop_back = FALSE],
                 RouteFromResolveDoc(turn'))
    /\ NoFault
    /\ UNCHANGED searched

\* Mutant: the last step but one ends the plan.
MoreStepsButOne == turn.current_step + 1 < Len(turn.sub_queries)

MoreSteps == turn.current_step < Len(turn.sub_queries)

EvaluatorAdvances ==
    /\ node = "result_evaluator"
    /\ MoreSteps
    /\ Update([turn EXCEPT !.current_step = @ + 1, !.retry_count = 0,
                           !.next_agent = "supervisor_loop"], RouteFromEvaluator(turn'))
    /\ NoFault
    /\ UNCHANGED searched

\* _FALLBACK_MAP.
Fallback == [search |-> "kg_query", kg_query |-> "search", search_section |-> "search"]

\* Mutant: one retry too many.
MayRetryOnceMore ==
    /\ ~turn.has_results
    /\ turn.retry_count < 3
    /\ turn.intent \in DOMAIN Fallback

MayRetry ==
    /\ ~turn.has_results
    /\ turn.retry_count < 2
    /\ turn.intent \in DOMAIN Fallback

\* Back to rag itself, also when the flag is on.
EvaluatorRetries ==
    /\ node = "result_evaluator"
    /\ ~MoreSteps
    /\ MayRetry
    /\ Update([turn EXCEPT !.intent = Fallback[@], !.next_agent = "rag",
                           !.retry_count = @ + 1], RouteFromEvaluator(turn'))
    /\ NoFault
    /\ UNCHANGED searched

EvaluatorAnswers ==
    /\ node = "result_evaluator"
    /\ ~MoreSteps
    /\ ~MayRetry
    /\ Update([turn EXCEPT !.next_agent = "answer_generator"], RouteFromEvaluator(turn'))
    /\ NoFault
    /\ UNCHANGED searched

\* write, people (with its document search and its formatter), direct,
\* answer_generator and react_executor answer and end the turn.
TerminalNode ==
    /\ node \in {"write", "people", "direct", "answer_generator", "react_executor"}
    /\ Update(turn, "END")
    /\ NoFault
    /\ UNCHANGED searched

AgentGraphNext ==
    \/ QueryAnalyzer
    \/ SupervisorResumesSection
    \/ SupervisorForcesFinish
    \/ SupervisorAnswersFromResults
    \/ SupervisorRoutes
    \/ SupervisorFails
    \/ MemoryRecall
    \/ QueryEnricher
    \/ RagFinds
    \/ RagHasNoTool
    \/ RagFails
    \/ ResolveDocAsks
    \/ ResolveDocFinds
    \/ EvaluatorAdvances
    \/ EvaluatorRetries
    \/ EvaluatorAnswers
    \/ TerminalNode

\* A node that has started returns: its model and tool calls have timeouts.
AgentGraphFairness == WF_agentVars(AgentGraphNext)

AgentGraphSpec == AgentGraphInit /\ [][AgentGraphNext]_agentVars /\ AgentGraphFairness

-----------------------------------------------------------------------------
(* Properties.                                                             *)

\* A turn that has begun ends: abbreviation and section loop-backs, which may
\* not count as an iteration, retries and the steps of a plan never keep it
\* going for ever, whatever the models answer and with a bounded number of
\* failing tools.
TurnEnds == node # "query_analyzer" ~> node = "END"

\* "If more sub_queries to execute, advance step" (supervisor.py:1931): when the
\* evaluator lets the answer be written, the rag node has run for every step of
\* the plan, though steps share the results, the retries and the section
\* reference of one state.
PlanCompleted ==
    [][ node = "result_evaluator" /\ node' = "answer_generator"
        => 1..Len(turn.sub_queries) \subseteq searched ]_agentVars

\* A turn ends, and not before its plan is carried out.
TurnIsCompleted == TurnEnds /\ PlanCompleted
=============================================================================
