----------------------------- MODULE KgConsumers -----------------------------
(***************************************************************************)
(* The knowledge graph worker's consume task: backend/app/workers/         *)
(* runner.py, _run_kg_worker.  It keeps one consumer per workspace and     *)
(* polls the database for workspaces that were created or deleted.         *)
(***************************************************************************)
EXTENDS Naturals

CONSTANTS
    KgWorkspaces,    \* workspaces, each created and deleted at most once
    CircuitThreshold,\* _CIRCUIT_THRESHOLD
    MaxDisturbances  \* bound on failed polls and consumers that die

ASSUME KgConsumersAssumption ==
    CircuitThreshold \in Nat \ {0} /\ MaxDisturbances \in Nat

VARIABLES
    knowledgeBases,  \* ids in the table knowledge_bases
    deletedBases,    \* ids that were there: ids are not used again
    activeSpaces,    \* active_workspaces
    consumerTask,    \* [KgWorkspaces -> none, live, dead]: consumer_tasks
    strayTasks,      \* cancelled consumers that nobody awaits, still unwinding
    poll,            \* starting, sleep, apply (ids are read) or stopped
    currentIds,      \* current_ids of the poll
    circuitOpen,
    circuitFailures,
    disturbances

kgConsumerVars == <<knowledgeBases, deletedBases, activeSpaces, consumerTask,
                    strayTasks, poll, currentIds, circuitOpen,
                    circuitFailures, disturbances>>

KgConsumersTypeOK ==
    /\ {knowledgeBases, deletedBases, activeSpaces, currentIds, strayTasks}
           \subseteq SUBSET KgWorkspaces
    /\ consumerTask \in [KgWorkspaces -> {"none", "live", "dead"}]
    /\ poll \in {"starting", "sleep", "apply", "stopped"}
    /\ circuitOpen \in BOOLEAN
    /\ circuitFailures \in 0..MaxDisturbances
    /\ disturbances \in 0..MaxDisturbances

KgConsumersInit ==
    /\ knowledgeBases \in SUBSET KgWorkspaces
    /\ deletedBases = {}
    /\ activeSpaces = {}
    /\ consumerTask = [w \in KgWorkspaces |-> "none"]
    /\ strayTasks = {}
    /\ poll = "starting"
    /\ currentIds = {}
    /\ circuitOpen = FALSE
    /\ circuitFailures = 0
    /\ disturbances = 0

pollerVars == <<activeSpaces, consumerTask, strayTasks, poll, currentIds,
                circuitOpen, circuitFailures>>

-----------------------------------------------------------------------------
(* Workspaces come and go through the API.                                 *)

CreateKnowledgeBase(w) ==
    /\ w \notin knowledgeBases \cup deletedBases
    /\ knowledgeBases' = knowledgeBases \cup {w}
    /\ UNCHANGED <<deletedBases, disturbances>>
    /\ UNCHANGED pollerVars

DeleteKnowledgeBase(w) ==
    /\ w \in knowledgeBases
    /\ knowledgeBases' = knowledgeBases \ {w}
    /\ deletedBases' = deletedBases \cup {w}
    /\ UNCHANGED disturbances
    /\ UNCHANGED pollerVars

\* A consumer gives up or raises; a cancelled one has unwound.
KgConsumerDies(w) ==
    /\ consumerTask[w] = "live"
    /\ disturbances < MaxDisturbances
    /\ disturbances' = disturbances + 1
    /\ consumerTask' = [consumerTask EXCEPT ![w] = "dead"]
    /\ UNCHANGED <<knowledgeBases, deletedBases, activeSpaces, strayTasks, poll,
                   currentIds, circuitOpen, circuitFailures>>

StrayConsumerEnds(w) ==
    /\ w \in strayTasks
    /\ strayTasks' = strayTasks \ {w}
    /\ UNCHANGED <<knowledgeBases, deletedBases, activeSpaces, consumerTask,
                   poll, currentIds, circuitOpen, circuitFailures, disturbances>>

-----------------------------------------------------------------------------
(* The poller.                                                             *)

\* Initial startup: a consumer for every workspace there is, then the poller.
StartKgConsumers ==
    /\ poll = "starting"
    /\ poll' = "sleep"
    /\ activeSpaces' = knowledgeBases
    /\ consumerTask' = [w \in KgWorkspaces |->
                           IF w \in knowledgeBases THEN "live" ELSE "none"]
    /\ UNCHANGED <<knowledgeBases, deletedBases, strayTasks, currentIds,
                   circuitOpen, circuitFailures, disturbances>>

\* The sleep is over and the query returns.
PollReads ==
    /\ poll = "sleep"
    /\ poll' = "apply"
    /\ currentIds' = knowledgeBases
    /\ UNCHANGED <<knowledgeBases, deletedBases, activeSpaces, consumerTask,
                   strayTasks, circuitOpen, circuitFailures, disturbances>>

\* The query fails: one failure more, whether or not polls in between succeeded.
PollFails ==
    /\ poll = "sleep"
    /\ disturbances < MaxDisturbances
    /\ disturbances' = disturbances + 1
    /\ circuitFailures' = circuitFailures + 1
    /\ circuitOpen' = (circuitOpen \/ circuitFailures + 1 >= CircuitThreshold)
    /\ UNCHANGED <<knowledgeBases, deletedBases, activeSpaces, consumerTask,
                   strayTasks, poll, currentIds>>

\* Mutant: a consumer that died is not replaced.
ConsumersAfterPollNewOnly(added, gone) ==
    [w \in KgWorkspaces |-> IF w \in gone THEN "none"
                            ELSE IF w \in added THEN "live" ELSE consumerTask[w]]

\* consumer_tasks after a poll: deleted workspaces have none, new ones and
\* those whose consumer died a fresh one.
ConsumersAfterPoll(added, gone) ==
    [w \in KgWorkspaces |-> IF w \in gone THEN "none"
                            ELSE IF w \in added \/ consumerTask[w] = "dead" THEN "live"
                            ELSE consumerTask[w]]

\* Only an open circuit has its failures reset.
CloseCircuit ==
    IF circuitOpen /\ circuitFailures > 0
    THEN circuitOpen' = FALSE /\ circuitFailures' = 0
    ELSE UNCHANGED <<circuitOpen, circuitFailures>>

\* The rest of a poll.
PollApplies ==
    LET added == currentIds \ activeSpaces
        gone  == activeSpaces \ currentIds
    IN  /\ poll = "apply"
        /\ poll' = "sleep"
        /\ activeSpaces' = (activeSpaces \cup added) \ gone
        /\ consumerTask' = ConsumersAfterPoll(added, gone)
        /\ strayTasks' = strayTasks \cup {w \in gone : consumerTask[w] = "live"}
        /\ CloseCircuit
        /\ UNCHANGED <<knowledgeBases, deletedBases, currentIds, disturbances>>

\* pause or shutdown cancels the task: the poller and every consumer in
\* consumer_tasks are cancelled and awaited.
CancelKgWorker ==
    /\ poll \in {"sleep", "apply"}
    /\ poll' = "stopped"
    /\ consumerTask' = [w \in KgWorkspaces |->
                           IF consumerTask[w] = "live" THEN "dead" ELSE consumerTask[w]]
    /\ UNCHANGED <<knowledgeBases, deletedBases, activeSpaces, strayTasks,
                   currentIds, circuitOpen, circuitFailures, disturbances>>

-----------------------------------------------------------------------------
KgConsumersNext ==
    \/ \E w \in KgWorkspaces :
          \/ CreateKnowledgeBase(w)
          \/ DeleteKnowledgeBase(w)
          \/ KgConsumerDies(w)
          \/ StrayConsumerEnds(w)
    \/ StartKgConsumers
    \/ PollReads
    \/ PollFails
    \/ PollApplies
    \/ CancelKgWorker

\* The poller runs, and a failed query is followed by one that succeeds.
KgConsumersFairness ==
    /\ WF_kgConsumerVars(StartKgConsumers)
    /\ WF_kgConsumerVars(PollReads)
    /\ WF_kgConsumerVars(PollApplies)
    /\ \A w \in KgWorkspaces : WF_kgConsumerVars(StrayConsumerEnds(w))

KgConsumersSpec ==
    KgConsumersInit /\ [][KgConsumersNext]_kgConsumerVars /\ KgConsumersFairness

-----------------------------------------------------------------------------
(* Properties.                                                             *)

\* While the worker runs, every workspace comes to have a consumer and every
\* deleted one comes to have none, whatever was created, deleted or died
\* between the query of a poll and its end.
ConsumersFollowWorkspaces ==
    \A w \in KgWorkspaces :
        /\ (w \in knowledgeBases) ~>
               (w \notin knowledgeBases \/ consumerTask[w] = "live" \/ poll = "stopped")
        /\ (w \in deletedBases) ~>
               ((consumerTask[w] = "none" /\ w \notin strayTasks) \/ poll = "stopped")

\* The circuit opens on failures that need not be consecutive, since a poll
\* that succeeds while it is closed resets nothing; what bounds the damage is
\* that an open circuit, which slows the polls down, does not stay open.
CircuitCloses == circuitOpen ~> (~circuitOpen \/ poll = "stopped")

\* The poller gets its work done in the end, though failures slow it down.
KgWorkerKeepsUp == ConsumersFollowWorkspaces /\ CircuitCloses
=============================================================================
