------------------------------- MODULE Processes -------------------------------
(***************************************************************************)
(* What runs for ever in the backend and in a worker, side by side: the    *)
(* life of a worker process, the consumers of the knowledge graph worker,  *)
(* the GPU permits of searches and the turns of the agent graph.           *)
(*                                                                         *)
(* They share no state, so that their interleavings say no more than each  *)
(* of them alone: a behaviour follows one of them, the one in focus, while *)
(* the others rest where they begin.                                       *)
(***************************************************************************)
EXTENDS Supervisor, KgConsumers, SearchPermits, AgentGraph

VARIABLE focus

processesVars == <<focus, supervisorVars, kgConsumerVars, permitVars, agentVars>>

ProcessesInit ==
    /\ focus \in {"worker", "kg_worker", "searches", "turn"}
    /\ SupervisorInit
    /\ KgConsumersInit
    /\ PermitsInit
    /\ AgentGraphInit
    /\ runner = CHOOSE t \in ConsumeTasks : TRUE      \* tasks differ in name only
    /\ focus # "kg_worker" => knowledgeBases = {}
    /\ focus # "turn" => ~react

\* A step of the part in focus leaves the others at rest.
Step(part, Next) == focus = part /\ Next /\ UNCHANGED focus

ProcessesNext ==
    \/ Step("worker", SupervisorNext) /\ UNCHANGED <<kgConsumerVars, permitVars, agentVars>>
    \/ Step("kg_worker", KgConsumersNext) /\ UNCHANGED <<supervisorVars, permitVars, agentVars>>
    \/ Step("searches", PermitsNext) /\ UNCHANGED <<supervisorVars, kgConsumerVars, agentVars>>
    \/ Step("turn", AgentGraphNext) /\ UNCHANGED <<supervisorVars, kgConsumerVars, permitVars>>

\* The fairness of the part in focus, as its own specification states it.
WorkerFairness ==
    /\ \A t \in ConsumeTasks : WF_supervisorVars(Step("worker", ConsumeEnds(t)))
    /\ WF_supervisorVars(Step("worker", FinishCommand))
    /\ WF_supervisorVars(Step("worker", HealthServerStarts))
    /\ WF_supervisorVars(Step("worker", Supervise))
    /\ WF_supervisorVars(Step("worker", ExitOnCrash))
    /\ WF_supervisorVars(Step("worker", BeginShutdown))
    /\ WF_supervisorVars(Step("worker", ShutdownStopsRunner))
    /\ WF_supervisorVars(Step("worker", ExitClean))

KgWorkerFairness ==
    /\ WF_kgConsumerVars(Step("kg_worker", StartKgConsumers))
    /\ WF_kgConsumerVars(Step("kg_worker", PollReads))
    /\ WF_kgConsumerVars(Step("kg_worker", PollApplies))
    /\ \A w \in KgWorkspaces : WF_kgConsumerVars(Step("kg_worker", StrayConsumerEnds(w)))

StopsWaiting(s) == AcquirePermit(s) \/ WaitTimesOut(s) \/ (~redisUp /\ AcquireFails(s))

SearchesFairness ==
    /\ WF_permitVars(Step("searches", PermitsTick))
    /\ \A s \in Searches :
          WF_permitVars(Step("searches", StopsWaiting(s)))

TurnFairness == WF_agentVars(Step("turn", AgentGraphNext))

ProcessesSpec == ProcessesInit /\ [][ProcessesNext]_processesVars
                 /\ WorkerFairness /\ KgWorkerFairness /\ SearchesFairness /\ TurnFairness

-----------------------------------------------------------------------------
\* The variables of every part keep their types.  Among them are limits the
\* code keeps by counting: the iterations and retries of a turn.
ProcessesTypeOK ==
    /\ SupervisorTypeOK
    /\ KgConsumersTypeOK
    /\ PermitsTypeOK
    /\ AgentGraphTypeOK
=============================================================================
