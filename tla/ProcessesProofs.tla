--------------------------- MODULE ProcessesProofs ---------------------------
(***************************************************************************)
(* Proofs about what runs for ever: the life of a worker process, the      *)
(* consumers of the knowledge graph worker, the GPU search permits and the *)
(* turns of the agent graph, each alone and then side by side, for every   *)
(* set of tasks, workspaces and searches and for all limits.               *)
(***************************************************************************)
EXTENDS Processes, FiniteSetTheorems, TLAPS

-----------------------------------------------------------------------------
(* The permits of searches.                                                *)

LEMMA PermitsTypesStart == PermitsInit => PermitsTypeOK
BY SearchPermitsAssumption DEF PermitsInit, PermitsTypeOK

LEMMA PermitsTypesKeep ==
    PermitsTypeOK /\ [PermitsNext]_permitVars => PermitsTypeOK'
<1> USE SearchPermitsAssumption
<1> SUFFICES ASSUME PermitsTypeOK, [PermitsNext]_permitVars
             PROVE  PermitsTypeOK'
  OBVIOUS
<1> USE DEF PermitsTypeOK, CallFails, AddToken, MaybeAddToken, Unexpired
<1>1. ASSUME NEW s \in Searches, TakeSlot(s)
      PROVE  PermitsTypeOK'
  BY <1>1 DEF TakeSlot
<1>2. ASSUME NEW s \in Searches, AcquirePermit(s)
      PROVE  PermitsTypeOK'
  BY <1>2 DEF AcquirePermit
<1>3. ASSUME NEW s \in Searches, WaitTimesOut(s)
      PROVE  PermitsTypeOK'
  BY <1>3 DEF WaitTimesOut
<1>4. ASSUME NEW s \in Searches, AcquireFails(s)
      PROVE  PermitsTypeOK'
  BY <1>4 DEF AcquireFails
<1>5. ASSUME NEW s \in Searches, CancelledAcquiring(s)
      PROVE  PermitsTypeOK'
  BY <1>5 DEF CancelledAcquiring
<1>6. ASSUME NEW s \in Searches, ReleasePermit(s)
      PROVE  PermitsTypeOK'
  BY <1>6 DEF ReleasePermit
<1>7. ASSUME NEW s \in Searches, ReleaseFails(s)
      PROVE  PermitsTypeOK'
  BY <1>7 DEF ReleaseFails
<1>8. ASSUME NEW b \in Backends, BackendCrashes(b)
      PROVE  PermitsTypeOK'
  BY <1>8 DEF BackendCrashes
<1>9. CASE RedisFlips
  BY <1>9 DEF RedisFlips
<1>10. CASE PermitsTick
  BY <1>10 DEF PermitsTick, UpTo
<1>11. CASE UNCHANGED permitVars
  BY <1>11 DEF permitVars
<1> QED
  BY <1>1, <1>2, <1>3, <1>4, <1>5, <1>6, <1>7, <1>8, <1>9, <1>10, <1>11 DEF PermitsNext
\* The sorted set is what the cap is taken on: it never holds more unexpired
\* tokens than the limit, and a search whose token is unexpired by its own
\* reckoning finds it there, of the same age.
PermitsInvariant ==
    /\ Cardinality(Unexpired) <= GlobalLimit
    /\ \A s \in token : search[s] = "running"
    /\ \A s \in token : heldFor[s] < PermitTtl => s \in permits /\ permitAge[s] = heldFor[s]

LEMMA UnexpiredIsFinite ==
    PermitsTypeOK => IsFiniteSet(Unexpired) /\ Cardinality(Unexpired) \in Nat
<1> SUFFICES ASSUME PermitsTypeOK
             PROVE  IsFiniteSet(Unexpired) /\ Cardinality(Unexpired) \in Nat
  OBVIOUS
<1>1. Unexpired \subseteq Searches
  BY DEF PermitsTypeOK, Unexpired
<1> QED
  BY <1>1, SearchPermitsAssumption, FS_Subset, FS_CardinalityType

\* A step after which no more tokens are unexpired keeps the cap.
LEMMA FewerUnexpired ==
    ASSUME PermitsTypeOK, Unexpired' \subseteq Unexpired,
           Cardinality(Unexpired) <= GlobalLimit
    PROVE  Cardinality(Unexpired') <= GlobalLimit
<1>1. IsFiniteSet(Unexpired) /\ Cardinality(Unexpired) \in Nat
  BY UnexpiredIsFinite
<1>2. Cardinality(Unexpired') <= Cardinality(Unexpired) /\ Cardinality(Unexpired') \in Nat
  BY <1>1, FS_Subset, FS_CardinalityType
<1> QED
  BY <1>1, <1>2, SearchPermitsAssumption

\* The script adds a token only where one is free.
LEMMA AddTokenKeepsTheCap ==
    ASSUME PermitsTypeOK, NEW s \in Searches, AddToken(s)
    PROVE  Cardinality(Unexpired') <= GlobalLimit
<1> DEFINE U == Unexpired
<1>1. IsFiniteSet(U) /\ Cardinality(U) \in Nat
  BY UnexpiredIsFinite
<1>2. Unexpired' \subseteq U \cup {s}
  BY DEF AddToken, Unexpired, PermitsTypeOK
<1>3. Cardinality(U) < GlobalLimit
  BY DEF AddToken, Room
<1> HIDE DEF U
<1>4. IsFiniteSet(U \cup {s}) /\ Cardinality(U \cup {s}) <= Cardinality(U) + 1
  <2>1. IsFiniteSet(U \cup {s})
    BY <1>1, FS_AddElement
  <2>2. Cardinality(U \cup {s}) = IF s \in U THEN Cardinality(U) ELSE Cardinality(U) + 1
    BY <1>1, FS_AddElement
  <2> QED
    BY <1>1, <2>1, <2>2
<1>5. Cardinality(Unexpired') <= Cardinality(U \cup {s})
  BY <1>2, <1>4, FS_Subset
<1>6. Cardinality(U \cup {s}) \in Nat /\ Cardinality(Unexpired') \in Nat
  BY <1>2, <1>4, FS_Subset, FS_CardinalityType
<1> QED
  BY <1>1, <1>3, <1>4, <1>5, <1>6, SearchPermitsAssumption

\* What a lost or cancelled call leaves behind takes no holder's token away.
LEMMA MaybeAddTokenKeeps ==
    ASSUME PermitsTypeOK, PermitsInvariant, NEW s \in Searches, s \notin token,
           MaybeAddToken(s), UNCHANGED <<token, heldFor>>
    PROVE  /\ Cardinality(Unexpired') <= GlobalLimit
           /\ \A q \in token' : heldFor'[q] < PermitTtl =>
                                    q \in permits' /\ permitAge'[q] = heldFor'[q]
<1> USE SearchPermitsAssumption
<1>1. CASE UNCHANGED <<permits, permitAge>>
  <2>1. Unexpired' = Unexpired
    BY <1>1 DEF Unexpired
  <2> QED
    BY <1>1, <2>1 DEF PermitsInvariant
<1>2. CASE AddToken(s)
  <2>1. Cardinality(Unexpired') <= GlobalLimit
    BY <1>2, AddTokenKeepsTheCap
  <2>2. ASSUME NEW q \in token', heldFor'[q] < PermitTtl
        PROVE  q \in permits' /\ permitAge'[q] = heldFor'[q]
    BY <1>2, <2>2 DEF AddToken, Unexpired, PermitsInvariant, PermitsTypeOK
  <2> QED
    BY <2>1, <2>2
<1> QED
  BY <1>1, <1>2 DEF MaybeAddToken

LEMMA PermitsStep ==
    ASSUME PermitsTypeOK, PermitsInvariant, [PermitsNext]_permitVars
    PROVE  PermitsInvariant'
<1> USE SearchPermitsAssumption DEF PermitsTypeOK
<1>1. ASSUME NEW s \in Searches, TakeSlot(s) \/ WaitTimesOut(s)
      PROVE  PermitsInvariant'
  <2>1. Unexpired' = Unexpired
    BY <1>1 DEF TakeSlot, WaitTimesOut, Unexpired
  <2>2. UNCHANGED <<token, permits, permitAge, heldFor>>
    BY <1>1 DEF TakeSlot, WaitTimesOut
  <2>3. \A q \in token' : search'[q] = "running"
    BY <1>1 DEF TakeSlot, WaitTimesOut, PermitsInvariant
  <2> QED
    BY <2>1, <2>2, <2>3 DEF PermitsInvariant
<1>2. ASSUME NEW s \in Searches, AcquirePermit(s)
      PROVE  PermitsInvariant'
  <2>1. Cardinality(Unexpired') <= GlobalLimit
    BY <1>2, AddTokenKeepsTheCap DEF AcquirePermit
  <2>2. \A q \in token' : search'[q] = "running"
    BY <1>2 DEF AcquirePermit, PermitsInvariant
  <2>3. ASSUME NEW q \in token', heldFor'[q] < PermitTtl
        PROVE  q \in permits' /\ permitAge'[q] = heldFor'[q]
    BY <1>2, <2>3 DEF AcquirePermit, AddToken, Unexpired, PermitsInvariant
  <2> QED
    BY <2>1, <2>2, <2>3 DEF PermitsInvariant
<1>3. ASSUME NEW s \in Searches, AcquireFails(s) \/ CancelledAcquiring(s)
      PROVE  PermitsInvariant'
  <2>1. s \notin token
    BY <1>3 DEF AcquireFails, CancelledAcquiring, PermitsInvariant
  <2>2. MaybeAddToken(s) /\ UNCHANGED <<token, heldFor>>
    BY <1>3 DEF AcquireFails, CancelledAcquiring
  <2>3. \A q \in token' : search'[q] = "running"
    BY <1>3, <2>1 DEF AcquireFails, CancelledAcquiring, PermitsInvariant
  <2> QED
    BY <2>1, <2>2, <2>3, MaybeAddTokenKeeps DEF PermitsInvariant
<1>4. ASSUME NEW s \in Searches, ReleasePermit(s) \/ ReleaseFails(s)
      PROVE  PermitsInvariant'
  <2>1. permits' \subseteq permits /\ permits \subseteq permits' \cup {s}
    BY <1>4 DEF ReleasePermit, ReleaseFails
  <2>2. token' = token \ {s} /\ UNCHANGED <<permitAge, heldFor>>
    BY <1>4 DEF ReleasePermit, ReleaseFails
  <2>3. Cardinality(Unexpired') <= GlobalLimit
    BY <2>1, <2>2, FewerUnexpired DEF Unexpired, PermitsInvariant
  <2>4. \A q \in token' : search'[q] = "running"
    BY <1>4, <2>2 DEF ReleasePermit, ReleaseFails, PermitsInvariant
  <2>5. ASSUME NEW q \in token', heldFor'[q] < PermitTtl
        PROVE  q \in permits' /\ permitAge'[q] = heldFor'[q]
    BY <2>1, <2>2, <2>5 DEF PermitsInvariant
  <2> QED
    BY <2>3, <2>4, <2>5 DEF PermitsInvariant
<1>5. ASSUME NEW b \in Backends, BackendCrashes(b)
      PROVE  PermitsInvariant'
  <2>1. Unexpired' = Unexpired
    BY <1>5 DEF BackendCrashes, Unexpired
  <2>2. \A q \in token' : search'[q] = "running"
    BY <1>5 DEF BackendCrashes, PermitsInvariant
  <2> QED
    BY <1>5, <2>1, <2>2 DEF BackendCrashes, PermitsInvariant
<1>6. CASE RedisFlips
  <2>1. Unexpired' = Unexpired
    BY <1>6 DEF RedisFlips, Unexpired
  <2> QED
    BY <1>6, <2>1 DEF RedisFlips, PermitsInvariant
<1>7. CASE PermitsTick
  <2>1. \A q \in Searches : permitAge'[q] < PermitTtl => permitAge[q] < PermitTtl
    BY <1>7 DEF PermitsTick, UpTo
  <2>2. Unexpired' \subseteq Unexpired
    BY <1>7, <2>1 DEF PermitsTick, Unexpired
  <2>3. Cardinality(Unexpired') <= GlobalLimit
    BY <2>2, FewerUnexpired DEF PermitsInvariant
  <2>4. ASSUME NEW q \in token', heldFor'[q] < PermitTtl
        PROVE  q \in permits' /\ permitAge'[q] = heldFor'[q]
    <3>1. q \in token /\ q \in Searches /\ heldFor'[q] = UpTo(heldFor[q], PermitTtl)
      BY <1>7 DEF PermitsTick
    <3>2. heldFor[q] < PermitTtl
      BY <2>4, <3>1 DEF UpTo
    <3>3. q \in permits /\ permitAge[q] = heldFor[q]
      BY <3>1, <3>2 DEF PermitsInvariant
    <3> QED
      BY <1>7, <3>1, <3>3 DEF PermitsTick
  <2> QED
    BY <1>7, <2>3, <2>4 DEF PermitsTick, PermitsInvariant
<1>8. CASE UNCHANGED permitVars
  <2>1. Unexpired' = Unexpired
    BY <1>8 DEF permitVars, Unexpired
  <2> QED
    BY <1>8, <2>1 DEF permitVars, PermitsInvariant
<1> QED
  BY <1>1, <1>2, <1>3, <1>4, <1>5, <1>6, <1>7, <1>8 DEF PermitsNext

LEMMA PermitsStart == PermitsInit => PermitsInvariant
<1> USE SearchPermitsAssumption
<1> SUFFICES ASSUME PermitsInit
             PROVE  PermitsInvariant
  OBVIOUS
<1>1. Unexpired = {}
  BY DEF PermitsInit, Unexpired
<1>2. Cardinality(Unexpired) = 0
  BY <1>1, FS_EmptySet
<1> QED
  BY <1>2 DEF PermitsInit, PermitsInvariant

LEMMA PermitsAreCounted ==
    PermitsTypeOK /\ PermitsInvariant => PermitsBounded /\ GrantsAreCounted
<1> USE SearchPermitsAssumption
<1> SUFFICES ASSUME PermitsTypeOK, PermitsInvariant
             PROVE  PermitsBounded /\ GrantsAreCounted
  OBVIOUS
<1>1. FreshHolders \subseteq Unexpired
  BY DEF FreshHolders, Unexpired, PermitsInvariant
<1>2. IsFiniteSet(Unexpired) /\ Cardinality(Unexpired) \in Nat
  BY UnexpiredIsFinite
<1>3. Cardinality(FreshHolders) <= Cardinality(Unexpired) /\ Cardinality(FreshHolders) \in Nat
  BY <1>1, <1>2, FS_Subset, FS_CardinalityType
<1>4. PermitsBounded
  BY <1>2, <1>3 DEF PermitsBounded, PermitsInvariant
<1>5. GrantsAreCounted
  BY <1>1 DEF GrantsAreCounted, Unexpired
<1> QED
  BY <1>4, <1>5

-----------------------------------------------------------------------------
(* The consume task of a worker.                                           *)

\* A paused worker has no runner, and whoever holds the lock has cancelled it.
\* Nobody consumes but the runner; a task that ends or unwinds without having
\* been cancelled by its controller has crashed; those that main and the
\* controller refer to were started.
SupervisorInv ==
    /\ SupervisorTypeOK
    /\ pausedFlag => runner = NoTask
    /\ command # "none" => runner \notin Consuming
    /\ Consuming \subseteq {runner}
    /\ \A t \in ConsumeTasks :
          /\ task[t] = "cancelling" => t \in intentional
          /\ task[t] = "ended" => t \in intentional \cup crashed
          /\ t \in {runner, watched} => task[t] # "unused"
    /\ NoFalseCrash

LEMMA SupervisorStarts == SupervisorInit => SupervisorInv
<1> USE SupervisorAssumption
<1> SUFFICES ASSUME SupervisorInit PROVE SupervisorInv
  OBVIOUS
<1>1. SupervisorTypeOK
  <2> PICK t \in ConsumeTasks : SupervisorInit!(t)
    BY DEF SupervisorInit
  <2>1. {pausedFlag, stopping, listening, signalled} \subseteq BOOLEAN
    BY ZenonT(20)
  <2>2. task \in [ConsumeTasks -> {"unused", "running", "cancelling", "ended"}]
    OBVIOUS
  <2> QED BY <2>1, <2>2 DEF SupervisorTypeOK, Lockers, Commands
<1> QED
  BY <1>1 DEF SupervisorInit, SupervisorInv, Consuming, NoFalseCrash

LEMMA SupervisorKeeps ==
    SupervisorInv /\ [SupervisorNext]_supervisorVars => SupervisorInv'
<1> USE SupervisorAssumption DEF SupervisorInv, SupervisorTypeOK, Consuming, NoFalseCrash,
        Lockers, Commands
<1> SUFFICES ASSUME SupervisorInv, [SupervisorNext]_supervisorVars
             PROVE  SupervisorInv'
  OBVIOUS
<1>1. ASSUME NEW t \in ConsumeTasks, ConsumeCrashes(t)
      PROVE  SupervisorInv'
  BY <1>1 DEF ConsumeCrashes
<1>2. ASSUME NEW t \in ConsumeTasks, ConsumeEnds(t)
      PROVE  SupervisorInv'
  BY <1>2 DEF ConsumeEnds
<1>3. CASE Pause
  BY <1>3 DEF Pause, TakesCommand, BeginStopRunner
<1>4. CASE SetPrefetch
  BY <1>4 DEF SetPrefetch, TakesCommand, BeginStopRunner
<1>5. CASE Resume
  <2>1. CASE ~pausedFlag /\ runner # NoTask /\ runner \in Alive
    BY <1>5, <2>1 DEF Resume, TakesCommand
  <2>2. CASE ~(~pausedFlag /\ runner # NoTask /\ runner \in Alive)
    <3>1. PICK t \in ConsumeTasks : task[t] = "unused" /\ task' = Started(task, t) /\ runner' = t
      BY <1>5, <2>2 DEF Resume
    <3>2. UNCHANGED <<crashed, intentional, command, watched, process, stopping, listening,
                     sigHandler, signalled>>
          /\ pausedFlag' = FALSE /\ command = "none" /\ requests' \in 0..MaxCommands
      BY <1>5, <2>2 DEF Resume, TakesCommand
    <3>3. Consuming' = {t}
      BY <2>2, <3>1 DEF Started, Alive
    <3>4. SupervisorTypeOK'
      BY <3>1, <3>2 DEF Started
    <3> QED BY <3>1, <3>2, <3>3, <3>4 DEF Started
  <2> QED BY <2>1, <2>2
<1>6. CASE RestartCommand
  BY <1>6 DEF RestartCommand, TakesCommand
<1>7. CASE FinishCommand \/ DrainTimesOut
  <2>0. UNCHANGED <<crashed, intentional, watched, process, stopping, listening, sigHandler,
                   signalled, requests>> /\ command' = "none"
    BY <1>7 DEF FinishCommand, DrainTimesOut
  <2>1. CASE FinishPause \/ (FinishSetPrefetch /\ pausedFlag)
    BY <2>0, <2>1 DEF FinishPause, FinishSetPrefetch
  <2>2. CASE FinishSetPrefetch /\ ~pausedFlag
    <3>1. PICK t \in ConsumeTasks : task[t] = "unused" /\ task' = Started(task, t) /\ runner' = t
      BY <2>2 DEF FinishSetPrefetch
    <3>2. Consuming' = {t} /\ pausedFlag' = FALSE
      BY <2>2, <3>1 DEF Started, FinishSetPrefetch
    <3> QED BY <2>0, <3>1, <3>2 DEF Started
  <2> QED BY <1>7, <2>1, <2>2 DEF FinishCommand, DrainTimesOut
<1>8. CASE HealthServerStarts
  BY <1>8 DEF HealthServerStarts
<1>9. CASE SignalArrives
  BY <1>9 DEF SignalArrives
<1>10. CASE Supervise
  BY <1>10 DEF Supervise
<1>11. CASE ExitOnCrash
  BY <1>11 DEF ExitOnCrash, Alive
<1>12. CASE BeginShutdown
  BY <1>12 DEF BeginShutdown, FinishPause, FinishSetPrefetch, Started
<1>13. CASE ShutdownStopsRunner
  BY <1>13 DEF ShutdownStopsRunner, BeginStopRunner
<1>14. CASE ExitClean
  BY <1>14 DEF ExitClean
<1>15. CASE UNCHANGED supervisorVars
  BY <1>15 DEF supervisorVars
<1> QED
  BY <1>1, <1>2, <1>3, <1>4, <1>5, <1>6, <1>7, <1>8, <1>9, <1>10, <1>11, <1>12, <1>13,
     <1>14, <1>15 DEF SupervisorNext

-----------------------------------------------------------------------------
(* The consumers of the knowledge graph worker.                            *)

\* A failed poll is a disturbance.  A workspace whose consumer is alive or died
\* is one of active_workspaces: there is none left behind that the next poll
\* would not look at.
KgConsumersInv ==
    /\ KgConsumersTypeOK
    /\ circuitFailures <= disturbances
    /\ \A w \in KgWorkspaces : consumerTask[w] # "none" <=> w \in activeSpaces
    /\ circuitOpen => circuitFailures > 0

LEMMA KgConsumersStart == KgConsumersInit => KgConsumersInv
<1> SUFFICES ASSUME KgConsumersInit PROVE KgConsumersInv
  OBVIOUS
<1>1. {knowledgeBases, deletedBases, activeSpaces, currentIds, strayTasks}
         \subseteq SUBSET KgWorkspaces
  BY DEF KgConsumersInit
<1>2. circuitOpen \in BOOLEAN
  BY Zenon DEF KgConsumersInit
<1>3. consumerTask \in [KgWorkspaces -> {"none", "live", "dead"}]
  BY DEF KgConsumersInit
<1>4. circuitFailures \in 0..MaxDisturbances /\ disturbances \in 0..MaxDisturbances
  BY KgConsumersAssumption DEF KgConsumersInit
<1> QED
  BY <1>1, <1>2, <1>3, <1>4 DEF KgConsumersInit, KgConsumersInv, KgConsumersTypeOK

LEMMA KgConsumersKeep ==
    KgConsumersInv /\ [KgConsumersNext]_kgConsumerVars => KgConsumersInv'
<1> USE KgConsumersAssumption DEF KgConsumersInv, KgConsumersTypeOK, pollerVars
<1> SUFFICES ASSUME KgConsumersInv, [KgConsumersNext]_kgConsumerVars
             PROVE  KgConsumersInv'
  OBVIOUS
<1>1. ASSUME NEW w \in KgWorkspaces, CreateKnowledgeBase(w) \/ DeleteKnowledgeBase(w)
      PROVE  KgConsumersInv'
  BY <1>1 DEF CreateKnowledgeBase, DeleteKnowledgeBase
<1>2. ASSUME NEW w \in KgWorkspaces, KgConsumerDies(w)
      PROVE  KgConsumersInv'
  BY <1>2 DEF KgConsumerDies
<1>3. ASSUME NEW w \in KgWorkspaces, StrayConsumerEnds(w)
      PROVE  KgConsumersInv'
  BY <1>3 DEF StrayConsumerEnds
<1>4. CASE StartKgConsumers
  BY <1>4 DEF StartKgConsumers
<1>5. CASE PollReads
  BY <1>5 DEF PollReads
<1>6. CASE PollFails
  BY <1>6 DEF PollFails
<1>7. CASE PollApplies
  <2> DEFINE added == currentIds \ activeSpaces
             gone  == activeSpaces \ currentIds
  <2>1. /\ poll' = "sleep"
        /\ activeSpaces' = (activeSpaces \cup added) \ gone
        /\ consumerTask' = ConsumersAfterPoll(added, gone)
        /\ strayTasks' = strayTasks \cup {w \in gone : consumerTask[w] = "live"}
        /\ CloseCircuit
        /\ UNCHANGED <<knowledgeBases, deletedBases, currentIds, disturbances>>
    BY <1>7, Zenon DEF PollApplies
  <2>2. /\ circuitOpen' \in BOOLEAN /\ circuitFailures' \in 0..MaxDisturbances
        /\ circuitFailures' <= disturbances' /\ (circuitOpen' => circuitFailures' > 0)
    <3>1. CASE circuitOpen /\ circuitFailures > 0
      <4>1. circuitOpen' = FALSE /\ circuitFailures' = 0
        BY <2>1, <3>1 DEF CloseCircuit
      <4>2. circuitOpen' \in BOOLEAN
        BY <4>1, Zenon
      <4> QED BY <2>1, <4>1, <4>2
    <3>2. CASE ~(circuitOpen /\ circuitFailures > 0)
      BY <2>1, <3>2 DEF CloseCircuit
    <3> QED BY <3>1, <3>2
  <2>3. consumerTask' \in [KgWorkspaces -> {"none", "live", "dead"}]
    BY <2>1 DEF ConsumersAfterPoll
  <2>4. \A w \in KgWorkspaces : consumerTask'[w] # "none" <=> w \in activeSpaces'
    BY <2>1 DEF ConsumersAfterPoll
  <2>5. {knowledgeBases, deletedBases, activeSpaces, currentIds, strayTasks}'
           \subseteq SUBSET KgWorkspaces
    BY <2>1
  <2> QED BY <2>1, <2>2, <2>3, <2>4, <2>5
<1>8. CASE CancelKgWorker
  BY <1>8 DEF CancelKgWorker
<1>9. CASE UNCHANGED kgConsumerVars
  BY <1>9 DEF kgConsumerVars
<1> QED
  BY <1>1, <1>2, <1>3, <1>4, <1>5, <1>6, <1>7, <1>8, <1>9 DEF KgConsumersNext

-----------------------------------------------------------------------------
(* A turn of the agent graph.                                              *)

\* The rag node has run for every step of the plan that was left behind, and,
\* when its results are evaluated, for the one the turn is at.  The turn is at
\* a step of the plan, or at the first where there is no plan.
AgentGraphInv ==
    /\ AgentGraphTypeOK
    /\ turn.current_step \in 1..(MaxPlanSteps + 1)
    /\ turn.current_step = 1 \/ turn.current_step <= Len(turn.sub_queries)
    /\ 1..(turn.current_step - 1) \subseteq searched
    /\ node = "result_evaluator" => turn.current_step \in searched
    /\ node = "query_analyzer" => turn.current_step = 1

LEMMA PlansAreShort ==
    ASSUME NEW plan \in Plans
    PROVE  Len(plan) \in 0..MaxPlanSteps /\ \A i \in 1..Len(plan) : plan[i] \in StepIntents
<1>1. CASE plan = <<>>
  BY <1>1, AgentGraphAssumption
<1>2. CASE plan # <<>>
  <2>1. PICK n \in 2..MaxPlanSteps : plan \in [1..n -> StepIntents]
    BY <1>2 DEF Plans
  <2>2. plan \in Seq(StepIntents) /\ Len(plan) = n
    BY <2>1, AgentGraphAssumption
  <2> QED BY <2>1, <2>2, AgentGraphAssumption
<1> QED BY <1>1, <1>2

LEMMA AgentGraphStarts == AgentGraphInit => AgentGraphInv
<1> USE AgentGraphAssumption
<1> SUFFICES ASSUME AgentGraphInit PROVE AgentGraphInv
  OBVIOUS
<1>1. <<>> \in Plans
  BY DEF Plans
<1>2. turn \in TurnStates
  BY <1>1 DEF AgentGraphInit, TurnStates, Intents, PendingIntents
<1>3. AgentGraphTypeOK
  BY <1>2 DEF AgentGraphInit, AgentGraphTypeOK, Nodes
<1> QED BY <1>3 DEF AgentGraphInit, AgentGraphInv

\* A step of a node that keeps the plan and the step it is at.
LEMMA NodeReturns ==
    ASSUME AgentGraphInv, NEW state \in TurnStates, NEW next \in Nodes \ {"query_analyzer"},
           Update(state, next), NoFault \/ Fault,
           state.current_step = turn.current_step, state.sub_queries = turn.sub_queries,
           searched' \in {searched, searched \cup {turn.current_step}},
           next = "result_evaluator" => searched' # searched \/ turn.current_step \in searched
    PROVE  AgentGraphInv'
<1> USE AgentGraphAssumption DEF AgentGraphInv, AgentGraphTypeOK
<1>1. turn' = state /\ node' = next /\ react' = react
  BY DEF Update
<1>2. agentFaults' \in 0..MaxAgentFaults
  BY DEF NoFault, Fault
<1>3. searched' \in SUBSET (1..MaxPlanSteps + 1)
  OBVIOUS
<1>4. AgentGraphTypeOK'
  BY <1>1, <1>2, <1>3
<1> QED BY <1>1, <1>4

\* What the supervisor routes to.
LEMMA SupervisorRoute ==
    ASSUME NEW s, s \in TurnStates, s.next_agent # "supervisor_loop"
    PROVE  RouteFromSupervisor(s) \in Nodes \ {"query_analyzer", "result_evaluator"}
BY DEF RouteFromSupervisor, TurnStates, Nodes, RagNode

LEMMA EnricherRoute ==
    ASSUME NEW s
    PROVE  RouteFromEnricher(s) \in Nodes \ {"query_analyzer", "result_evaluator"}
BY DEF RouteFromEnricher, Nodes, RagNode

LEMMA AgentsOfIntents ==
    \A i \in Intents : AgentOf[i] \in {"rag", "resolve_doc", "write", "people", "direct"}
BY DEF Intents, AgentOf

\* A decision is an iteration.
LEMMA IterationsCount ==
    ASSUME turn \in TurnStates, turn.iterations < MaxIterations
    PROVE  turn.iterations + 1 \in 0..MaxIterations
<1>1. turn.iterations \in 0..MaxIterations
  BY DEF TurnStates
<1> QED BY <1>1, AgentGraphAssumption

LEMMA SupervisorNodeReturns ==
    ASSUME AgentGraphInv, SupervisorResumesSection \/ SupervisorForcesFinish
                          \/ SupervisorAnswersFromResults \/ SupervisorRoutes \/ SupervisorFails
    PROVE  AgentGraphInv'
<1> USE AgentGraphAssumption
<1>0. turn \in TurnStates /\ turn.current_step \in Nat /\ turn.current_step > 0
  BY DEF AgentGraphInv, AgentGraphTypeOK
<1>1. CASE SupervisorResumesSection
  <2> DEFINE s == [turn EXCEPT !.next_agent = "rag", !.should_loop_back = FALSE]
  <2>1. Update(s, RouteFromSupervisor(s)) /\ NoFault /\ UNCHANGED searched
    BY <1>1 DEF SupervisorResumesSection, Update
  <2>2. s \in TurnStates /\ s.next_agent = "rag"
        /\ s.current_step = turn.current_step /\ s.sub_queries = turn.sub_queries
    BY <1>0 DEF TurnStates
  <2> HIDE DEF s
  <2> QED BY <2>1, <2>2, SupervisorRoute, NodeReturns
<1>2. CASE SupervisorForcesFinish
  <2> DEFINE s == [turn EXCEPT !.next_agent = "finish"]
  <2>1. Update(s, RouteFromSupervisor(s)) /\ NoFault /\ UNCHANGED searched
    BY <1>2 DEF SupervisorForcesFinish, Update
  <2>2. s \in TurnStates /\ s.next_agent = "finish"
        /\ s.current_step = turn.current_step /\ s.sub_queries = turn.sub_queries
    BY <1>0 DEF TurnStates
  <2> HIDE DEF s
  <2> QED BY <2>1, <2>2, SupervisorRoute, NodeReturns
<1>3. CASE SupervisorAnswersFromResults
  <2> DEFINE s == [turn EXCEPT !.next_agent = "answer_generator", !.intent = "summarize",
                               !.iterations = @ + 1, !.should_loop_back = FALSE]
  <2>1. Update(s, RouteFromSupervisor(s)) /\ NoFault /\ UNCHANGED searched
        /\ turn.iterations < MaxIterations
    BY <1>3 DEF SupervisorAnswersFromResults, SupervisorDecides, Update
  <2>2. s \in TurnStates /\ s.next_agent = "answer_generator"
        /\ s.current_step = turn.current_step /\ s.sub_queries = turn.sub_queries
    <3>1. turn.iterations + 1 \in 0..MaxIterations
      BY <1>0, <2>1, IterationsCount
    <3>2. "summarize" \in Intents \cup {"none"}
      BY DEF Intents, AgentOf
    <3> QED BY <1>0, <3>1, <3>2 DEF TurnStates
  <2> HIDE DEF s
  <2> QED BY <2>1, <2>2, SupervisorRoute, NodeReturns
<1>4. CASE SupervisorFails
  <2> DEFINE s == [turn EXCEPT !.next_agent = "rag", !.iterations = @ + 1,
                               !.intent = IF @ = "none" THEN "search" ELSE @]
  <2>1. Update(s, RouteFromSupervisor(s)) /\ Fault /\ UNCHANGED searched
        /\ turn.iterations < MaxIterations
    BY <1>4 DEF SupervisorFails, SupervisorDecides, Update
  <2>2. s \in TurnStates /\ s.next_agent = "rag"
        /\ s.current_step = turn.current_step /\ s.sub_queries = turn.sub_queries
    <3>1. turn.iterations + 1 \in 0..MaxIterations
      BY <1>0, <2>1, IterationsCount
    <3>2. (IF turn.intent = "none" THEN "search" ELSE turn.intent) \in Intents \cup {"none"}
      BY <1>0 DEF TurnStates, Intents, AgentOf
    <3> QED BY <1>0, <3>1, <3>2 DEF TurnStates
  <2> HIDE DEF s
  <2> QED BY <2>1, <2>2, SupervisorRoute, NodeReturns
<1>5. CASE SupervisorRoutes
  <2>1. PICK d \in Decisions :
           Update(IF StepsLeft THEN PlannedStep(Decided(d)) ELSE Decided(d),
                  RouteFromSupervisor(turn'))
    BY <1>5 DEF SupervisorRoutes
  <2>2. NoFault /\ UNCHANGED searched /\ turn.iterations < MaxIterations
    BY <1>5 DEF SupervisorRoutes, SupervisorDecides
  <2> DEFINE s == Decided(d)
  <2>3. d.intent \in Intents /\ d.next_agent \in {"agent_of_intent", "finish"}
        /\ d.pending_intent \in PendingIntents /\ d.needs_memory \in BOOLEAN
    BY DEF Decisions
  <2>4. AgentOf[d.intent] \in {"rag", "resolve_doc", "write", "people", "direct"}
    BY <2>3, AgentsOfIntents
  <2>5. s \in TurnStates /\ s.next_agent # "supervisor_loop"
        /\ s.current_step = turn.current_step /\ s.sub_queries = turn.sub_queries
    <3>1. turn.iterations + 1 \in 0..MaxIterations
      BY <1>0, <2>2, IterationsCount
    <3>2. (turn.section_reference \/ turn.sections) \in BOOLEAN
      BY <1>0, Zenon DEF TurnStates
    <3>3. (IF d.next_agent = "finish" THEN "finish" ELSE AgentOf[d.intent])
             \in {"rag", "resolve_doc", "write", "people", "direct", "finish"}
      BY <2>3, <2>4
    <3> DEFINE b == turn.section_reference \/ turn.sections
               a == IF d.next_agent = "finish" THEN "finish" ELSE AgentOf[d.intent]
               n == turn.iterations + 1
    <3>4. s = [turn EXCEPT !.intent = d.intent, !.pending_intent = d.pending_intent,
                           !.needs_memory = d.needs_memory, !.next_agent = a,
                           !.section_reference = b, !.should_loop_back = FALSE,
                           !.iterations = n]
      BY Zenon DEF Decided
    <3>5. b \in BOOLEAN /\ n \in 0..MaxIterations
          /\ a \in {"rag", "resolve_doc", "write", "people", "direct", "finish"}
      BY <3>1, <3>2, <3>3
    <3> HIDE DEF a, b, n, s
    <3> QED BY <1>0, <2>3, <3>4, <3>5 DEF TurnStates
  <2> HIDE DEF s
  <2>6. CASE ~StepsLeft
    <3>1. Update(s, RouteFromSupervisor(s))
      BY <2>1, <2>6 DEF Update, s
    <3> QED BY <2>2, <2>5, <3>1, SupervisorRoute, NodeReturns
  <2>7. CASE StepsLeft
    <3> DEFINE t == PlannedStep(s)
               intent == s.sub_queries[s.current_step]
               last == s.sub_queries[Len(s.sub_queries)]
    <3>1. Update(t, RouteFromSupervisor(t))
      BY <2>1, <2>7 DEF Update, s
    <3>2. s.sub_queries \in Plans
      BY <2>5 DEF TurnStates
    <3>3. intent \in StepIntents /\ last \in StepIntents
      BY <1>0, <2>5, <2>7, <3>2, PlansAreShort DEF StepsLeft
    <3>4. AgentOf[intent] \in {"rag", "resolve_doc", "write", "people", "direct"}
          /\ intent \in Intents
      BY <3>3, AgentsOfIntents DEF StepIntents, Intents, AgentOf
    <3> HIDE DEF intent, last
    <3>5. t = [s EXCEPT !.intent = intent, !.next_agent = AgentOf[intent],
                        !.pending_intent = IF s.current_step < Len(s.sub_queries) THEN last
                                           ELSE @]
      BY DEF PlannedStep, intent, last
    <3> HIDE DEF t
    <3>6. t \in TurnStates /\ t.next_agent # "supervisor_loop"
          /\ t.current_step = turn.current_step /\ t.sub_queries = turn.sub_queries
      BY <2>5, <3>3, <3>4, <3>5 DEF TurnStates
    <3> QED BY <2>2, <3>1, <3>6, SupervisorRoute, NodeReturns
  <2> QED BY <2>6, <2>7
<1> QED BY <1>1, <1>2, <1>3, <1>4, <1>5

\* What the tool of a rag intent returned is evaluated only after the step was
\* recorded as searched.
LEMMA RagNodeReturns ==
    ASSUME AgentGraphInv, RagFinds \/ RagHasNoTool \/ RagFails
    PROVE  AgentGraphInv'
<1> USE AgentGraphAssumption
<1>0. turn \in TurnStates /\ turn.current_step \in Nat /\ turn.current_step > 0
  BY DEF AgentGraphInv, AgentGraphTypeOK
<1>1. \A s : RouteFromRag(s) \in {"supervisor", "result_evaluator"}
  BY DEF RouteFromRag
<1>2. \A s \in TurnStates :
         /\ s.current_step = turn.current_step /\ s.sub_queries = turn.sub_queries
         /\ Update(s, RouteFromRag(s)) /\ (NoFault \/ Fault)
         /\ searched' = searched \cup {turn.current_step}
         => AgentGraphInv'
  BY <1>1, NodeReturns DEF Nodes
<1>3. CASE RagFinds
  <2>1. PICK found \in BOOLEAN, hit \in BOOLEAN :
          LET mapped ==
                CASE turn.intent = "search_section" -> SectionUpdate
                  [] turn.intent = "search_abbr" -> AbbreviationUpdate(hit)
                  [] OTHER -> [turn EXCEPT !.kg_summaries = @ \/ found]
          IN  Update([mapped EXCEPT !.has_results = @ \/ found], RouteFromRag(turn'))
    BY <1>3, Zenon DEF RagFinds
  <2> DEFINE m == CASE turn.intent = "search_section" -> SectionUpdate
                  [] turn.intent = "search_abbr" -> AbbreviationUpdate(hit)
                  [] OTHER -> [turn EXCEPT !.kg_summaries = @ \/ found]
             s == [m EXCEPT !.has_results = @ \/ found]
  <2>2. m \in TurnStates /\ m.current_step = turn.current_step
        /\ m.sub_queries = turn.sub_queries
    BY <1>0 DEF TurnStates, SectionUpdate, AbbreviationUpdate, Intents, AgentOf
  <2>3. Update(s, RouteFromRag(turn'))
    BY <2>1
  <2> HIDE DEF m
  <2>4. s \in TurnStates /\ s.current_step = turn.current_step
        /\ s.sub_queries = turn.sub_queries
    BY <2>2 DEF TurnStates
  <2> HIDE DEF s
  <2>5. Update(s, RouteFromRag(s))
    BY <2>3 DEF Update
  <2> QED BY <1>2, <1>3, <2>4, <2>5 DEF RagFinds
<1>4. CASE RagHasNoTool
  <2> DEFINE s == [turn EXCEPT !.next_agent = "rag"]
  <2>1. Update(s, RouteFromRag(s))
    BY <1>4 DEF RagHasNoTool, Update
  <2>2. s \in TurnStates /\ s.current_step = turn.current_step
        /\ s.sub_queries = turn.sub_queries
    BY <1>0 DEF TurnStates
  <2> HIDE DEF s
  <2> QED BY <1>2, <1>4, <2>1, <2>2 DEF RagHasNoTool
<1>5. CASE RagFails
  <2>1. PICK long \in BOOLEAN :
          Update([turn EXCEPT !.kg_summaries = TRUE, !.has_results = @ \/ long],
                 RouteFromRag(turn'))
    BY <1>5 DEF RagFails
  <2> DEFINE s == [turn EXCEPT !.kg_summaries = TRUE, !.has_results = @ \/ long]
  <2>2. Update(s, RouteFromRag(s))
    BY <2>1 DEF Update
  <2>3. s \in TurnStates /\ s.current_step = turn.current_step
        /\ s.sub_queries = turn.sub_queries
    BY <1>0 DEF TurnStates
  <2> HIDE DEF s
  <2> QED BY <1>2, <1>5, <2>2, <2>3 DEF RagFails
<1> QED BY <1>3, <1>4, <1>5

LEMMA ResolveDocReturns ==
    ASSUME AgentGraphInv, ResolveDocAsks \/ ResolveDocFinds
    PROVE  AgentGraphInv'
<1> USE AgentGraphAssumption
<1>0. turn \in TurnStates
  BY DEF AgentGraphInv, AgentGraphTypeOK
<1>1. \A s : RouteFromResolveDoc(s) \in {"rag", "answer_generator", "END"}
  BY DEF RouteFromResolveDoc
<1>2. \A s \in TurnStates :
         /\ s.current_step = turn.current_step /\ s.sub_queries = turn.sub_queries
         /\ Update(s, RouteFromResolveDoc(s)) /\ NoFault /\ UNCHANGED searched
         => AgentGraphInv'
  BY <1>1, NodeReturns DEF Nodes
<1>3. CASE ResolveDocAsks
  <2>1. PICK b \in {turn.section_reference, TRUE, FALSE} :
          Update([turn EXCEPT !.next_agent = "finish", !.section_reference = b],
                 RouteFromResolveDoc(turn'))
    BY <1>3 DEF ResolveDocAsks
  <2> DEFINE s == [turn EXCEPT !.next_agent = "finish", !.section_reference = b]
  <2>2. Update(s, RouteFromResolveDoc(s))
    BY <2>1 DEF Update
  <2>3. b \in BOOLEAN
    <3>1. turn.section_reference \in BOOLEAN
      BY <1>0 DEF TurnStates
    <3> QED BY <3>1, Zenon
  <2>4. s \in TurnStates /\ s.current_step = turn.current_step
        /\ s.sub_queries = turn.sub_queries
    BY <1>0, <2>3 DEF TurnStates
  <2> HIDE DEF s
  <2> QED BY <1>2, <1>3, <2>2, <2>4 DEF ResolveDocAsks
<1>4. CASE ResolveDocFinds
  <2>1. PICK section \in BOOLEAN :
          Update([ResolvedState(section) EXCEPT !.section_reference = section,
                                                !.should_loop_back = FALSE],
                 RouteFromResolveDoc(turn'))
    BY <1>4 DEF ResolveDocFinds
  <2> DEFINE r == ResolvedState(section)
             s == [r EXCEPT !.section_reference = section, !.should_loop_back = FALSE]
  <2>2. Update(s, RouteFromResolveDoc(s))
    BY <2>1 DEF Update
  <2>3. turn.pending_intent \in PendingIntents \cup StepIntents
    BY <1>0 DEF TurnStates
  <2>4. turn.pending_intent \notin {"none", "search_section"} => turn.pending_intent \in Intents
    BY <2>3 DEF PendingIntents, StepIntents, Intents, AgentOf
  <2>5. r \in TurnStates /\ r.current_step = turn.current_step
        /\ r.sub_queries = turn.sub_queries
    <3> {"summarize", "search", "search_section"} \subseteq Intents
      BY DEF Intents, AgentOf
    <3> QED BY <1>0, <2>4 DEF ResolvedState, TurnStates, PendingIntents
  <2> HIDE DEF r
  <2>6. s \in TurnStates /\ s.current_step = turn.current_step
        /\ s.sub_queries = turn.sub_queries
    BY <2>5 DEF TurnStates
  <2> HIDE DEF s
  <2> QED BY <1>2, <1>4, <2>2, <2>6 DEF ResolveDocFinds
<1> QED BY <1>3, <1>4

LEMMA EvaluatorReturns ==
    ASSUME AgentGraphInv, EvaluatorAdvances \/ EvaluatorRetries \/ EvaluatorAnswers
    PROVE  AgentGraphInv'
<1> USE AgentGraphAssumption
<1>0. turn \in TurnStates /\ turn.current_step \in Nat /\ turn.current_step > 0
  BY DEF AgentGraphInv, AgentGraphTypeOK
<1>1. CASE EvaluatorAdvances
  <2> DEFINE s == [turn EXCEPT !.current_step = @ + 1, !.retry_count = 0,
                               !.next_agent = "supervisor_loop"]
  <2>1. s \in TurnStates /\ s.next_agent = "supervisor_loop"
        /\ s.current_step = turn.current_step + 1 /\ s.sub_queries = turn.sub_queries
    <3>1. turn.current_step + 1 \in Nat /\ 0 \in 0..2
      BY <1>0
    <3> QED BY <1>0, <3>1 DEF TurnStates
  <2>2. turn' = s /\ node' = RouteFromEvaluator(s) /\ UNCHANGED <<react, searched, agentFaults>>
        /\ node = "result_evaluator" /\ turn.current_step < Len(turn.sub_queries)
    BY <1>1 DEF EvaluatorAdvances, Update, NoFault, MoreSteps
  <2> HIDE DEF s
  <2>3. node' = "supervisor"
    BY <2>1, <2>2 DEF RouteFromEvaluator
  <2>4. Len(turn.sub_queries) \in 0..MaxPlanSteps
    BY <1>0, PlansAreShort DEF TurnStates
  <2>5. AgentGraphTypeOK'
    BY <2>1, <2>2, <2>3 DEF AgentGraphInv, AgentGraphTypeOK, Nodes
  <2>6. 1..(turn'.current_step - 1) \subseteq searched'
    BY <1>0, <2>1, <2>2 DEF AgentGraphInv
  <2> QED BY <1>0, <2>1, <2>2, <2>3, <2>4, <2>5, <2>6 DEF AgentGraphInv
<1>2. CASE EvaluatorRetries
  <2> DEFINE s == [turn EXCEPT !.intent = Fallback[@], !.next_agent = "rag",
                               !.retry_count = @ + 1]
  <2>1. Update(s, RouteFromEvaluator(s)) /\ NoFault /\ UNCHANGED searched
        /\ turn.retry_count < 2 /\ turn.intent \in DOMAIN Fallback
    BY <1>2 DEF EvaluatorRetries, Update, MayRetry
  <2>2. Fallback[turn.intent] \in Intents
    BY <2>1 DEF Fallback, Intents, AgentOf
  <2>3. s \in TurnStates /\ s.next_agent = "rag"
        /\ s.current_step = turn.current_step /\ s.sub_queries = turn.sub_queries
    <3>1. turn.retry_count + 1 \in 0..2
      BY <1>0, <2>1 DEF TurnStates
    <3> QED BY <1>0, <2>2, <3>1 DEF TurnStates
  <2> HIDE DEF s
  <2>4. RouteFromEvaluator(s) = "rag"
    BY <2>3 DEF RouteFromEvaluator
  <2> QED BY <2>1, <2>3, <2>4, NodeReturns DEF Nodes
<1>3. CASE EvaluatorAnswers
  <2> DEFINE s == [turn EXCEPT !.next_agent = "answer_generator"]
  <2>1. Update(s, RouteFromEvaluator(s)) /\ NoFault /\ UNCHANGED searched
    BY <1>3 DEF EvaluatorAnswers, Update
  <2>2. s \in TurnStates /\ s.next_agent = "answer_generator"
        /\ s.current_step = turn.current_step /\ s.sub_queries = turn.sub_queries
    BY <1>0 DEF TurnStates
  <2> HIDE DEF s
  <2>3. RouteFromEvaluator(s) = "answer_generator"
    BY <2>2 DEF RouteFromEvaluator
  <2> QED BY <2>1, <2>2, <2>3, NodeReturns DEF Nodes
<1> QED BY <1>1, <1>2, <1>3

LEMMA AgentGraphKeeps ==
    AgentGraphInv /\ [AgentGraphNext]_agentVars => AgentGraphInv'
<1> USE AgentGraphAssumption
<1> SUFFICES ASSUME AgentGraphInv, [AgentGraphNext]_agentVars
             PROVE  AgentGraphInv'
  OBVIOUS
<1>0. turn \in TurnStates
  BY DEF AgentGraphInv, AgentGraphTypeOK
<1>1. CASE QueryAnalyzer
  <2>1. PICK plan \in Plans, sections \in BOOLEAN :
          Update([turn EXCEPT !.sub_queries = plan, !.sections = sections], "supervisor")
    BY <1>1 DEF QueryAnalyzer
  <2> DEFINE s == [turn EXCEPT !.sub_queries = plan, !.sections = sections]
  <2>2. s \in TurnStates /\ s.current_step = turn.current_step
    BY <1>0 DEF TurnStates
  <2>3. turn' = s /\ node' = "supervisor" /\ UNCHANGED <<react, searched, agentFaults>>
        /\ node = "query_analyzer"
    BY <1>1, <2>1 DEF QueryAnalyzer, Update, NoFault
  <2> HIDE DEF s
  <2> QED BY <2>2, <2>3 DEF AgentGraphInv, AgentGraphTypeOK, Nodes
<1>2. CASE MemoryRecall \/ TerminalNode
  BY <1>0, <1>2, NodeReturns DEF MemoryRecall, TerminalNode, Nodes
<1>3. CASE QueryEnricher
  <2>1. Update(turn, RouteFromEnricher(turn)) /\ NoFault /\ UNCHANGED searched
    BY <1>3 DEF QueryEnricher, Update
  <2> QED BY <1>0, <2>1, EnricherRoute, NodeReturns
<1>4. CASE UNCHANGED agentVars
  BY <1>4 DEF agentVars, AgentGraphInv, AgentGraphTypeOK
<1> QED
  BY <1>1, <1>2, <1>3, <1>4, SupervisorNodeReturns, RagNodeReturns, ResolveDocReturns,
     EvaluatorReturns DEF AgentGraphNext

\* The results of a step are evaluated after the rag node has run for it, and the
\* answer is written when no step is left.
LEMMA PlanIsSearched ==
    ASSUME AgentGraphInv, [AgentGraphNext]_agentVars,
           node = "result_evaluator", node' = "answer_generator"
    PROVE  1..Len(turn.sub_queries) \subseteq searched
<1> USE AgentGraphAssumption
<1>0. turn \in TurnStates /\ turn.current_step \in Nat
  BY DEF AgentGraphInv, AgentGraphTypeOK
<1>1. Len(turn.sub_queries) \in Nat
  BY <1>0, PlansAreShort DEF TurnStates
<1>2. ~MoreSteps
  <2>1. CASE EvaluatorAdvances
    <3> DEFINE s == [turn EXCEPT !.current_step = @ + 1, !.retry_count = 0,
                                 !.next_agent = "supervisor_loop"]
    <3>1. s.next_agent = "supervisor_loop" /\ node' = RouteFromEvaluator(s)
      BY <1>0, <2>1 DEF EvaluatorAdvances, Update, TurnStates
    <3> HIDE DEF s
    <3>2. node' = "supervisor"
      BY <3>1 DEF RouteFromEvaluator
    <3> QED BY <3>2
  <2>2. CASE EvaluatorRetries \/ EvaluatorAnswers
    BY <2>2 DEF EvaluatorRetries, EvaluatorAnswers
  <2>3. CASE UNCHANGED agentVars
    BY <2>3 DEF agentVars
  <2> QED
    BY <2>1, <2>2, <2>3 DEF AgentGraphNext, QueryAnalyzer, SupervisorResumesSection,
       SupervisorForcesFinish, SupervisorAnswersFromResults, SupervisorRoutes,
       SupervisorFails, SupervisorDecides, MemoryRecall, QueryEnricher, RagFinds,
       RagHasNoTool, RagFails, ResolveDocAsks, ResolveDocFinds, TerminalNode
<1>3. 1..Len(turn.sub_queries) \subseteq 1..(turn.current_step - 1) \cup {turn.current_step}
  BY <1>0, <1>1, <1>2 DEF MoreSteps
<1> QED BY <1>3 DEF AgentGraphInv

-----------------------------------------------------------------------------
(* Each part alone.                                                        *)

\* Every reachable state of the permits is well typed.
THEOREM PermitsTyped == PermitsSpec => []PermitsTypeOK
BY PermitsTypesStart, PermitsTypesKeep, PTL DEF PermitsSpec

\* The cluster-wide cap, and that a permit keeps counting until its time is over,
\* hold through lost answers, cancellations, crashes and a Redis that comes and
\* goes: the parts of PermitsAreKept that are invariants.
THEOREM PermitsAreCapped == PermitsSpec => [](PermitsBounded /\ GrantsAreCounted)
<1>1. PermitsTypeOK /\ PermitsInvariant /\ [PermitsNext]_permitVars => PermitsInvariant'
  BY PermitsStep
<1> QED
  BY <1>1, PermitsStart, PermitsAreCounted, PermitsTyped, PTL DEF PermitsSpec

LEMMA RunnerConsumesAlone ==
    SupervisorInv => SupervisorTypeOK /\ OneConsumer /\ NoFalseCrash
<1> SUFFICES ASSUME SupervisorInv
             PROVE  SupervisorTypeOK /\ OneConsumer /\ NoFalseCrash
  OBVIOUS
<1>1. Consuming \subseteq {runner}
  BY DEF SupervisorInv
<1>2. IsFiniteSet({runner}) /\ Cardinality({runner}) = 1
  BY FS_Singleton
<1>3. Cardinality(Consuming) <= 1
  BY <1>1, <1>2, FS_Subset
<1> QED
  BY <1>1, <1>3 DEF SupervisorInv, OneConsumer

\* Whatever commands, signals, crashes and drain time-outs come together, a worker
\* never has two tasks taking messages, and the only one is the controller's
\* runner; it exits as failed only after a consume task that crashed.  These are
\* the invariants of ConsumesAsTold.
THEOREM WorkerConsumesOnce == SupervisorSpec => [](OneConsumer /\ NoFalseCrash)
BY SupervisorStarts, SupervisorKeeps, RunnerConsumesAlone, PTL DEF SupervisorSpec

\* A workspace has a consumer, alive or dead, exactly when the poller knows it as
\* active: no consumer is left that the next poll would not look at, however
\* workspaces, failed polls and dying consumers interleave.
THEOREM ConsumersAreKnown ==
    KgConsumersSpec =>
        [](\A w \in KgWorkspaces : consumerTask[w] # "none" <=> w \in activeSpaces)
<1>1. KgConsumersInv => \A w \in KgWorkspaces : consumerTask[w] # "none" <=> w \in activeSpaces
  BY DEF KgConsumersInv
<1> QED
  BY <1>1, KgConsumersStart, KgConsumersKeep, PTL DEF KgConsumersSpec

\* When the evaluator lets the answer be written the rag node has run for every
\* step of the plan, for plans of any length, any limit on iterations, and through
\* loop-backs, retries and failures.
THEOREM PlanIsCompleted == AgentGraphSpec => PlanCompleted
<1>1. AgentGraphInv /\ [AgentGraphNext]_agentVars
      => [node = "result_evaluator" /\ node' = "answer_generator"
            => 1..Len(turn.sub_queries) \subseteq searched]_agentVars
  BY PlanIsSearched
<1> QED
  BY <1>1, AgentGraphStarts, AgentGraphKeeps, PTL DEF AgentGraphSpec, PlanCompleted

-----------------------------------------------------------------------------
(* Side by side.                                                           *)

LEMMA PartsStart ==
    ProcessesInit => SupervisorInv /\ KgConsumersInv /\ PermitsTypeOK /\ PermitsInvariant
                     /\ AgentGraphInv
BY SupervisorStarts, KgConsumersStart, PermitsTypesStart, PermitsStart, AgentGraphStarts
   DEF ProcessesInit

LEMMA PartsStep ==
    [ProcessesNext]_processesVars
    => /\ [SupervisorNext]_supervisorVars
       /\ [KgConsumersNext]_kgConsumerVars
       /\ [PermitsNext]_permitVars
       /\ [AgentGraphNext]_agentVars
BY Zenon DEF ProcessesNext, processesVars, Step

\* The inductive invariant of the whole: that of each part.
ProcessesInv ==
    SupervisorInv /\ KgConsumersInv /\ PermitsTypeOK /\ PermitsInvariant /\ AgentGraphInv

LEMMA ProcessesKeepInv == ProcessesSpec => []ProcessesInv
<1>1. ProcessesInit => ProcessesInv
  BY PartsStart DEF ProcessesInv
<1>2. ProcessesInv /\ [ProcessesNext]_processesVars => ProcessesInv'
  BY PartsStep, SupervisorKeeps, KgConsumersKeep, PermitsTypesKeep, PermitsStep,
     AgentGraphKeeps DEF ProcessesInv
<1> QED
  BY <1>1, <1>2, PTL DEF ProcessesSpec

\* Every reachable state of the four parts is well typed: among the types are the
\* limits the code keeps by counting, the iterations and the retries of a turn.
THEOREM ProcessesTyped == ProcessesSpec => []ProcessesTypeOK
<1>1. ProcessesInv => ProcessesTypeOK
  BY DEF ProcessesInv, ProcessesTypeOK, SupervisorInv, KgConsumersInv, AgentGraphInv
<1> QED
  BY <1>1, ProcessesKeepInv, PTL

\* What the parts promise alone they promise side by side.
THEOREM ProcessesKeepTheirPromises ==
    ProcessesSpec => /\ [](OneConsumer /\ NoFalseCrash)
                     /\ [](PermitsBounded /\ GrantsAreCounted)
                     /\ PlanCompleted
<1>1. ProcessesInv => /\ OneConsumer /\ NoFalseCrash
                      /\ PermitsBounded /\ GrantsAreCounted
  BY RunnerConsumesAlone, PermitsAreCounted DEF ProcessesInv
<1>2. ProcessesInv /\ [ProcessesNext]_processesVars
      => [node = "result_evaluator" /\ node' = "answer_generator"
            => 1..Len(turn.sub_queries) \subseteq searched]_agentVars
  BY PartsStep, PlanIsSearched DEF ProcessesInv
<1> QED
  BY <1>1, <1>2, ProcessesKeepInv, PTL DEF ProcessesSpec, PlanCompleted
=============================================================================
