----------------------------- MODULE Supervisor -----------------------------
(***************************************************************************)
(* The life of a worker process: backend/app/workers/runner.py.  main()    *)
(* supervises the consume task, the control listener applies pause,        *)
(* resume, restart and set_prefetch to it under a lock, and the health     *)
(* server of workers/health_server.py runs beside both.                    *)
(*                                                                         *)
(* A cancelled consume task ends when it has unwound; the controller waits *)
(* for that at most WORKER_DRAIN_TIMEOUT and then forgets it, so a task    *)
(* that is still unwinding can outlive its own replacement.                *)
(***************************************************************************)
EXTENDS Naturals, FiniteSets

CONSTANTS
    ConsumeTasks,  \* identities of consume tasks: bounds how often one starts
    NoTask,        \* runner is None
    MaxCommands    \* bound on control commands and signals per process life

ASSUME SupervisorAssumption == NoTask \notin ConsumeTasks /\ MaxCommands \in Nat

VARIABLES
    task,          \* [ConsumeTasks -> unused, running, cancelling or ended]
    crashed,       \* consume tasks that ended without being cancelled
    runner,        \* controller.runner
    intentional,   \* controller._intentional
    pausedFlag,    \* controller.paused
    command,       \* what holds controller._lock, and for which command
    watched,       \* main()'s local runner, the task it waits on
    process,       \* up, draining, clean (exit 0) or failed (exit 1)
    stopping,      \* the stop future is resolved
    listening,     \* the control listener takes commands
    sigHandler,    \* whose SIGTERM handler the event loop holds
    signalled,     \* a SIGTERM has arrived
    requests       \* commands and signals so far

supervisorVars == <<task, crashed, runner, intentional, pausedFlag, command,
                    watched, process, stopping, listening, sigHandler,
                    signalled, requests>>

Commands  == {"pause", "set_prefetch"}             \* those that stop the runner
Lockers   == {"none", "shutdown"} \cup Commands

\* A cancelled task takes no further message while it unwinds.
Alive     == {t \in ConsumeTasks : task[t] \in {"running", "cancelling"}}
Consuming == {t \in ConsumeTasks : task[t] = "running"}
Exited    == process \in {"clean", "failed"}

SupervisorTypeOK ==
    /\ task \in [ConsumeTasks -> {"unused", "running", "cancelling", "ended"}]
    /\ crashed \subseteq ConsumeTasks
    /\ intentional \subseteq ConsumeTasks
    /\ {runner, watched} \subseteq ConsumeTasks \cup {NoTask}
    /\ command \in Lockers
    /\ process \in {"up", "draining", "clean", "failed"}
    /\ {pausedFlag, stopping, listening, signalled} \subseteq BOOLEAN
    /\ sigHandler \in {"main", "health"}
    /\ requests \in 0..MaxCommands

\* main() up to the supervise loop: signal handlers, controller.start(), the
\* control listener; the health server's task is created but has not run yet.
SupervisorInit ==
    \E t \in ConsumeTasks :
        /\ task = [u \in ConsumeTasks |-> IF u = t THEN "running" ELSE "unused"]
        /\ crashed = {}
        /\ runner = t
        /\ intentional = {}
        /\ pausedFlag = FALSE
        /\ command = "none"
        /\ watched = t
        /\ process = "up"
        /\ stopping = FALSE
        /\ listening = TRUE
        /\ sigHandler = "main"
        /\ signalled = FALSE
        /\ requests = 0

-----------------------------------------------------------------------------
(* The consume task.                                                       *)

\* The loop returns or raises although nobody cancelled it.
ConsumeCrashes(t) ==
    /\ ~Exited
    /\ task[t] = "running"
    /\ task' = [task EXCEPT ![t] = "ended"]
    /\ crashed' = crashed \cup {t}
    /\ UNCHANGED <<runner, intentional, pausedFlag, command, watched, process,
                   stopping, listening, sigHandler, signalled, requests>>

\* A cancelled loop has unwound.
ConsumeEnds(t) ==
    /\ ~Exited
    /\ task[t] = "cancelling"
    /\ task' = [task EXCEPT ![t] = "ended"]
    /\ UNCHANGED <<crashed, runner, intentional, pausedFlag, command, watched,
                   process, stopping, listening, sigHandler, signalled, requests>>

\* The tasks after start() has created t in addition to those of f.
Started(f, t) == [f EXCEPT ![t] = "running"]

-----------------------------------------------------------------------------
(* Control commands.  The listener handles one at a time.                  *)

TakesCommand ==
    /\ ~Exited
    /\ listening
    /\ command = "none"
    /\ requests < MaxCommands
    /\ \E t \in ConsumeTasks : task[t] = "unused"
    /\ requests' = requests + 1

\* Mutant: the cancelled task is not remembered as cancelled on purpose.
BeginStopRunnerUnmarked(by) ==
    /\ command' = by
    /\ IF runner = NoTask
         THEN UNCHANGED <<task, intentional>>
         ELSE /\ UNCHANGED intentional
              /\ task' = [task EXCEPT ![runner] =
                             IF @ = "running" THEN "cancelling" ELSE @]

\* _stop_runner up to its await: the lock is held by `by`.
BeginStopRunner(by) ==
    /\ command' = by
    /\ IF runner = NoTask
         THEN UNCHANGED <<task, intentional>>
         ELSE /\ intentional' = intentional \cup {runner}
              /\ task' = [task EXCEPT ![runner] =
                             IF @ = "running" THEN "cancelling" ELSE @]

\* pause; a second pause returns at once.
Pause ==
    /\ TakesCommand
    /\ IF pausedFlag THEN UNCHANGED <<command, task, intentional>>
                     ELSE BeginStopRunner("pause")
    /\ UNCHANGED <<crashed, runner, pausedFlag, watched, process, stopping,
                   listening, sigHandler, signalled>>

\* set_prefetch with a value in 1..64; others are ignored.
SetPrefetch ==
    /\ TakesCommand
    /\ BeginStopRunner("set_prefetch")
    /\ UNCHANGED <<crashed, runner, pausedFlag, watched, process, stopping,
                   listening, sigHandler, signalled>>

\* resume: nothing to do if the loop runs, else a new consume task.
Resume ==
    /\ TakesCommand
    /\ IF ~pausedFlag /\ runner # NoTask /\ runner \in Alive
         THEN UNCHANGED <<task, runner, pausedFlag>>
         ELSE /\ \E t \in ConsumeTasks :
                    /\ task[t] = "unused"
                    /\ task' = Started(task, t)
                    /\ runner' = t
              /\ pausedFlag' = FALSE
    /\ UNCHANGED <<crashed, intentional, command, watched, process, stopping,
                   listening, sigHandler, signalled>>

\* restart resolves the stop future.
RestartCommand ==
    /\ TakesCommand
    /\ stopping' = TRUE
    /\ UNCHANGED <<task, crashed, runner, intentional, pausedFlag, command,
                   watched, process, listening, sigHandler, signalled>>

\* The wait in _stop_runner is over: the task ended, the drain timed out, or
\* main() cancelled the listener and the CancelledError was swallowed.
DrainOver == runner = NoTask \/ runner \notin Alive

FinishPause ==
    /\ command = "pause"
    /\ pausedFlag' = TRUE
    /\ UNCHANGED task
    /\ runner' = NoTask

FinishSetPrefetch ==
    /\ command = "set_prefetch"
    /\ IF pausedFlag
         THEN runner' = NoTask /\ UNCHANGED task
         ELSE \E t \in ConsumeTasks :
                 /\ task[t] = "unused"
                 /\ task' = Started(task, t)
                 /\ runner' = t
    /\ UNCHANGED pausedFlag

\* The rest of the command after the drain.
FinishCommand ==
    /\ ~Exited
    /\ DrainOver
    /\ FinishPause \/ FinishSetPrefetch
    /\ command' = "none"
    /\ UNCHANGED <<crashed, intentional, watched, process, stopping, listening,
                   sigHandler, signalled, requests>>

\* The task is still unwinding after WORKER_DRAIN_TIMEOUT: it is abandoned.
DrainTimesOut ==
    /\ ~Exited
    /\ ~DrainOver
    /\ FinishPause \/ FinishSetPrefetch
    /\ command' = "none"
    /\ UNCHANGED <<crashed, intentional, watched, process, stopping, listening,
                   sigHandler, signalled, requests>>

-----------------------------------------------------------------------------
(* Signals and the health server.                                          *)

\* run_health_server installs its own handlers for SIGTERM and SIGINT: the
\* event loop keeps one handler per signal, so main()'s is replaced.
HealthServerStarts ==
    /\ process = "up"
    /\ sigHandler = "main"
    /\ sigHandler' = "health"
    /\ UNCHANGED <<task, crashed, runner, intentional, pausedFlag, command,
                   watched, process, stopping, listening, signalled, requests>>

\* SIGTERM or SIGINT: main()'s handler resolves stop, the health server's only
\* its own future, which ends the health server.
SignalArrives ==
    /\ ~Exited
    /\ requests < MaxCommands
    /\ requests' = requests + 1
    /\ signalled' = TRUE
    /\ stopping' = (stopping \/ sigHandler = "main")
    /\ UNCHANGED <<task, crashed, runner, intentional, pausedFlag, command,
                   watched, process, listening, sigHandler>>

-----------------------------------------------------------------------------
(* main().                                                                 *)

\* The supervise loop wakes because the task it watches ended on purpose, or
\* every 2 s while there is none, and looks the runner up again.
Supervise ==
    /\ process = "up"
    /\ ~stopping
    /\ \/ watched = NoTask
       \/ watched \notin Alive /\ watched \in intentional
    /\ watched # runner
    /\ watched' = runner
    /\ UNCHANGED <<task, crashed, runner, intentional, pausedFlag, command,
                   process, stopping, listening, sigHandler, signalled, requests>>

\* The watched task ended and nobody stopped it on purpose: exit status 1.
ExitOnCrash ==
    /\ process = "up"
    /\ ~stopping
    /\ watched # NoTask
    /\ watched \notin Alive
    /\ watched \notin intentional
    /\ process' = "failed"
    /\ UNCHANGED <<task, crashed, runner, intentional, pausedFlag, command,
                   watched, stopping, listening, sigHandler, signalled, requests>>

\* stop is resolved: the loop breaks and cancels the control listener.  A
\* listener inside _stop_runner swallows the cancellation, completes its
\* command and goes on listening.
BeginShutdown ==
    /\ process = "up"
    /\ stopping
    /\ process' = "draining"
    /\ IF command \in Commands
         THEN /\ FinishPause \/ FinishSetPrefetch
              /\ command' = "none"
              /\ UNCHANGED listening
         ELSE /\ listening' = FALSE
              /\ UNCHANGED <<task, runner, pausedFlag, command>>
    /\ UNCHANGED <<crashed, intentional, watched, stopping, sigHandler,
                   signalled, requests>>

\* controller.shutdown takes the lock.
ShutdownStopsRunner ==
    /\ process = "draining"
    /\ command = "none"
    /\ BeginStopRunner("shutdown")
    /\ UNCHANGED <<crashed, runner, pausedFlag, watched, process, stopping,
                   listening, sigHandler, signalled, requests>>

\* The drain of shutdown is over, or timed out: the process exits.
ExitClean ==
    /\ process = "draining"
    /\ command = "shutdown"
    /\ process' = "clean"
    /\ runner' = NoTask
    /\ command' = "none"
    /\ UNCHANGED <<task, crashed, intentional, pausedFlag, watched, stopping,
                   listening, sigHandler, signalled, requests>>

-----------------------------------------------------------------------------
SupervisorNext ==
    \/ \E t \in ConsumeTasks : ConsumeCrashes(t) \/ ConsumeEnds(t)
    \/ Pause
    \/ SetPrefetch
    \/ Resume
    \/ RestartCommand
    \/ FinishCommand
    \/ DrainTimesOut
    \/ HealthServerStarts
    \/ SignalArrives
    \/ Supervise
    \/ ExitOnCrash
    \/ BeginShutdown
    \/ ShutdownStopsRunner
    \/ ExitClean

\* The event loop runs every task that is ready; nothing makes an operator send
\* a command, a signal arrive, a loop crash or a drain time out.
SupervisorFairness ==
    /\ \A t \in ConsumeTasks : WF_supervisorVars(ConsumeEnds(t))
    /\ WF_supervisorVars(FinishCommand)
    /\ WF_supervisorVars(HealthServerStarts)
    /\ WF_supervisorVars(Supervise)
    /\ WF_supervisorVars(ExitOnCrash)
    /\ WF_supervisorVars(BeginShutdown)
    /\ WF_supervisorVars(ShutdownStopsRunner)
    /\ WF_supervisorVars(ExitClean)

SupervisorSpec == SupervisorInit /\ [][SupervisorNext]_supervisorVars /\ SupervisorFairness

-----------------------------------------------------------------------------
(* Properties.                                                             *)

\* At most one consume task of the process takes messages, whatever commands
\* arrive while another one drains, and a cancelled task still at work is the
\* one a drain is waiting for or one that a drain gave up on.
OneConsumer ==
    /\ Cardinality(Consuming) <= 1
    /\ Consuming \subseteq {runner}

\* The process exits with status 1, and is restarted as crashed, only if a
\* consume task really ended by itself: no pause or change of the prefetch is
\* taken for a crash.
NoFalseCrash == process = "failed" => crashed # {}

\* A worker that is not paused consumes again sooner or later, or its process
\* ends and the container is restarted.
UnpausedConsumes == ~pausedFlag ~> (pausedFlag \/ Consuming # {} \/ Exited)

\* A worker consumes as it was told to: one task at a time, none if it is
\* paused, and a stop that was asked for is no crash.
ConsumesAsTold == [](OneConsumer /\ NoFalseCrash) /\ UnpausedConsumes
=============================================================================
