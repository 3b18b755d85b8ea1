----------------------------- MODULE ChatStreams -----------------------------
(***************************************************************************)
(* Answers in one chat session: backend/app/api/chat_session.py with the   *)
(* event stream of services/agent/streaming.py and the exchange summaries  *)
(* of services/memory/conversation_summary_service.py.  Every message the  *)
(* user posts starts a run of the agent that is detached from its HTTP     *)
(* request; a run is cancelled through _ACTIVE_STREAMS of the process that *)
(* holds it, reached over a Redis channel from the other processes.        *)
(*                                                                         *)
(* The text of an answer is abstracted to which of its two parts are in    *)
(* it: the draft, which the agent may take back with token_rollback, and   *)
(* the answer proper.                                                      *)
(***************************************************************************)
EXTENDS Naturals, FiniteSets

CONSTANTS
    Runs,          \* agent runs of the session, one per posted message
    ApiProcesses,  \* backend processes
    HomeOf,        \* [Runs -> ApiProcesses]: where a message is handled
    NoRun,         \* no entry in _ACTIVE_STREAMS
    MaxDbFaults,   \* bound on inserts that fail
    MaxStops       \* bound on stop requests, crashes and deletions

ASSUME ChatStreamsAssumption ==
    /\ NoRun \notin Runs
    /\ HomeOf \in [Runs -> ApiProcesses]
    /\ MaxDbFaults \in Nat
    /\ MaxStops \in Nat

VARIABLES
    run,           \* [Runs -> where the run is]
    cancelling,    \* runs whose task has a cancellation to deliver
    interrupted,   \* runs that were stopped, failed or lost their process
    shown,         \* [Runs -> parts the stream has emitted, net of rollbacks]
    gathered,      \* [Runs -> accumulated_text]
    savedFlag,     \* runs with saved = True
    activeStreams, \* [ApiProcesses -> the session's entry in _ACTIVE_STREAMS]
    newest,        \* [ApiProcesses -> the run registered there last]
    cancelChannel, \* processes that have yet to read a published cancel
    sessionExists, \* the row of the session
    messages,      \* [Runs -> how many assistant messages the run has stored]
    savedText,     \* [Runs -> the text of that message]
    cleared,       \* runs whose stored answer the user has cleared
    dbFaults,
    stops

runVars   == <<run, cancelling, interrupted, shown, gathered, savedFlag>>
tableVars == <<sessionExists, messages, savedText, cleared>>
streamVars == <<activeStreams, newest>>
chatVars  == <<runVars, streamVars, cancelChannel, tableVars, dbFaults, stops>>

Parts    == {"draft", "answer"}
Working  == {"stream", "title", "insert", "inserted", "background", "summary"}
Finished == {"closed", "lost"}

ChatTypeOK ==
    /\ run \in [Runs -> {"new", "posted"} \cup Working \cup Finished]
    /\ {cancelling, interrupted, savedFlag, cleared} \subseteq SUBSET Runs
    /\ shown \in [Runs -> SUBSET Parts]
    /\ gathered \in [Runs -> SUBSET Parts]
    /\ savedText \in [Runs -> SUBSET Parts]
    /\ {activeStreams, newest} \subseteq [ApiProcesses -> Runs \cup {NoRun}]
    /\ cancelChannel \subseteq ApiProcesses
    /\ sessionExists \in BOOLEAN
    /\ dbFaults \in 0..MaxDbFaults
    /\ stops \in 0..MaxStops

ChatInit ==
    /\ run = [r \in Runs |-> "new"]
    /\ cancelling = {}
    /\ interrupted = {}
    /\ shown = [r \in Runs |-> {}]
    /\ gathered = [r \in Runs |-> {}]
    /\ savedFlag = {}
    /\ activeStreams = [p \in ApiProcesses |-> NoRun]
    /\ newest = [p \in ApiProcesses |-> NoRun]
    /\ cancelChannel = {}
    /\ sessionExists = TRUE
    /\ messages = [r \in Runs |-> 0]
    /\ savedText = [r \in Runs |-> {}]
    /\ cleared = {}
    /\ dbFaults = 0
    /\ stops = 0

At(r, place) == run[r] = place /\ r \notin cancelling

Goto(r, place) == run' = [run EXCEPT ![r] = place]

-----------------------------------------------------------------------------
(* chat_stream_session.                                                    *)

\* The user's message is committed.
PostMessage(r) ==
    /\ At(r, "new")
    /\ sessionExists
    /\ Goto(r, "posted")
    /\ UNCHANGED <<cancelling, interrupted, shown, gathered, savedFlag,
                   streamVars, cancelChannel, tableVars, dbFaults, stops>>

\* The context is read, the run's task is created and registered.
StartRun(r) ==
    /\ At(r, "posted")
    /\ Goto(r, "stream")
    /\ activeStreams' = [activeStreams EXCEPT ![HomeOf[r]] = r]
    /\ newest' = [newest EXCEPT ![HomeOf[r]] = r]
    /\ UNCHANGED <<cancelling, interrupted, shown, gathered, savedFlag,
                   cancelChannel, tableVars, dbFaults, stops>>

-----------------------------------------------------------------------------
(* _run_and_persist reads the agent's events.                              *)

\* The agent writes a draft first, or its answer at once.
StreamsToken(r) ==
    /\ At(r, "stream")
    /\ shown[r] = {}
    /\ \E part \in IF gathered[r] = {} THEN Parts ELSE {"answer"} :
          /\ shown' = [shown EXCEPT ![r] = {part}]
          /\ gathered' = [gathered EXCEPT ![r] = @ \cup {part}]
    /\ UNCHANGED <<run, cancelling, interrupted, savedFlag, streamVars,
                   cancelChannel, tableVars, dbFaults, stops>>

\* token_rollback goes to the client; accumulated_text keeps the draft.
StreamsRollback(r) ==
    /\ At(r, "stream")
    /\ shown[r] = {"draft"}
    /\ shown' = [shown EXCEPT ![r] = {}]
    /\ UNCHANGED <<run, cancelling, interrupted, gathered, savedFlag,
                   streamVars, cancelChannel, tableVars, dbFaults, stops>>

\* complete replaces accumulated_text by the final answer.
StreamCompletes(r) ==
    /\ At(r, "stream")
    /\ Goto(r, "title")
    /\ gathered' = [gathered EXCEPT ![r] = shown[r]]
    /\ UNCHANGED <<cancelling, interrupted, shown, savedFlag, streamVars,
                   cancelChannel, tableVars, dbFaults, stops>>

\* An error event ends the stream without complete; the run goes on with what
\* it has gathered.
StreamFails(r) ==
    /\ At(r, "stream")
    /\ Goto(r, "title")
    /\ interrupted' = interrupted \cup {r}
    /\ UNCHANGED <<cancelling, shown, gathered, savedFlag, streamVars,
                   cancelChannel, tableVars, dbFaults, stops>>

-----------------------------------------------------------------------------
(* The title of the first exchange, the answer, the summary.               *)

\* _make_first_exchange_title: an LLM call for the first exchange.
MakesTitle(r) ==
    /\ At(r, "title")
    /\ Goto(r, "insert")
    /\ UNCHANGED <<cancelling, interrupted, shown, gathered, savedFlag,
                   streamVars, cancelChannel, tableVars, dbFaults, stops>>

\* An insert of the answer unless a message with its id is stored.
StoreAnswer(r) ==
    /\ sessionExists
    /\ messages' = [messages EXCEPT ![r] = IF @ = 0 THEN 1 ELSE @]
    /\ savedText' = [savedText EXCEPT ![r] = IF messages[r] = 0 THEN gathered[r] ELSE @]

\* The insert fails: the database, or the foreign key of a deleted session.
InsertMayFail ==
    /\ UNCHANGED <<messages, savedText>>
    /\ IF sessionExists
         THEN dbFaults < MaxDbFaults /\ dbFaults' = dbFaults + 1
         ELSE UNCHANGED dbFaults

TryStore(r) ==
    \/ StoreAnswer(r) /\ UNCHANGED dbFaults
    \/ InsertMayFail

\* _save_assistant_inline commits, or its exception is swallowed.
InsertsInline(r) ==
    /\ At(r, "insert")
    /\ TryStore(r)
    /\ Goto(r, "inserted")
    /\ UNCHANGED <<cancelling, interrupted, shown, gathered, savedFlag,
                   streamVars, cancelChannel, sessionExists, cleared, stops>>

\* _persist returns with saved = True.
MarksSaved(r) ==
    /\ At(r, "inserted")
    /\ Goto(r, "background")
    /\ savedFlag' = savedFlag \cup {r}
    /\ UNCHANGED <<cancelling, interrupted, shown, gathered, streamVars,
                   cancelChannel, tableVars, dbFaults, stops>>

\* The finally block: the session's entry is removed if it is this run.
Deregister(r) ==
    /\ activeStreams' = [activeStreams EXCEPT ![HomeOf[r]] = IF @ = r THEN NoRun ELSE @]
    /\ UNCHANGED newest

\* Mutant: the background part trusts the inline insert.
BackgroundStoreTrusting(r) == UNCHANGED <<messages, savedText, dbFaults>>

BackgroundStore(r) == TryStore(r)

\* _background_persist_and_emit: the answer again, as a fallback.  A failure
\* there, or a deleted session, ends the run.
PersistsInBackground(r) ==
    /\ At(r, "background")
    /\ BackgroundStore(r)
    /\ IF sessionExists /\ dbFaults' = dbFaults
         THEN Goto(r, "summary") /\ UNCHANGED streamVars
         ELSE Goto(r, "closed") /\ Deregister(r)
    /\ UNCHANGED <<cancelling, interrupted, shown, gathered, savedFlag,
                   cancelChannel, sessionExists, cleared, stops>>

\* The rest of the background part, an LLM call and the user's memory: the run
\* ends whether it succeeds or not.
Summarizes(r) ==
    /\ At(r, "summary")
    /\ Goto(r, "closed")
    /\ Deregister(r)
    /\ UNCHANGED <<cancelling, interrupted, shown, gathered, savedFlag,
                   cancelChannel, tableVars, dbFaults, stops>>

-----------------------------------------------------------------------------
(* The stop button.                                                        *)

\* _cancel_local_stream at p.
CancelLocal(p) ==
    cancelling' = IF activeStreams[p] # NoRun
                  THEN cancelling \cup {activeStreams[p]} ELSE cancelling

\* cancel_stream_session at p: its own run, else every process's.
Stop(p) ==
    /\ sessionExists
    /\ stops < MaxStops
    /\ stops' = stops + 1
    /\ CancelLocal(p)
    /\ cancelChannel' = IF activeStreams[p] = NoRun
                        THEN ApiProcesses ELSE cancelChannel
    /\ UNCHANGED <<run, interrupted, shown, gathered, savedFlag,
                   streamVars, tableVars, dbFaults>>

\* The cancel listener of p reads the channel.
ListenerCancels(p) ==
    /\ p \in cancelChannel
    /\ cancelChannel' = cancelChannel \ {p}
    /\ CancelLocal(p)
    /\ UNCHANGED <<run, interrupted, shown, gathered, savedFlag,
                   streamVars, tableVars, dbFaults, stops>>

\* It is not subscribed at the moment: the message is gone.
ListenerMisses(p) ==
    /\ p \in cancelChannel
    /\ cancelChannel' = cancelChannel \ {p}
    /\ UNCHANGED <<runVars, streamVars, tableVars, dbFaults, stops>>

\* _persist(partial=True): nothing if saved is set or nothing was gathered.
StoppedKeeps(r) ==
    IF r \in savedFlag \/ gathered[r] = {}
    THEN UNCHANGED <<messages, savedText, dbFaults, savedFlag>>
    ELSE TryStore(r) /\ savedFlag' = savedFlag \cup {r}

\* CancelledError is delivered; the handler keeps the partial answer and the
\* finally block ends the stream.
RunStops(r) ==
    /\ r \in cancelling
    /\ run[r] \in Working
    /\ StoppedKeeps(r)
    /\ cancelling' = cancelling \ {r}
    /\ interrupted' = interrupted \cup {r}
    /\ Goto(r, "closed")
    /\ Deregister(r)
    /\ UNCHANGED <<shown, gathered, cancelChannel, sessionExists, cleared,
                   stops>>

\* Anything in the run raises: the same, after an error event.
RunRaises(r) ==
    /\ At(r, "stream")
    /\ StoppedKeeps(r)
    /\ interrupted' = interrupted \cup {r}
    /\ Goto(r, "closed")
    /\ Deregister(r)
    /\ UNCHANGED <<cancelling, shown, gathered, cancelChannel,
                   sessionExists, cleared, stops>>

-----------------------------------------------------------------------------
(* The rest of the API, and crashes.                                       *)

\* delete_chat_session: messages and summaries go with the row; a run in
\* progress is not stopped.
DeleteSession ==
    /\ sessionExists
    /\ stops < MaxStops
    /\ stops' = stops + 1
    /\ sessionExists' = FALSE
    /\ messages' = [r \in Runs |-> 0]
    /\ savedText' = [r \in Runs |-> {}]
    /\ UNCHANGED <<runVars, streamVars, cancelChannel, cleared, dbFaults>>

\* clear_session_history: the messages go, the summaries stay.
ClearHistory ==
    /\ sessionExists
    /\ stops < MaxStops
    /\ stops' = stops + 1
    /\ cleared' = cleared \cup {r \in Runs : messages[r] # 0}
    /\ messages' = [r \in Runs |-> 0]
    /\ savedText' = [r \in Runs |-> {}]
    /\ UNCHANGED <<runVars, streamVars, cancelChannel, sessionExists,
                   dbFaults>>

\* A process dies with the runs it holds.
ApiProcessDies(p) ==
    LET mine == {r \in Runs : HomeOf[r] = p /\ run[r] \in Working \cup {"posted"}}
    IN  /\ mine # {}
        /\ stops < MaxStops
        /\ stops' = stops + 1
        /\ run' = [r \in Runs |-> IF r \in mine THEN "lost" ELSE run[r]]
        /\ interrupted' = interrupted \cup mine
        /\ cancelling' = cancelling \ mine
        /\ activeStreams' = [activeStreams EXCEPT ![p] = NoRun]
        /\ newest' = [newest EXCEPT ![p] = NoRun]
        /\ cancelChannel' = cancelChannel \ {p}
        /\ UNCHANGED <<shown, gathered, savedFlag, tableVars, dbFaults>>

-----------------------------------------------------------------------------
ChatNext ==
    \/ \E r \in Runs :
          \/ PostMessage(r)
          \/ StartRun(r)
          \/ StreamsToken(r)
          \/ StreamsRollback(r)
          \/ StreamCompletes(r)
          \/ StreamFails(r)
          \/ MakesTitle(r)
          \/ InsertsInline(r)
          \/ MarksSaved(r)
          \/ PersistsInBackground(r)
          \/ Summarizes(r)
          \/ RunStops(r)
          \/ RunRaises(r)
    \/ \E p \in ApiProcesses :
          \/ Stop(p)
          \/ ListenerCancels(p)
          \/ ListenerMisses(p)
          \/ ApiProcessDies(p)
    \/ DeleteSession
    \/ ClearHistory

ChatSpec == ChatInit /\ [][ChatNext]_chatVars

-----------------------------------------------------------------------------
(* Properties.                                                             *)

\* However often a run is stopped between its insert and the flag that records
\* it, and although the answer is stored inline, in the background and by the
\* handler of a cancellation, it is stored at most once.
StoredAtMostOnce == \A r \in Runs : messages[r] <= 1

\* "The partial answer generated so far is persisted" and "background will
\* retry" (chat_session.py:957, :744): a run that has ended normally, by an
\* error or by a stop has stored what it gathered, unless the user removed it
\* or the database failed; one failed insert is made up for if the run goes on.
NothingGatheredIsLost ==
    \A r \in Runs :
        (/\ run[r] = "closed"
         /\ gathered[r] # {}
         /\ sessionExists /\ r \notin cleared
         /\ dbFaults = 0 \/ (dbFaults = 1 /\ r \notin interrupted)) => messages[r] = 1

\* The stored answer of a run that completed is what its stream has shown,
\* without the drafts it took back.  (A run that is interrupted stores them.)
SavedAsShown ==
    \A r \in Runs :
        (messages[r] # 0 /\ r \notin interrupted) => savedText[r] = shown[r]

\* The run that a process started last for the session can be stopped there as
\* long as it works: no older run that ends takes the entry away from it.  (An
\* older one that still works cannot be stopped any more.)
NewestIsStoppable ==
    \A p \in ApiProcesses :
        (newest[p] # NoRun /\ run[newest[p]] \in Working)
            => activeStreams[p] = newest[p]

\* A run is accounted for: its answer is in the history once, whole and as it
\* was shown, and the newest run can be stopped.
RunsAccountedFor ==
    /\ StoredAtMostOnce
    /\ NothingGatheredIsLost
    /\ SavedAsShown
    /\ NewestIsStoppable
=============================================================================
