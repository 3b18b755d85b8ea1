--------------------------------- MODULE Memory ---------------------------------
(***************************************************************************)
(* What a user has told, kept for later turns: personal facts in a graph   *)
(* (services/memory/graphiti_client.py), written by the memory worker from *)
(* its queue or by the process that answers, and one summary per exchange  *)
(* of a session (conversation_summary_service.py).                         *)
(*                                                                         *)
(* The turns of one user, some of which overlap.  A turn comes over the    *)
(* session endpoint (chat_session.py), which saves in its own process, or  *)
(* over the graph endpoint (chat_agent_lg.py), which queues.  An episode   *)
(* is known by the turn it was made of; an operation that the code tries   *)
(* twice fails here once.                                                  *)
(***************************************************************************)
EXTENDS Naturals, FiniteSets, SequencesExt

CONSTANTS
    Turns,
    Telling,             \* the turns whose message holds a personal fact
    ToolTurns,           \* the turns in which the model may call save_memory
    OverSession,         \* the turns over the session endpoint
    RecallLimit,         \* the newest episodes a recall returns
    MaxSaves,            \* deliveries before a message is dead-lettered
    MaxMemoryFaults,     \* model, graph and broker calls that fail
    MaxRestarts          \* of the process that answers, and of the worker

ASSUME MemoryAssumption ==
    /\ ToolTurns \subseteq Telling /\ Telling \subseteq Turns /\ OverSession \subseteq Turns
    /\ {RecallLimit, MaxSaves} \subseteq Nat \ {0}
    /\ {MaxMemoryFaults, MaxRestarts} \subseteq Nat

VARIABLES
    turn,                \* [turn |-> what its process is doing]
    hrag_memory,         \* [turn |-> its message in the queue]
    episodes,            \* the user's episodes, oldest first
    summaries,           \* chat_exchange_summaries: [turn, exchange_index]
    misread,             \* the turns whose extraction failed: raw text is kept
    memoryFaults,
    restarts

memoryVars == <<turn, hrag_memory, episodes, summaries, misread, memoryFaults, restarts>>

Begun == [phase |-> "new", next_index |-> 0, after |-> {}, memory |-> {},
          notice |-> FALSE, tool |-> "no"]

\* after is kept for the properties: the turns whose summary was saved, or given
\* up, when this one took its number.
MemoryTypeOK ==
    /\ \A t \in Turns :
          /\ turn[t].phase \in {"new", "answering", "numbering", "summarising",
                                "remembering", "over", "lost"}
          /\ turn[t].next_index \in 0..Cardinality(Turns)
          /\ turn[t].after \cup turn[t].memory \subseteq Turns
          /\ turn[t].tool \in {"no", "saving", "ended"}
          /\ hrag_memory[t].at \in {"none", "ready", "taken", "written", "acked", "dead"}
          /\ hrag_memory[t].tries \in 0..MaxSaves
    /\ Range(episodes) \subseteq Turns
    /\ summaries \subseteq [turn : Turns, exchange_index : 1..Cardinality(Turns)]
    /\ misread \subseteq Turns
    /\ memoryFaults \in 0..MaxMemoryFaults
    /\ restarts \in 0..MaxRestarts

MemoryInit ==
    /\ turn = [t \in Turns |-> Begun]
    /\ hrag_memory = [t \in Turns |-> [at |-> "none", tries |-> 0]]
    /\ episodes = <<>>
    /\ summaries = {}
    /\ misread = {}
    /\ memoryFaults = 0
    /\ restarts = 0

Remembers == memoryFaults' = memoryFaults
MemoryFails == memoryFaults < MaxMemoryFaults /\ memoryFaults' = memoryFaults + 1

-----------------------------------------------------------------------------
(* Recall.                                                                 *)

\* _fetch_all_user_facts: the newest episodes, copies among them.
Newest(s) == Range(SubSeq(s, IF Len(s) > RecallLimit THEN Len(s) - RecallLimit + 1 ELSE 1, Len(s)))

\* search_user_memory: a turn begins with the facts recalled, none if the
\* graph is away.
BeginTurn(t) ==
    /\ turn[t].phase = "new"
    /\ \/ turn' = [turn EXCEPT ![t].phase = "answering", ![t].memory = Newest(episodes)]
          /\ Remembers
       \/ turn' = [turn EXCEPT ![t].phase = "answering"] /\ MemoryFails
    /\ UNCHANGED <<hrag_memory, episodes, summaries, misread, restarts>>

\* The model calls save_memory; a task writes while it goes on.
SaveMemoryTool(t) ==
    /\ turn[t].phase = "answering" /\ t \in ToolTurns
    /\ turn[t].tool = "no"
    /\ turn' = [turn EXCEPT ![t].tool = "saving"]
    /\ Remembers
    /\ UNCHANGED <<hrag_memory, episodes, summaries, misread, restarts>>

\* save_user_fact: a failure is logged.
SaveUserFact(t) ==
    /\ turn[t].tool = "saving"
    /\ turn' = [turn EXCEPT ![t].tool = "ended"]
    /\ \/ episodes' = Append(episodes, t) /\ Remembers
       \/ episodes' = episodes /\ MemoryFails
    /\ UNCHANGED <<hrag_memory, summaries, misread, restarts>>

-----------------------------------------------------------------------------
(* The end of a turn.                                                      *)

\* _llm_extract_facts: the facts, or nothing; all of the message if it fails.
Extracted(t) ==
    \/ Remembers /\ misread' = misread
    \/ MemoryFails /\ misread' = misread \cup {t}

\* A message with a fact, or one that could not be read, is worth keeping.
Worth(t, misreading) == t \in Telling \/ misreading

\* client.add_episode: every write is an episode of its own.
Writes(t) == episodes' = IF Worth(t, misread' # misread) THEN Append(episodes, t) ELSE episodes

\* The answer ends with a notice of what is remembered.  A turn over the graph
\* endpoint is queued then, or saved in this process if the broker is away.
EndTurn(t) ==
    /\ turn[t].phase = "answering"
    /\ \/ \E bad \in BOOLEAN :
             /\ bad => t \notin Telling
             /\ IF bad THEN MemoryFails ELSE Remembers
             /\ turn' = [turn EXCEPT
                    ![t].notice = Worth(t, bad),
                    ![t].phase = IF t \in OverSession THEN "numbering" ELSE "over"]
             /\ hrag_memory' = IF t \in OverSession THEN hrag_memory
                               ELSE [hrag_memory EXCEPT ![t].at = "ready"]
       \/ /\ t \notin OverSession
          /\ MemoryFails
          /\ turn' = [turn EXCEPT ![t].notice = Worth(t, FALSE), ![t].phase = "remembering"]
          /\ UNCHANGED hrag_memory
    /\ UNCHANGED <<episodes, summaries, misread, restarts>>

LastIndex == Cardinality({s.exchange_index : s \in summaries})

\* save_exchange_summary: the next number is taken before the model is asked.
NumberSummary(t) ==
    /\ turn[t].phase = "numbering"
    /\ turn' = [turn EXCEPT
           ![t].phase = "summarising", ![t].next_index = LastIndex + 1,
           ![t].after = {u \in Turns : turn[u].phase = "over" \/ turn[u].phase = "remembering"}]
    /\ Remembers
    /\ UNCHANGED <<hrag_memory, episodes, summaries, misread, restarts>>

SaveSummary(t) ==
    /\ turn[t].phase = "summarising"
    /\ turn' = [turn EXCEPT ![t].phase = "remembering"]
    /\ \/ summaries' = summaries \cup {[turn |-> t, exchange_index |-> turn[t].next_index]}
          /\ Remembers
       \/ summaries' = summaries /\ MemoryFails
    /\ UNCHANGED <<hrag_memory, episodes, misread, restarts>>

\* add_conversation_episode in the process that answered: a failure is logged.
SaveInProcess(t) ==
    /\ turn[t].phase = "remembering"
    /\ turn' = [turn EXCEPT ![t].phase = "over"]
    /\ \/ /\ Extracted(t)
          /\ Writes(t)
       \/ MemoryFails /\ t \in Telling /\ UNCHANGED <<episodes, misread>>
    /\ UNCHANGED <<hrag_memory, summaries, restarts>>

-----------------------------------------------------------------------------
(* The memory worker.                                                      *)

TakeMemory(t) ==
    /\ hrag_memory[t].at = "ready"
    /\ hrag_memory' = [hrag_memory EXCEPT ![t].at = "taken"]
    /\ Remembers
    /\ UNCHANGED <<turn, episodes, summaries, misread, restarts>>

\* Mutant: a failure is only logged.
LoggedFor(m) == [m EXCEPT !.at = "acked"]

\* A failure is raised: the message is tried again, and dead-lettered at last.
RaisedFor(m) ==
    IF m.tries + 1 < MaxSaves THEN [at |-> "ready", tries |-> m.tries + 1]
                              ELSE [at |-> "dead", tries |-> m.tries + 1]

HandleMemory(t) ==
    /\ hrag_memory[t].at = "taken"
    /\ \/ /\ Extracted(t)
          /\ Writes(t)
          /\ hrag_memory' = [hrag_memory EXCEPT ![t].at = "written"]
       \/ /\ t \in Telling
          /\ MemoryFails
          /\ hrag_memory' = [hrag_memory EXCEPT ![t] = RaisedFor(@)]
          /\ UNCHANGED <<episodes, misread>>
    /\ UNCHANGED <<turn, summaries, restarts>>

AckMemory(t) ==
    /\ hrag_memory[t].at = "written"
    /\ hrag_memory' = [hrag_memory EXCEPT ![t].at = "acked"]
    /\ Remembers
    /\ UNCHANGED <<turn, episodes, summaries, misread, restarts>>

-----------------------------------------------------------------------------
(* Restarts.                                                               *)

Restarted == restarts < MaxRestarts /\ restarts' = restarts + 1

\* What the process that answers had not saved is gone.
ApiRestarts ==
    /\ Restarted
    /\ turn' = [t \in Turns |-> [turn[t] EXCEPT
           !.phase = IF @ \in {"new", "over"} THEN @ ELSE "lost",
           !.tool = IF @ = "saving" THEN "ended" ELSE @]]
    /\ Remembers
    /\ UNCHANGED <<hrag_memory, episodes, summaries, misread>>

\* What the worker had not acknowledged is delivered again.
WorkerRestarts ==
    /\ Restarted
    /\ hrag_memory' = [t \in Turns |-> [hrag_memory[t] EXCEPT
           !.at = IF @ \in {"taken", "written"} THEN "ready" ELSE @]]
    /\ Remembers
    /\ UNCHANGED <<turn, episodes, summaries, misread>>

MemoryNext ==
    \/ \E t \in Turns :
          \/ BeginTurn(t) \/ SaveMemoryTool(t) \/ SaveUserFact(t)
          \/ EndTurn(t) \/ NumberSummary(t) \/ SaveSummary(t) \/ SaveInProcess(t)
          \/ TakeMemory(t) \/ HandleMemory(t) \/ AckMemory(t)
    \/ ApiRestarts
    \/ WorkerRestarts

MemorySpec == MemoryInit /\ [][MemoryNext]_memoryVars

-----------------------------------------------------------------------------
(* Properties.                                                             *)

\* A fact that was queued is in the graph, on its way there or dead-lettered,
\* through failures and restarts of the worker.
QueuedFactIsKept ==
    \A t \in Telling :
        hrag_memory[t].at = "acked" => t \in Range(episodes)

\* Nothing enters the graph that the user has not told, but for messages that
\* could not be read.
OnlyFactsAreKept == Range(episodes) \subseteq Telling \cup misread

\* The summaries of a session are numbered in the order of its turns; the same
\* number is given to two only if they overlapped.
SummariesInOrder ==
    \A s, u \in summaries :
        s.turn \in turn[u.turn].after => s.exchange_index < u.exchange_index

\* What the user has told is not lost on the way to the graph and not
\* invented, and the exchanges of a session keep their order.
MemoryIsKept ==
    /\ QueuedFactIsKept
    /\ OnlyFactsAreKept
    /\ SummariesInOrder
=============================================================================
