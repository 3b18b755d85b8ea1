------------------------------ MODULE ChatPanel ------------------------------
(***************************************************************************)
(* The chat of the web application: components/rag/ChatPanel.tsx with      *)
(* hooks/useRAGChatStream.ts and useChatHistory.ts.  The panel stays       *)
(* mounted while the user moves from session to session; its messages are  *)
(* written by the send in progress, by the stream's state, and by the      *)
(* history that is polled from the server and kept in the query cache.     *)
(*                                                                         *)
(* A step is one callback: a click, a response, a chunk of events, a frame *)
(* or a fetched history, together with the render and the effects that     *)
(* follow it.  The server is ChatStreams.tla, reduced to what it sends.    *)
(* The message of send n is <<"u", n>> and its answer <<"a", n>> until the *)
(* server's numbers, <<"msg", n>> and <<"ai", n>>, are known.              *)
(***************************************************************************)
EXTENDS Naturals, Sequences

CONSTANTS
    ChatSessions,
    FirstSessions,      \* those that exist, and have been opened, at the start
    NoSession,          \* the page of a new chat
    SendTexts,          \* a set of positive numbers
    MaxSends,
    MaxTokens,          \* tokens of an answer
    MaxMoves,           \* bound on moves between sessions
    MaxPolls,           \* bound on fetches of a history
    MaxPanelFaults      \* bound on failed requests

ASSUME ChatPanelAssumption ==
    /\ NoSession \notin ChatSessions
    /\ FirstSessions \subseteq ChatSessions
    /\ SendTexts \subseteq Nat \ {0}
    /\ {MaxSends, MaxTokens, MaxMoves, MaxPolls, MaxPanelFaults} \subseteq Nat

VARIABLES
    panel,              \* the panel's state and refs
    sends,              \* [Sends -> handleSend]
    runs,               \* [Sends -> the server's side of it]
    store,              \* the stored conversations
    history,            \* [ChatSessions -> the query and the fetch in flight]
    panelBounds         \* moves, polls and faults so far

panelVars == <<panel, sends, runs, store, history, panelBounds>>

Sends == 1..MaxSends
NotLoaded == {}             \* a history, a fetch or an answer is a set of at
NoFetch == {}               \* most one
NoAnswer == {}
The(one) == CHOOSE x \in one : TRUE
Fallback == <<<<0, 0>>>>    \* the text shown for a failed answer
Typed(q) == <<<<0, q>>>>

MessageIds == {"u", "a", "f", "msg", "ai"} \X Sends
Texts == Seq(Nat \X Nat)
Messages == [id : MessageIds, role : {"user", "assistant"}, text : Texts]
Lists == Seq(Messages)

\* captured is the streamingContent that the current sendMessage has closed
\* over; abort is the send of abortRef, ref is streamingMsgIdRef.
Panels ==
    [session : ChatSessions \cup {NoSession}, messages : Lists, streaming : BOOLEAN,
     sending : BOOLEAN, skip : ChatSessions \cup {NoSession},
     ref : MessageIds \cup {<<>>}, abort : 0..MaxSends, content : Texts,
     buffer : Texts, frame : BOOLEAN, captured : Texts, aiId : 0..MaxSends,
     userId : 0..MaxSends, error : BOOLEAN]

HandledSends ==
    [at : {"unsent", "creating", "requesting", "reading", "aborted", "over"},
     session : ChatSessions \cup {NoSession}, text : SendTexts \cup {0},
     captured : Texts, staleError : BOOLEAN, final : SUBSET Texts, named : BOOLEAN,
     read : Texts]

Events ==
    [type : {"user_id", "ai_message_id", "token", "token_rollback", "complete",
             "error", "close"},
     text : Texts]

ServerRuns ==
    [at : {"none", "lost", "running", "completed", "saved", "closed"},
     emitted : Texts, gathered : Texts, wire : Seq(Events), stop : BOOLEAN]

PanelTypeOK ==
    /\ panel \in Panels
    /\ sends \in [Sends -> HandledSends]
    /\ runs \in [Sends -> ServerRuns]
    /\ store \in [created : SUBSET ChatSessions, conv : [ChatSessions -> Lists]]
    /\ history \in [ChatSessions -> [data : SUBSET Lists, fetch : SUBSET Lists]]
    /\ \A s \in ChatSessions : \A i, j \in DOMAIN store.conv[s] :
          store.conv[s][i].id = store.conv[s][j].id => i = j

ChatPanelInit ==
    /\ panel = [session |-> NoSession, messages |-> <<>>, streaming |-> FALSE,
                sending |-> FALSE, skip |-> NoSession, ref |-> <<>>, abort |-> 0,
                content |-> <<>>, buffer |-> <<>>, frame |-> FALSE, captured |-> <<>>,
                aiId |-> 0, userId |-> 0, error |-> FALSE]
    /\ sends = [n \in Sends |->
                [at |-> "unsent", session |-> NoSession, text |-> 0, captured |-> <<>>,
                 staleError |-> FALSE, final |-> NoAnswer, named |-> FALSE, read |-> <<>>]]
    /\ runs = [n \in Sends |->
                [at |-> "none", emitted |-> <<>>, gathered |-> <<>>, wire |-> <<>>,
                 stop |-> FALSE]]
    /\ store = [created |-> FirstSessions, conv |-> [s \in ChatSessions |-> <<>>]]
    /\ history = [s \in ChatSessions |->
                    [data |-> IF s \in FirstSessions THEN {<<>>} ELSE NotLoaded,
                     fetch |-> NoFetch]]
    /\ panelBounds = [moves |-> 0, polls |-> 0, faults |-> 0]

-----------------------------------------------------------------------------
(* The render and its effects.                                             *)

Message(id, role, text) == [id |-> id, role |-> role, text |-> text]
Ids(messages) == {messages[i].id : i \in DOMAIN messages}

Data(hist, s) == IF s = NoSession THEN NotLoaded ELSE hist[s].data

IsNotAmong(m, stored) ==
    /\ m.id \notin Ids(stored)
    /\ \A i \in DOMAIN stored : stored[i].role = m.role => stored[i].text # m.text

\* The stored messages, then the local ones that are not among them by number
\* or, for the same role, by content.
Merged(stored, local) ==
    LET Kept[i \in 0..Len(local)] ==
            IF i = 0 THEN <<>>
            ELSE IF IsNotAmong(local[i], stored) THEN Append(Kept[i - 1], local[i])
            ELSE Kept[i - 1]
    IN  stored \o Kept[Len(local)]

\* The session changed: everything is dropped, unless this very send made it.
ResetEffect(p) ==
    IF p.skip = p.session /\ p.session # NoSession THEN [p EXCEPT !.skip = NoSession]
    ELSE [p EXCEPT !.skip = NoSession, !.messages = <<>>]

HistoryEffect(p, data) ==
    IF p.session = NoSession THEN [p EXCEPT !.messages = <<>>]
    ELSE IF data = NotLoaded THEN p
    ELSE [p EXCEPT !.messages = Merged(The(data), @)]

Renamed(messages, id, new) ==
    [i \in DOMAIN messages |->
        IF messages[i].id = id THEN [messages[i] EXCEPT !.id = new] ELSE messages[i]]

\* The answer takes the server's number, and so does streamingMsgIdRef.
AnswerIdEffect(p) ==
    IF p.aiId = 0 \/ p.ref = <<>> THEN p
    ELSE [p EXCEPT !.messages = Renamed(@, p.ref, <<"ai", p.aiId>>),
                   !.ref = <<"ai", p.aiId>>]

\* The last message of the user that has no number of the server's gets one.
UserIdEffect(p) ==
    LET local == {i \in DOMAIN p.messages :
                    p.messages[i].role = "user" /\ p.messages[i].id[1] = "u"} IN
    IF p.userId = 0 \/ local = {} THEN p
    ELSE LET last == CHOOSE i \in local : \A j \in local : j <= i IN
         [p EXCEPT !.messages = [@ EXCEPT ![last].id = <<"msg", p.userId>>]]

\* What is being streamed is written to the message of streamingMsgIdRef.
StreamEffect(p) ==
    [p EXCEPT !.messages = [i \in DOMAIN @ |->
        IF p.ref # <<>> /\ @[i].id = p.ref THEN [@[i] EXCEPT !.text = p.content]
        ELSE @[i]]]

\* From one render, of p, to the next, of q: the effects whose dependencies
\* have changed, in their order.  sendMessage is made anew for a new session.
Rendered(p, hist, q, hist2) ==
    LET p1 == IF q.session = p.session THEN q
              ELSE ResetEffect([q EXCEPT !.captured = q.content])
        p2 == IF Data(hist2, q.session) = Data(hist, p.session) THEN p1
              ELSE HistoryEffect(p1, Data(hist2, q.session))
        p3 == IF q.aiId = p.aiId THEN p2 ELSE AnswerIdEffect(p2)
        p4 == IF q.userId = p.userId THEN p3 ELSE UserIdEffect(p3) IN
    IF q.content = p.content /\ q.streaming = p.streaming THEN p4 ELSE StreamEffect(p4)

Shows(q) ==
    /\ panel' = Rendered(panel, history, q, history)
    /\ UNCHANGED history

Fault ==
    /\ panelBounds.faults < MaxPanelFaults
    /\ panelBounds' = [panelBounds EXCEPT !.faults = @ + 1]

-----------------------------------------------------------------------------
(* The history.                                                            *)

MayPoll == panelBounds.polls < MaxPolls

\* The poll of the open session, which a stream pauses.
Poll ==
    /\ panel.session # NoSession /\ ~panel.streaming /\ MayPoll
    /\ history[panel.session].fetch = NoFetch
    /\ history' = [history EXCEPT ![panel.session].fetch = {store.conv[panel.session]}]
    /\ panelBounds' = [panelBounds EXCEPT !.polls = @ + 1]
    /\ UNCHANGED <<panel, sends, runs, store>>

\* It arrives, whatever has been sent since; a failed one is fetched again.
FetchLands(s) ==
    /\ history[s].fetch # NoFetch
    /\ history' = [history EXCEPT ![s] = [data |-> history[s].fetch, fetch |-> NoFetch]]
    /\ panel' = Rendered(panel, history, panel, history')
    /\ UNCHANGED <<sends, runs, store, panelBounds>>

\* The user opens another session, or a new chat.  A history that is missing or
\* old is fetched; when there is no poll left the fetch counts as failed.
OpenSession(s) ==
    /\ s # panel.session /\ s \in store.created \cup {NoSession}
    /\ panelBounds.moves < MaxMoves
    /\ \/ /\ s # NoSession /\ MayPoll /\ history[s].fetch = NoFetch
          /\ history' = [history EXCEPT ![s].fetch = {store.conv[s]}]
          /\ panelBounds' = [panelBounds EXCEPT !.moves = @ + 1, !.polls = @ + 1]
       \/ /\ s # NoSession => \/ history[s].data # NotLoaded \/ ~MayPoll
                               \/ history[s].fetch # NoFetch
          /\ UNCHANGED history
          /\ panelBounds' = [panelBounds EXCEPT !.moves = @ + 1]
    /\ panel' = Rendered(panel, history, [panel EXCEPT !.session = s], history')
    /\ UNCHANGED <<sends, runs, store>>

\* The panel shows nothing but a spinner.
Loading ==
    /\ panel.session # NoSession
    /\ history[panel.session].data = NotLoaded /\ history[panel.session].fetch # NoFetch

-----------------------------------------------------------------------------
(* handleSend and sendMessage.                                             *)

\* The message and an empty answer are shown, and the stream starts anew.
SetUp(p, n, text) ==
    [p EXCEPT !.messages = @ \o <<Message(<<"u", n>>, "user", Typed(text)),
                                  Message(<<"a", n>>, "assistant", <<>>)>>,
              !.ref = <<"a", n>>, !.content = <<>>, !.buffer = <<>>, !.streaming = TRUE,
              !.aiId = 0, !.userId = 0, !.error = FALSE, !.abort = n]

\* Mutant of MaySend: without the guard that is set at once.
MaySendUnlessStreaming == ~panel.streaming

MaySend == ~panel.streaming /\ ~panel.sending

\* sendMessage is the one of the render: it has closed over a session, over the
\* content of that time, and handleSend over the error of the previous send.
ClickSend(n, text) ==
    /\ ~Loading /\ MaySend
    /\ sends[n].at = "unsent" /\ \A m \in 1..(n - 1) : sends[m].at # "unsent"
    /\ LET new == panel.session = NoSession
           send == [sends[n] EXCEPT
                      !.at = IF new THEN "creating" ELSE "requesting",
                      !.session = panel.session, !.text = text,
                      !.captured = panel.captured, !.staleError = panel.error]
           busy == [panel EXCEPT !.sending = TRUE] IN
       /\ sends' = [sends EXCEPT ![n] = send]
       /\ Shows(IF new THEN busy ELSE SetUp(busy, n, text))
    /\ UNCHANGED <<runs, store, panelBounds>>

\* The session is created and opened, wherever the user is by now; its history
\* is fetched.
CreateSession(n, s) ==
    /\ sends[n].at = "creating" /\ s \notin store.created
    /\ store' = [store EXCEPT !.created = @ \cup {s}]
    /\ sends' = [sends EXCEPT ![n].at = "requesting", ![n].session = s]
    /\ history' = IF MayPoll THEN [history EXCEPT ![s].fetch = {store.conv[s]}] ELSE history
    /\ panelBounds' = IF MayPoll THEN [panelBounds EXCEPT !.polls = @ + 1] ELSE panelBounds
    /\ panel' = Rendered(panel, history,
                         SetUp([panel EXCEPT !.session = s, !.skip = s], n, sends[n].text),
                         history')
    /\ UNCHANGED runs

CreateFails(n) ==
    /\ sends[n].at = "creating" /\ Fault
    /\ sends' = [sends EXCEPT ![n].at = "over"]
    /\ runs' = [runs EXCEPT ![n].at = "lost"]
    /\ Shows([panel EXCEPT !.sending = FALSE])
    /\ UNCHANGED store

\* sendMessage returned nothing: the answer keeps its text.  Only if the render
\* of the click had seen an error is a fallback shown for an empty one.
Unfinished(p, n) ==
    [p EXCEPT !.sending = FALSE, !.ref = <<>>,
              !.messages = [i \in DOMAIN @ |->
                  IF @[i].id = <<"a", n>> /\ sends[n].staleError /\ @[i].text = <<>>
                  THEN [@[i] EXCEPT !.text = Fallback] ELSE @[i]]]

\* The request is refused, or the connection breaks.
RequestFails(n) ==
    /\ sends[n].at \in {"requesting", "reading"} /\ Fault
    /\ sends' = [sends EXCEPT ![n].at = "over"]
    /\ runs' = [runs EXCEPT ![n].at = IF @ = "none" THEN "lost" ELSE @, ![n].wire = <<>>]
    /\ Shows(Unfinished([panel EXCEPT !.error = TRUE, !.streaming = FALSE], n))
    /\ UNCHANGED store

\* The stop button: the server is asked to stop the session's run, the request
\* is aborted, and what is buffered is shown.
Stop ==
    /\ panel.streaming /\ ~Loading
    /\ LET n == panel.abort IN
       /\ sends[n].at \in {"requesting", "reading"}
       /\ sends' = [sends EXCEPT ![n].at = "aborted"]
       /\ runs' = [runs EXCEPT ![n].stop = TRUE, ![n].wire = <<>>]
    /\ Shows([panel EXCEPT !.streaming = FALSE, !.frame = FALSE, !.buffer = <<>>,
                           !.content = @ \o panel.buffer])
    /\ UNCHANGED <<store, panelBounds>>

AbortLands(n) ==
    /\ sends[n].at = "aborted"
    /\ sends' = [sends EXCEPT ![n].at = "over"]
    /\ Shows(Unfinished(panel, n))
    /\ UNCHANGED <<runs, store, panelBounds>>

\* One event of the stream, on the panel and the send.
Heard(n, pf, event) ==
    LET p == pf[1]
        f == pf[2] IN
    CASE event.type = "user_id"       -> <<[p EXCEPT !.userId = n], f>>
      [] event.type = "ai_message_id" ->
            <<[p EXCEPT !.aiId = n], [f EXCEPT !.named = TRUE]>>
      [] event.type = "token"         ->
            <<[p EXCEPT !.buffer = @ \o event.text, !.frame = TRUE],
              [f EXCEPT !.read = @ \o event.text]>>
      [] event.type = "token_rollback" ->
            <<[p EXCEPT !.buffer = <<>>, !.content = <<>>, !.frame = FALSE],
              [f EXCEPT !.read = <<>>]>>
      [] event.type = "complete"      ->
            <<[p EXCEPT !.buffer = <<>>, !.frame = FALSE, !.streaming = FALSE],
              [f EXCEPT !.final = {IF f.captured # <<>> THEN f.captured ELSE event.text}]>>
      [] event.type = "error"         -> <<[p EXCEPT !.error = TRUE], f>>
      [] event.type = "close"         ->
            <<[p EXCEPT !.streaming = FALSE],
              [f EXCEPT !.at = "over",
                        !.final = IF @ = NoAnswer /\ f.captured # <<>> THEN {f.captured}
                                  ELSE @]>>

\* The answer replaces the message of the id it was given at the click.
Finalized(messages, n, f) ==
    [i \in DOMAIN messages |->
        IF messages[i].id = <<"a", n>>
        THEN Message(<<IF f.named THEN "ai" ELSE "f", n>>, "assistant", The(f.final))
        ELSE messages[i]]

\* The panel and the send after the first k events of the wire.
Chunk(n, k) ==
    LET Read[i \in 0..k] == IF i = 0 THEN <<panel, sends[n]>>
                            ELSE Heard(n, Read[i - 1], runs[n].wire[i])
    IN  Read[k]

HasAnswer(f) == f.at = "over" /\ f.final # NoAnswer

Concluded(n, p, f) ==
    IF f.at # "over" THEN p
    ELSE IF HasAnswer(f) THEN [p EXCEPT !.messages = Finalized(@, n, f), !.sending = FALSE]
    ELSE Unfinished(p, n)

\* A chunk of events is read.  The last one ends the send: the panel's messages
\* become the cached history of the session it was sent to, and that is a render
\* of its own.
ReadChunk(n, k) ==
    /\ sends[n].at = "reading" /\ k \in 1..Len(runs[n].wire)
    /\ LET f == Chunk(n, k)[2]
           q == Concluded(n, Chunk(n, k)[1], f)
           shown == Rendered(panel, history, q, history)
           cached == IF HasAnswer(f) THEN [history EXCEPT ![f.session].data = {q.messages}]
                     ELSE history IN
       /\ sends' = [sends EXCEPT ![n] = f]
       /\ history' = cached
       /\ panel' = Rendered(shown, history, shown, cached)
    /\ runs' = [runs EXCEPT ![n].wire = SubSeq(@, k + 1, Len(@))]
    /\ UNCHANGED <<store, panelBounds>>

\* requestAnimationFrame: what is buffered is shown.
Frame ==
    /\ panel.frame
    /\ Shows([panel EXCEPT !.frame = FALSE, !.buffer = <<>>, !.content = @ \o panel.buffer])
    /\ UNCHANGED <<sends, runs, store, panelBounds>>

-----------------------------------------------------------------------------
(* The server: one run for each message, detached from its connection.     *)

Relayed(n, events) == IF sends[n].at = "reading" THEN runs[n].wire \o events ELSE <<>>

SendEvent(type, text) == [type |-> type, text |-> text]

Appended(n, message) ==
    LET conv == [store.conv EXCEPT ![sends[n].session] = Append(@, message)] IN
    [store EXCEPT !.conv = conv]

AnswerSaved(n) == Appended(n, Message(<<"ai", n>>, "assistant", runs[n].gathered))

\* It is stored before anything is answered, also when it was aborted meanwhile.
RequestArrives(n) ==
    /\ runs[n].at = "none" /\ sends[n].at \notin {"unsent", "creating"}
    /\ store' = Appended(n, Message(<<"msg", n>>, "user", Typed(sends[n].text)))
    /\ sends' = [sends EXCEPT ![n].at = IF @ = "requesting" THEN "reading" ELSE @]
    /\ runs' = [runs EXCEPT ![n].at = "running",
                   ![n].wire = IF sends[n].at = "requesting"
                               THEN <<SendEvent("user_id", <<>>),
                                      SendEvent("ai_message_id", <<>>)>>
                               ELSE <<>>]
    /\ UNCHANGED <<panel, history, panelBounds>>

\* What was rolled back stays in the text the run has gathered.
EmitToken(n) ==
    /\ runs[n].at = "running" /\ Len(runs[n].gathered) < MaxTokens
    /\ LET token == <<<<n, Len(runs[n].gathered) + 1>>>> IN
       runs' = [runs EXCEPT ![n].emitted = @ \o token, ![n].gathered = @ \o token,
                            ![n].wire = Relayed(n, <<SendEvent("token", token)>>)]
    /\ UNCHANGED <<panel, sends, store, history, panelBounds>>

RollBack(n) ==
    /\ runs[n].at = "running" /\ runs[n].emitted # <<>>
    /\ runs' = [runs EXCEPT ![n] = [@ EXCEPT !.emitted = <<>>,
                                  !.wire = Relayed(n, <<SendEvent("token_rollback", <<>>)>>)]]
    /\ UNCHANGED <<panel, sends, store, history, panelBounds>>

CompleteRun(n) ==
    /\ runs[n].at = "running"
    /\ runs' = [runs EXCEPT ![n] = [@ EXCEPT !.at = "completed", !.gathered = runs[n].emitted,
                       !.wire = Relayed(n, <<SendEvent("complete", runs[n].emitted)>>)]]
    /\ UNCHANGED <<panel, sends, store, history, panelBounds>>

SaveAnswer(n) ==
    /\ runs[n].at = "completed"
    /\ store' = AnswerSaved(n)
    /\ runs' = [runs EXCEPT ![n].at = "saved"]
    /\ UNCHANGED <<panel, sends, history, panelBounds>>

\* The summary and the memory are saved first.
CloseRun(n) ==
    /\ runs[n].at = "saved"
    /\ runs' = [runs EXCEPT ![n].at = "closed",
                            ![n].wire = Relayed(n, <<SendEvent("close", <<>>)>>)]
    /\ UNCHANGED <<panel, sends, store, history, panelBounds>>

\* Mutant of SavedPartly: the answer may have been saved before.
SavedPartlyAgain(n) == IF runs[n].gathered = <<>> THEN store ELSE AnswerSaved(n)

\* Cut short, a run saves what it has gathered, if that is anything.
SavedPartly(n) ==
    IF runs[n].at = "saved" \/ runs[n].gathered = <<>> THEN store ELSE AnswerSaved(n)

RunFails(n) ==
    /\ runs[n].at = "running" /\ Fault
    /\ runs' = [runs EXCEPT ![n].at = "closed",
          ![n].wire = Relayed(n, <<SendEvent("error", <<>>), SendEvent("close", <<>>)>>)]
    /\ store' = SavedPartly(n)
    /\ UNCHANGED <<panel, sends, history>>

\* A stop reaches the run that is the session's by now.
StopArrives(n) ==
    /\ runs[n].stop
    /\ LET ofSession == {m \in Sends : /\ runs[m].at \notin {"none", "lost"}
                                       /\ sends[m].session = sends[n].session}
           live == {m \in ofSession : runs[m].at # "closed" /\ \A k \in ofSession : k <= m} IN
       \/ /\ live = {}
          /\ runs' = [runs EXCEPT ![n].stop = FALSE]
          /\ UNCHANGED store
       \/ \E m \in live :
            /\ runs' = [[runs EXCEPT ![n].stop = FALSE] EXCEPT
                          ![m].at = "closed",
                          ![m].wire = Relayed(m, <<SendEvent("close", <<>>)>>)]
            /\ store' = SavedPartly(m)
    /\ UNCHANGED <<panel, sends, history, panelBounds>>

-----------------------------------------------------------------------------
ChatPanelNext ==
    \/ Poll \/ Stop \/ Frame
    \/ \E s \in ChatSessions \cup {NoSession} : OpenSession(s)
    \/ \E s \in ChatSessions : FetchLands(s)
    \/ \E n \in Sends :
        \/ \E text \in SendTexts : ClickSend(n, text)
        \/ \E s \in ChatSessions : CreateSession(n, s)
        \/ CreateFails(n) \/ RequestFails(n) \/ AbortLands(n)
        \/ \E k \in 1..(MaxTokens + 5) : ReadChunk(n, k)
        \/ RequestArrives(n) \/ EmitToken(n) \/ RollBack(n) \/ CompleteRun(n)
        \/ SaveAnswer(n) \/ CloseRun(n) \/ RunFails(n) \/ StopArrives(n)

ChatPanelSpec == ChatPanelInit /\ [][ChatPanelNext]_panelVars

-----------------------------------------------------------------------------
(* Properties.                                                             *)

OneSendAtATime ==
    \A m, n \in Sends : m < n /\ sends[n].at # "unsent" => sends[m].at = "over"

StreamIsTheSends ==
    \A n \in Sends : sends[n].at = "reading" /\ panel.streaming =>
        /\ panel.content \o panel.buffer = sends[n].read
        /\ panel.ref \in {<<"a", n>>, <<"ai", n>>}

\* The number of a question may be given to an earlier one that has none, when
\* the question itself is not shown: a history has brought it, or the panel is at
\* another session.
Misnamed(m) == m.id[1] = "msg" /\ m.text # Typed(sends[m.id[2]].text)

ShownOnce ==
    \A i, j \in DOMAIN panel.messages :
        LET m == panel.messages[i]
            other == panel.messages[j] IN
        i < j /\ ~Misnamed(m) /\ ~Misnamed(other) =>
            /\ m.id # other.id
            /\ m.role = "user" /\ other.role = "user" => m.id[2] # other.id[2]

\* A message may make place for one of the same text, an answer for itself.
StandsFor(m, old) ==
    /\ m.role = old.role
    /\ m.text = old.text \/ (m.role = "assistant" /\ m.id[2] = old.id[2])

NothingVanishes ==
    panel'.session = panel.session =>
        \A i \in DOMAIN panel.messages :
            panel.messages[i].text # <<>> /\ ~Misnamed(panel.messages[i]) =>
                \E j \in DOMAIN panel'.messages :
                    StandsFor(panel'.messages[j], panel.messages[i])

\* While one send is under way there is no other, though clicks, moves between
\* sessions, stops, failures and polls come at any time; what is being streamed
\* is what the send has read and goes to its own message; save for questions that
\* were given the number of another, no message is shown twice; and as long as the
\* session stays open no question and no answer of which any text was shown
\* disappears, whatever history arrives.
PanelIsFaithful ==
    /\ [](OneSendAtATime /\ StreamIsTheSends /\ ShownOnce)
    /\ [][NothingVanishes]_panelVars
=============================================================================
