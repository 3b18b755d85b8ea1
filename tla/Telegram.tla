-------------------------------- MODULE Telegram --------------------------------
(***************************************************************************)
(* The Telegram channel: services/integrations/telegram_service.py and the *)
(* routes of api/integrations.py that link a chat to an account.           *)
(*                                                                         *)
(* Every update is a background task with a database session of its own,   *)
(* so two updates of one chat run side by side.  A handler keeps the link  *)
(* row it loaded when it began, and an assignment to that row writes only  *)
(* the columns whose value it changes; a row that is gone by then, or a    *)
(* row somebody else inserted first, fails the commit.  The steps below    *)
(* end at those commits; the short commands read and write in one.         *)
(***************************************************************************)
EXTENDS Naturals, Sequences

CONSTANTS
    Chats,
    TelegramUsers,
    TelegramSpaces,    \* workspaces
    Codes,             \* one-time codes that may be minted
    MintedBy,          \* [Codes -> TelegramUsers]
    Questions,
    LinkRequests,      \* /link and /start updates
    SessionIds,        \* numbers, given in order
    HistoryLimit,
    AnswerTexts,       \* answers, as the lengths of their lines
    ChunkBudget,       \* TG_HTML_CHUNK
    NoLink,            \* the chat has no row
    Nobody, NoSession, NoSpace,
    MaxChatEvents      \* commands, requests from the web, refused messages

ASSUME TelegramAssumption ==
    /\ Chats # {} /\ Codes # {}
    /\ MintedBy \in [Codes -> TelegramUsers]
    /\ NoLink \notin [user : TelegramUsers, session : SessionIds \cup {NoSession},
                     space : TelegramSpaces \cup {NoSpace}]
    /\ Nobody \notin TelegramUsers /\ NoSession \notin SessionIds /\ NoSpace \notin TelegramSpaces
    /\ SessionIds \subseteq Nat
    /\ AnswerTexts \subseteq Seq(Nat) \ {<<>>}
    /\ ChunkBudget \in Nat \ {0}
    /\ {HistoryLimit, MaxChatEvents} \subseteq Nat

VARIABLES
    chatLink,          \* [Chats -> the telegram_links row, or NoLink]
    code,              \* [Codes -> the telegram_link_codes row's state]
    tgSession,         \* [SessionIds -> the chat_sessions row and its messages]
    question,          \* [Questions -> the handler of the question]
    linking,           \* [LinkRequests -> the handler of the request]
    active,            \* accounts with is_active
    spaces,             \* [TelegramUsers -> workspaces the account has access to]
    enabled,           \* TelegramBotConfig.enabled
    chatEvents

telegramVars == <<chatLink, code, tgSession, question, linking, active, spaces, enabled, chatEvents>>

LinkRows == [user : TelegramUsers, session : SessionIds \cup {NoSession},
         space : TelegramSpaces \cup {NoSpace}]
ChatTurns == [of : Questions, role : {"user", "assistant"}]
SessionRows == [user : TelegramUsers \cup {Nobody}, idle : BOOLEAN, turns : Seq(ChatTurns)]

\* at: waiting for the webhook, linked (the row is read), created (the session
\* is committed), settled (it is chosen), asking, delivered, over.
\* shown: what the chat shows for the question.
Handlers ==
    [ at      : {"waiting", "linked", "created", "settled", "asking", "delivered", "over"},
      chat    : Chats,
      row     : LinkRows \cup {NoLink},
      session : SessionIds \cup {NoSession},
      history : Seq(ChatTurns),
      shown   : {"nothing", "placeholder", "partial", "answer", "error"},
      refused : BOOLEAN ]

LinkHandlers ==
    [ at   : {"waiting", "read", "linked", "refused"},
      chat : Chats,
      code : Codes,
      row  : LinkRows \cup {NoLink} ]

TelegramTypeOK ==
    /\ chatLink \in [Chats -> LinkRows \cup {NoLink}]
    /\ code \in [Codes -> {"unminted", "live", "used", "expired"}]
    /\ tgSession \in [SessionIds -> SessionRows]
    /\ question \in [Questions -> Handlers]
    /\ linking \in [LinkRequests -> LinkHandlers]
    /\ active \in SUBSET TelegramUsers
    /\ spaces \in [TelegramUsers -> SUBSET TelegramSpaces]
    /\ enabled \in BOOLEAN
    /\ chatEvents \in 0..MaxChatEvents

NotAsked == [at |-> "waiting", chat |-> CHOOSE c \in Chats : TRUE, row |-> NoLink,
             session |-> NoSession, history |-> <<>>,
             shown |-> "nothing", refused |-> FALSE]

TelegramInit ==
    /\ chatLink = [c \in Chats |-> NoLink]
    /\ code = [k \in Codes |-> "unminted"]
    /\ tgSession = [s \in SessionIds |-> [user |-> Nobody, idle |-> FALSE, turns |-> <<>>]]
    /\ question = [q \in Questions |-> NotAsked]
    /\ linking = [l \in LinkRequests |-> [at |-> "waiting", chat |-> CHOOSE c \in Chats : TRUE,
                                          code |-> CHOOSE k \in Codes : TRUE, row |-> NoLink]]
    /\ active = TelegramUsers
    /\ spaces = [a \in TelegramUsers |-> TelegramSpaces]
    /\ enabled = TRUE
    /\ chatEvents = 0

Event == chatEvents < MaxChatEvents /\ chatEvents' = chatEvents + 1

-----------------------------------------------------------------------------
(* Linking.                                                                *)

\* A user with two-factor authentication mints a code on the web.
MintCode(k) ==
    /\ code[k] = "unminted" /\ MintedBy[k] \in active
    /\ code' = [code EXCEPT ![k] = "live"]
    /\ UNCHANGED <<chatEvents, chatLink, tgSession, question, linking,
                   active, spaces, enabled>>

CodeExpires(k) ==
    /\ code[k] = "live" /\ Event
    /\ code' = [code EXCEPT ![k] = "expired"]
    /\ UNCHANGED <<chatLink, tgSession, question, linking, active, spaces, enabled>>

\* /link or /start with a code: the code, its account and the chat's row.
Redeemable(k) == code[k] = "live" /\ MintedBy[k] \in active

ReadCode(l, c, k) ==
    /\ linking[l].at = "waiting" /\ enabled /\ code[k] # "unminted"
    /\ linking' = [linking EXCEPT ![l] =
          [at |-> IF Redeemable(k) THEN "read" ELSE "refused", chat |-> c, code |-> k,
           row |-> chatLink[c]]]
    /\ UNCHANGED <<chatEvents, chatLink, code, tgSession, question,
                   active, spaces, enabled>>

\* The row of a chat as a handler that read row leaves it: only the columns
\* that differ from what was read are written.
Written(row, current, new) ==
    [f \in DOMAIN new |-> IF row[f] = new[f] THEN current[f] ELSE new[f]]

FreshLink(a) == [user |-> a, session |-> NoSession, space |-> NoSpace]

\* The link and the use of the code are one commit.
CommitLink(l) ==
    LET r == linking[l]
        row == chatLink[r.chat] IN
    /\ r.at = "read" /\ (r.row = NoLink <=> row = NoLink)
    /\ chatLink' = [chatLink EXCEPT ![r.chat] =
          IF row = NoLink THEN FreshLink(MintedBy[r.code])
                          ELSE Written(r.row, row, FreshLink(MintedBy[r.code]))]
    /\ code' = [code EXCEPT ![r.code] = "used"]
    /\ linking' = [linking EXCEPT ![l].at = "linked"]
    /\ UNCHANGED <<chatEvents, tgSession, question, active, spaces,
                   enabled>>

\* The row was deleted, or another request inserted it first: the user is told
\* of an error, and the code stays as it was.
CommitLinkFails(l) ==
    /\ linking[l].at = "read"
    /\ (linking[l].row = NoLink) # (chatLink[linking[l].chat] = NoLink)
    /\ linking' = [linking EXCEPT ![l].at = "refused"]
    /\ UNCHANGED <<chatEvents, chatLink, code, tgSession, question,
                   active, spaces, enabled>>

-----------------------------------------------------------------------------
(* The short commands, and the web.                                        *)

NewConversation(c) ==
    /\ chatLink[c] # NoLink /\ enabled /\ Event
    /\ chatLink' = [chatLink EXCEPT ![c].session = NoSession]
    /\ UNCHANGED <<code, tgSession, question, linking, active, spaces, enabled>>

\* /workspace with a number of the list of accessible ones, or "all".
ChooseSpace(c) ==
    /\ chatLink[c] # NoLink /\ enabled /\ Event
    /\ \E w \in spaces[chatLink[c].user] \cup {NoSpace} :
          chatLink' = [chatLink EXCEPT ![c].space = w]
    /\ UNCHANGED <<code, tgSession, question, linking, active, spaces, enabled>>

\* /unlink, or its owner or an administrator on the web.
Unlink(c) ==
    /\ chatLink[c] # NoLink /\ Event
    /\ chatLink' = [chatLink EXCEPT ![c] = NoLink]
    /\ UNCHANGED <<code, tgSession, question, linking, active, spaces, enabled>>

\* The session is deleted on the web, with its messages.
DeleteTgSession(s) ==
    /\ tgSession[s].user # Nobody /\ Event
    /\ tgSession' = [tgSession EXCEPT ![s] = [user |-> Nobody, idle |-> TRUE, turns |-> <<>>]]
    /\ chatLink' = [c \in Chats |->
          IF chatLink[c] # NoLink /\ chatLink[c].session = s
          THEN [chatLink[c] EXCEPT !.session = NoSession] ELSE chatLink[c]]
    /\ UNCHANGED <<code, question, linking, active, spaces, enabled>>

\* An administrator deactivates an account, takes a workspace from it, or turns
\* the bot off or on.
Administer ==
    /\ Event
    /\ \/ /\ \E a \in active : active' = active \ {a}
          /\ UNCHANGED <<spaces, enabled>>
       \/ /\ \E a \in TelegramUsers : \E w \in spaces[a] :
                spaces' = [spaces EXCEPT ![a] = @ \ {w}]
          /\ UNCHANGED <<active, enabled>>
       \/ /\ enabled' = ~enabled
          /\ UNCHANGED <<active, spaces>>
    /\ UNCHANGED <<chatLink, code, tgSession, question, linking>>

\* Nobody writes in the session for TELEGRAM_SESSION_IDLE_MINUTES.
GoesIdle(s) ==
    /\ tgSession[s].turns # <<>> /\ ~tgSession[s].idle /\ Event
    /\ tgSession' = [tgSession EXCEPT ![s].idle = TRUE]
    /\ UNCHANGED <<chatLink, code, question, linking, active, spaces, enabled>>

-----------------------------------------------------------------------------
(* A question.                                                             *)

Scope(row) == IF row.space # NoSpace THEN {row.space} ELSE spaces[row.user]

Becomes(q, handler) == question' = [question EXCEPT ![q] = handler]

\* A handler that is over keeps nothing, but whose question it was.
Dropped(handler) ==
    [handler EXCEPT !.at = "over", !.session = NoSession, !.history = <<>>,
                    !.row = IF @ = NoLink THEN NoLink ELSE FreshLink(@.user)]
Told(handler) == [Dropped(handler) EXCEPT !.shown = "error"]

\* The update arrives: the chat's row, its account, and what to search.  A chat
\* that may not ask is told so; a bot that is off says nothing.
Ask(q, c) ==
    /\ question[q].at = "waiting"
    /\ LET row == chatLink[c]
           asked == [question[q] EXCEPT !.chat = c] IN
       IF ~enabled THEN Becomes(q, [asked EXCEPT !.at = "over"])
       ELSE IF row = NoLink THEN Becomes(q, Told(asked))
       ELSE IF row.user \notin active \/ Scope(row) = {}
            THEN Becomes(q, Told([asked EXCEPT !.row = row]))
            ELSE Becomes(q, [asked EXCEPT !.at = "linked", !.row = row])
    /\ UNCHANGED <<chatEvents, chatLink, code, tgSession, linking,
                   active, spaces, enabled>>

\* Mutant of Reusable: whoever the session belongs to.
ReusableByAnyone(row) == row.session # NoSession /\ ~tgSession[row.session].idle

\* The session of the row as it was read, if it still is the account's.
Reusable(row) ==
    /\ row.session # NoSession
    /\ tgSession[row.session].user = row.user
    /\ ~tgSession[row.session].idle

ReuseSession(q) ==
    /\ question[q].at = "linked" /\ Reusable(question[q].row)
    /\ Becomes(q, [question[q] EXCEPT !.at = "settled", !.session = question[q].row.session])
    /\ UNCHANGED <<chatEvents, chatLink, code, tgSession, linking,
                   active, spaces, enabled>>

\* The first question of a conversation, or one after an idle gap.
CreateTgSession(q, s) ==
    /\ question[q].at = "linked" /\ ~Reusable(question[q].row)
    /\ tgSession[s] = [user |-> Nobody, idle |-> FALSE, turns |-> <<>>]
    /\ \A t \in SessionIds : tgSession[t] = tgSession[s] => s <= t
    /\ tgSession' = [tgSession EXCEPT ![s].user = question[q].row.user]
    /\ Becomes(q, [question[q] EXCEPT !.at = "created", !.session = s])
    /\ UNCHANGED <<chatEvents, chatLink, code, linking, active, spaces,
                   enabled>>

\* The chat is pointed at it, in a commit of its own.
PointChat(q) ==
    LET c == question[q].chat IN
    /\ question[q].at = "created"
    /\ IF chatLink[c] = NoLink
       THEN Becomes(q, Told(question[q])) /\ UNCHANGED chatLink
       ELSE /\ chatLink' = [chatLink EXCEPT ![c].session = question[q].session]
            /\ Becomes(q, [question[q] EXCEPT !.at = "settled"])
    /\ UNCHANGED <<chatEvents, code, tgSession, linking, active,
                   spaces, enabled>>

LastTurns(turns) ==
    SubSeq(turns, IF Len(turns) > HistoryLimit THEN Len(turns) - HistoryLimit + 1 ELSE 1,
           Len(turns))

Stored(s, turn) ==
    tgSession' = [tgSession EXCEPT ![s].turns = Append(@, turn), ![s].idle = FALSE]

\* The history is loaded, the question stored, and a placeholder sent, which
\* Telegram may refuse.
StoreQuestion(q) ==
    LET s == question[q].session IN
    /\ question[q].at = "settled"
    /\ IF tgSession[s].user = Nobody
       THEN Becomes(q, Told(question[q])) /\ UNCHANGED <<tgSession, chatEvents>>
       ELSE /\ Stored(s, [of |-> q, role |-> "user"])
            /\ \E sent \in BOOLEAN :
                  /\ Becomes(q, [question[q] EXCEPT
                         !.at = "asking", !.history = LastTurns(tgSession[s].turns),
                         !.shown = IF sent THEN "placeholder" ELSE "nothing"])
                  /\ IF sent THEN UNCHANGED chatEvents ELSE Event
    /\ UNCHANGED <<chatLink, code, linking, active, spaces, enabled>>

\* The placeholder shows what has arrived so far.  A refused edit is skipped.
StreamEdit(q) ==
    /\ question[q].at = "asking" /\ question[q].shown = "placeholder"
    /\ Becomes(q, [question[q] EXCEPT !.shown = "partial"])
    /\ UNCHANGED <<chatEvents, chatLink, code, tgSession, linking,
                   active, spaces, enabled>>

\* _chunk_markdown: lines are put together while they fit, and a longer line is
\* cut.  A chunk is the lengths of its pieces; the empty string counts as none.
Total(lengths) ==
    LET total[i \in 0..Len(lengths)] == IF i = 0 THEN 0 ELSE total[i - 1] + lengths[i]
    IN  total[Len(lengths)]
Text(chunk) == IF chunk = <<>> THEN 0 ELSE Total(chunk) + Len(chunk) - 1
Pieces(n) == [i \in 1..((n - 1) \div ChunkBudget) |-> <<ChunkBudget>>]
Rest(n) == IF n = 0 THEN 0 ELSE ((n - 1) % ChunkBudget) + 1

AddLine(acc, n) ==
    LET cut == n > ChunkBudget
        done == IF cut /\ acc.cur # <<>> THEN Append(acc.done, acc.cur) ELSE acc.done
        cur == IF cut THEN <<>> ELSE acc.cur
        pieces == IF cut THEN done \o Pieces(n) ELSE done
        rest == IF Rest(n) = 0 THEN <<>> ELSE <<Rest(n)>> IN
    IF Text(cur) + Rest(n) + 1 > ChunkBudget
    THEN [done |-> Append(pieces, cur), cur |-> rest]
    ELSE [done |-> pieces, cur |-> IF cur = <<>> THEN rest ELSE Append(cur, Rest(n))]

ChunkMarkdown(lines) ==
    IF Text(lines) <= ChunkBudget THEN <<lines>>
    ELSE LET upto[i \in 0..Len(lines)] ==
                 IF i = 0 THEN [done |-> <<>>, cur |-> <<>>] ELSE AddLine(upto[i - 1], lines[i])
             acc == upto[Len(lines)] IN
         IF acc.cur = <<>> THEN acc.done ELSE Append(acc.done, acc.cur)

\* What may be put in the place of the placeholder.
FirstChunkIsEmpty == {ChunkMarkdown(lines)[1] = <<>> : lines \in AnswerTexts}

\* The answer, or the error of the agent, over the placeholder or as a message
\* of its own; formatted, then plain if that is refused.  Telegram takes no
\* empty message.
Deliver(q) ==
    /\ question[q].at = "asking"
    /\ \E result \in {"answer", "error"}, empty \in FirstChunkIsEmpty :
          \/ /\ ~empty
             /\ Becomes(q, [question[q] EXCEPT !.at = "delivered", !.shown = result])
             /\ UNCHANGED chatEvents
          \/ /\ empty
             /\ Becomes(q, [question[q] EXCEPT !.at = "delivered", !.refused = TRUE])
             /\ UNCHANGED chatEvents
          \/ /\ Becomes(q, [question[q] EXCEPT !.at = "delivered", !.refused = TRUE])
             /\ Event
    /\ UNCHANGED <<chatLink, code, tgSession, linking, active, spaces, enabled>>

\* The answer is stored, if the session is still there.
StoreReply(q) ==
    LET s == question[q].session IN
    /\ question[q].at = "delivered"
    /\ IF tgSession[s].user = Nobody THEN UNCHANGED tgSession
                                     ELSE Stored(s, [of |-> q, role |-> "assistant"])
    /\ Becomes(q, Dropped(question[q]))
    /\ UNCHANGED <<chatEvents, chatLink, code, linking, active, spaces,
                   enabled>>

\* The process ends.  Telegram has its 200 for every update and sends none
\* again.
BotRestarts ==
    /\ Event
    /\ question' = [q \in Questions |->
          IF question[q].at = "waiting" THEN question[q]
          ELSE [Dropped(question[q]) EXCEPT !.refused = @ \/ question[q].at # "over"]]
    /\ linking' = [l \in LinkRequests |->
          IF linking[l].at = "read" THEN [linking[l] EXCEPT !.at = "refused"] ELSE linking[l]]
    /\ UNCHANGED <<chatLink, code, tgSession, active, spaces, enabled>>

TelegramNext ==
    \/ \E k \in Codes : MintCode(k) \/ CodeExpires(k)
    \/ \E l \in LinkRequests :
          \/ \E c \in Chats, k \in Codes : ReadCode(l, c, k)
          \/ CommitLink(l) \/ CommitLinkFails(l)
    \/ \E c \in Chats : NewConversation(c) \/ ChooseSpace(c) \/ Unlink(c)
    \/ \E s \in SessionIds : DeleteTgSession(s) \/ GoesIdle(s)
    \/ Administer \/ BotRestarts
    \/ \E q \in Questions :
          \/ \E c \in Chats : Ask(q, c)
          \/ \E s \in SessionIds : CreateTgSession(q, s)
          \/ ReuseSession(q) \/ PointChat(q) \/ StoreQuestion(q)
          \/ StreamEdit(q) \/ Deliver(q) \/ StoreReply(q)

TelegramSpec == TelegramInit /\ [][TelegramNext]_telegramVars

-----------------------------------------------------------------------------
SameConversation(p, q) ==
    question[p].chat = question[q].chat /\ question[p].row.user = question[q].row.user

\* A session holds the turns of one chat and of the account it belongs to, each
\* turn once and an answer after its question, whatever the chat was linked to
\* while the questions ran.
TurnsAreOwned ==
    \A s \in SessionIds :
        LET turns == tgSession[s].turns IN
        /\ \A i \in DOMAIN turns : question[turns[i].of].row.user = tgSession[s].user
        /\ \A i, j \in DOMAIN turns :
              /\ SameConversation(turns[i].of, turns[j].of)
              /\ turns[i] = turns[j] => i = j
              /\ turns[i].of = turns[j].of /\ turns[i].role = "assistant" => j <= i

\* What the agent is given as history is of the chat and the account that ask.
HistoryIsOwn ==
    \A q \in Questions : \A i \in DOMAIN question[q].history :
        SameConversation(q, question[q].history[i].of)

\* An account is linked to a chat only through a code that it minted, that was
\* redeemed in that chat and cannot be redeemed again.
LinksAreEarned ==
    \A c \in Chats : chatLink[c] # NoLink =>
        \E l \in LinkRequests :
            /\ linking[l].at = "linked" /\ linking[l].chat = c
            /\ MintedBy[linking[l].code] = chatLink[c].user
            /\ code[linking[l].code] = "used"

\* No placeholder and no partial answer is left standing, unless Telegram
\* refused the last edit or the process ended.
AnswerStands ==
    \A q \in Questions :
        question[q].at \in {"delivered", "over"} /\ ~question[q].refused =>
            question[q].shown \notin {"placeholder", "partial"}

\* What _chunk_markdown sends fits in a message and leaves out no text.
ChunksFit ==
    \A lines \in AnswerTexts :
        LET chunks == ChunkMarkdown(lines) IN
        /\ \A i \in DOMAIN chunks : Text(chunks[i]) <= ChunkBudget
        /\ Total([i \in DOMAIN chunks |-> Total(chunks[i])]) = Total(lines)

\* _redeem_code, _ensure_session and _handle_question together: a conversation
\* stays with the account that a chat was linked to when it was held.
ConversationsKeepTheirAccount ==
    TurnsAreOwned /\ HistoryIsOwn /\ LinksAreEarned /\ AnswerStands /\ ChunksFit
=============================================================================
