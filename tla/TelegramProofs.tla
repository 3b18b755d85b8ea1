---------------------------- MODULE TelegramProofs ----------------------------
(***************************************************************************)
(* Proofs about the conversations of the Telegram channel, for all chats,  *)
(* accounts, codes, questions and answers.                                 *)
(***************************************************************************)
EXTENDS Telegram, SequenceTheorems, WellFoundedInduction, TLAPS

-----------------------------------------------------------------------------
(* Conversations.                                                          *)

\* While the handler of a question has a session in hand.
InSession == {"created", "settled", "asking", "delivered"}

\* Whoever may write in a session or point a chat at it: the chat that a link, a
\* handler or a turn ties to s.
TiedByLink(c, s) == chatLink[c] # NoLink /\ chatLink[c].session = s
TiedByRow(q, s) == question[q].at = "linked" /\ question[q].row.session = s
TiedBySession(q, s) == question[q].at \in InSession /\ question[q].session = s
TiedByTurn(q, s) == \E i \in DOMAIN tgSession[s].turns : tgSession[s].turns[i].of = q
Tied(c, s) ==
    \/ TiedByLink(c, s)
    \/ \E q \in Questions :
          question[q].chat = c /\ (TiedByRow(q, s) \/ TiedBySession(q, s) \/ TiedByTurn(q, s))

\* A number that was given is not given again, even if its session was deleted.
Given(s) == tgSession[s].user # Nobody \/ tgSession[s].idle

\* A session is one chat's.
OneChat ==
    \A s \in SessionIds, c, d \in Chats :
        /\ Tied(c, s) => Given(s)
        /\ Tied(c, s) /\ Tied(d, s) => c = d

\* What a handler holds at each point, and its session, which is its account's
\* unless it was deleted.
HandlerKept(q) ==
    /\ question[q].at \in {"linked"} \cup InSession => question[q].row # NoLink
    /\ question[q].at \in InSession =>
          /\ question[q].session \in SessionIds
          /\ tgSession[question[q].session].user \in {question[q].row.user, Nobody}
    /\ question[q].at \in {"waiting", "linked", "created", "settled"} =>
          question[q].shown = "nothing" /\ question[q].history = <<>>
    /\ \A i \in DOMAIN question[q].history :
          /\ question[question[q].history[i].of].at # "waiting"
          /\ question[question[q].history[i].of].row # NoLink
          /\ SameConversation(q, question[q].history[i].of)
    /\ question[q].at \in {"delivered", "over"} /\ ~question[q].refused =>
          question[q].shown \notin {"placeholder", "partial"}

\* The turns of a session: of questions that were stored, answers last.
TurnsKept(s) ==
    LET turns == tgSession[s].turns IN
    /\ tgSession[s].user = Nobody => turns = <<>>
    /\ \A i \in DOMAIN turns :
          /\ question[turns[i].of].at \in {"asking", "delivered", "over"}
          /\ turns[i].role = "assistant" => question[turns[i].of].at = "over"
          /\ question[turns[i].of].row # NoLink
          /\ question[turns[i].of].row.user = tgSession[s].user
    /\ \A i, j \in DOMAIN turns :
          /\ turns[i] = turns[j] => i = j
          /\ turns[i].of = turns[j].of /\ turns[i].role = "assistant" => j <= i

TelegramInv ==
    /\ TelegramTypeOK
    /\ OneChat
    /\ \A q \in Questions : HandlerKept(q)
    /\ \A s \in SessionIds : TurnsKept(s)
    /\ LinksAreEarned

-----------------------------------------------------------------------------
LEMMA TelegramStart == TelegramInit => TelegramInv
<1> USE TelegramAssumption
<1> SUFFICES ASSUME TelegramInit PROVE TelegramInv
  OBVIOUS
<1> DEFINE c0 == CHOOSE c \in Chats : TRUE
           k0 == CHOOSE k \in Codes : TRUE
<1>1. c0 \in Chats /\ k0 \in Codes
  OBVIOUS
<1>2. <<>> \in Seq(ChatTurns) /\ DOMAIN <<>> = {}
  OBVIOUS
<1>3. question \in [Questions -> Handlers]
      /\ \A q \in Questions : question[q].at = "waiting" /\ question[q].shown = "nothing"
                              /\ question[q].history = <<>>
  <2>1. NotAsked = [at |-> "waiting", chat |-> c0, row |-> NoLink, session |-> NoSession,
                    history |-> <<>>, shown |-> "nothing", refused |-> FALSE]
    BY DEF NotAsked
  <2>2. question = [q \in Questions |-> NotAsked]
    BY DEF TelegramInit
  <2> HIDE DEF c0
  <2>3. NotAsked \in Handlers
    BY <1>1, <1>2, <2>1 DEF Handlers
  <2> QED BY <2>1, <2>2, <2>3
<1>4. linking \in [LinkRequests -> LinkHandlers]
  <2>1. linking = [l \in LinkRequests |-> [at |-> "waiting", chat |-> c0, code |-> k0, row |-> NoLink]]
    BY DEF TelegramInit
  <2> HIDE DEF c0, k0
  <2> QED BY <1>1, <2>1 DEF LinkHandlers
<1>5. tgSession \in [SessionIds -> SessionRows]
      /\ \A s \in SessionIds : tgSession[s].turns = <<>>
  <2> DEFINE fresh == [user |-> Nobody, idle |-> FALSE, turns |-> <<>>]
  <2>1. fresh \in SessionRows /\ fresh.turns = <<>>
    BY <1>2 DEF SessionRows
  <2>2. tgSession = [s \in SessionIds |-> fresh]
    BY DEF TelegramInit
  <2> HIDE DEF fresh
  <2> QED BY <2>1, <2>2
<1>6. TelegramTypeOK
  <2>1. chatLink \in [Chats -> LinkRows \cup {NoLink}]
    BY DEF TelegramInit
  <2>2. code \in [Codes -> {"unminted", "live", "used", "expired"}]
    BY DEF TelegramInit
  <2>3. active \in SUBSET TelegramUsers /\ spaces \in [TelegramUsers -> SUBSET TelegramSpaces]
    BY DEF TelegramInit
  <2>4. enabled \in BOOLEAN /\ chatEvents \in 0..MaxChatEvents
    BY DEF TelegramInit
  <2> QED BY <1>3, <1>4, <1>5, <2>1, <2>2, <2>3, <2>4 DEF TelegramTypeOK
<1>7. \A c \in Chats : chatLink[c] = NoLink
  BY DEF TelegramInit
<1>8. OneChat
  BY <1>2, <1>3, <1>5, <1>7
     DEF OneChat, Tied, TiedByLink, TiedByRow, TiedBySession, TiedByTurn, InSession
<1>9. ASSUME NEW q \in Questions PROVE HandlerKept(q)
  BY <1>2, <1>3 DEF HandlerKept, InSession
<1>10. ASSUME NEW s \in SessionIds PROVE TurnsKept(s)
  BY <1>2, <1>5 DEF TurnsKept
<1>11. LinksAreEarned
  BY <1>7 DEF LinksAreEarned
<1> QED BY <1>6, <1>8, <1>9, <1>10, <1>11 DEF TelegramInv

-----------------------------------------------------------------------------
\* A question that has a chat keeps it, and its account.
SameHandlers ==
    \A q \in Questions :
        question[q].at # "waiting" =>
            /\ question'[q].at # "waiting"
            /\ question'[q].chat = question[q].chat
            /\ question[q].row # NoLink =>
                  question'[q].row # NoLink /\ question'[q].row.user = question[q].row.user

\* Where no tie arises and no number is given back, a session stays one chat's.
LEMMA NoNewTies ==
    ASSUME OneChat,
           \A s \in SessionIds, c \in Chats : Tied(c, s)' => Tied(c, s),
           \A s \in SessionIds : Given(s) => Given(s)'
    PROVE  OneChat'
BY DEF OneChat

\* Steps that are not of a question and store nothing leave both as they are.
LEMMA HandlersRest ==
    ASSUME TelegramInv, UNCHANGED <<question, tgSession>>
    PROVE  /\ \A q \in Questions : HandlerKept(q)'
           /\ \A s \in SessionIds : TurnsKept(s)'
<1>1. \A q \in Questions : HandlerKept(q)'
  BY DEF TelegramInv, HandlerKept, SameConversation
<1>2. ASSUME NEW s \in SessionIds PROVE TurnsKept(s)'
  <2>1. TurnsKept(s) /\ question' = question /\ tgSession'[s] = tgSession[s]
    BY DEF TelegramInv
  <2> QED BY <2>1 DEF TurnsKept
<1> QED BY <1>1, <1>2

\* A chat that loses its session, its link or its workspace gains no tie.
LEMMA LinkChangesOnly ==
    ASSUME TelegramInv, UNCHANGED <<question, tgSession>>,
           \A c \in Chats, s \in SessionIds : TiedByLink(c, s)' => TiedByLink(c, s)
    PROVE  OneChat'
<1>1. \A s \in SessionIds, c \in Chats : Tied(c, s)' => Tied(c, s)
  BY DEF Tied, TiedByRow, TiedBySession, TiedByTurn
<1>2. \A s \in SessionIds : Given(s) => Given(s)'
  BY DEF Given
<1> QED BY <1>1, <1>2, NoNewTies DEF TelegramInv

\* Events.
LEMMA EventsTyped ==
    ASSUME TelegramInv, Event \/ UNCHANGED chatEvents
    PROVE  chatEvents' \in 0..MaxChatEvents
BY TelegramAssumption DEF TelegramInv, TelegramTypeOK, Event

LEMMA MintStep ==
    ASSUME TelegramInv, NEW k \in Codes, MintCode(k) \/ CodeExpires(k)
    PROVE  TelegramInv'
<1> USE TelegramAssumption
<1>1. UNCHANGED <<chatLink, tgSession, question, linking, active, spaces, enabled>>
      /\ (Event \/ UNCHANGED chatEvents)
  BY DEF MintCode, CodeExpires
<1>2. code' \in [Codes -> {"unminted", "live", "used", "expired"}]
      /\ \A x \in Codes : code[x] = "used" => code'[x] = "used"
  BY DEF MintCode, CodeExpires, TelegramInv, TelegramTypeOK
<1>3. TelegramTypeOK'
  BY <1>1, <1>2, EventsTyped DEF TelegramInv, TelegramTypeOK
<1>4. OneChat'
  BY <1>1, LinkChangesOnly DEF TiedByLink
<1>5. LinksAreEarned'
  BY <1>1, <1>2 DEF TelegramInv, TelegramTypeOK, LinksAreEarned, LinkHandlers
<1> QED BY <1>1, <1>3, <1>4, <1>5, HandlersRest DEF TelegramInv

LEMMA ReadCodeStep ==
    ASSUME TelegramInv, NEW l \in LinkRequests, NEW c \in Chats, NEW k \in Codes, ReadCode(l, c, k)
    PROVE  TelegramInv'
<1> USE TelegramAssumption
<1> DEFINE at == IF Redeemable(k) THEN "read" ELSE "refused"
           new == [at |-> at, chat |-> c, code |-> k, row |-> chatLink[c]]
<1>1. /\ UNCHANGED <<chatEvents, chatLink, code, tgSession, question, active, spaces, enabled>>
      /\ linking' = [linking EXCEPT ![l] = new] /\ linking[l].at = "waiting"
  BY DEF ReadCode
<1>2. at \in {"read", "refused"} /\ chatLink[c] \in LinkRows \cup {NoLink}
  BY DEF TelegramInv, TelegramTypeOK
<1> HIDE DEF at
<1>3. new \in LinkHandlers
  BY <1>2 DEF LinkHandlers
<1> HIDE DEF new
<1>4. linking' \in [LinkRequests -> LinkHandlers]
      /\ \A m \in LinkRequests : linking[m].at = "linked" => linking'[m] = linking[m]
  BY <1>1, <1>3 DEF TelegramInv, TelegramTypeOK
<1>5. TelegramTypeOK'
  BY <1>1, <1>4 DEF TelegramInv, TelegramTypeOK
<1>6. OneChat'
  BY <1>1, LinkChangesOnly DEF TiedByLink
<1>7. LinksAreEarned'
  BY <1>1, <1>4 DEF TelegramInv, LinksAreEarned
<1> QED BY <1>1, <1>5, <1>6, <1>7, HandlersRest DEF TelegramInv

LEMMA CommitFailsStep ==
    ASSUME TelegramInv, NEW l \in LinkRequests, CommitLinkFails(l)
    PROVE  TelegramInv'
<1> USE TelegramAssumption
<1>1. /\ UNCHANGED <<chatEvents, chatLink, code, tgSession, question, active, spaces, enabled>>
      /\ linking' = [linking EXCEPT ![l].at = "refused"] /\ linking[l].at = "read"
  BY DEF CommitLinkFails
<1>2. linking \in [LinkRequests -> LinkHandlers]
  BY DEF TelegramInv, TelegramTypeOK
<1>3. linking' \in [LinkRequests -> LinkHandlers]
      /\ \A m \in LinkRequests : linking[m].at = "linked" => linking'[m] = linking[m]
  BY <1>1, <1>2 DEF LinkHandlers
<1>4. TelegramTypeOK'
  BY <1>1, <1>3 DEF TelegramInv, TelegramTypeOK
<1>5. OneChat'
  BY <1>1, LinkChangesOnly DEF TiedByLink
<1>6. LinksAreEarned'
  BY <1>1, <1>3 DEF TelegramInv, LinksAreEarned
<1> QED BY <1>1, <1>4, <1>5, <1>6, HandlersRest DEF TelegramInv

\* A commit writes the columns that were changed into the link as it is by then.
LEMMA WrittenRow ==
    ASSUME NEW link \in LinkRows, NEW current \in LinkRows, NEW a \in TelegramUsers
    PROVE  LET w == Written(link, current, FreshLink(a)) IN
           /\ w \in LinkRows
           /\ w.user \in {a, current.user}
           /\ w.session \in {NoSession, current.session}
<1> DEFINE w == Written(link, current, FreshLink(a))
           user == IF link.user = a THEN current.user ELSE a
           session == IF link.session = NoSession THEN current.session ELSE NoSession
           space == IF link.space = NoSpace THEN current.space ELSE NoSpace
<1>1. w = [user |-> user, session |-> session, space |-> space]
  BY DEF Written, FreshLink
<1>2. /\ user \in TelegramUsers /\ session \in SessionIds \cup {NoSession}
      /\ space \in TelegramSpaces \cup {NoSpace}
  BY DEF LinkRows
<1>3. user \in {a, current.user} /\ session \in {NoSession, current.session}
  OBVIOUS
<1> HIDE DEF w, user, session, space
<1>4. w \in LinkRows /\ w.user = user /\ w.session = session
  BY <1>1, <1>2 DEF LinkRows
<1> QED BY <1>3, <1>4 DEF w

LEMMA FreshIsRow ==
    ASSUME NEW a \in TelegramUsers
    PROVE  FreshLink(a) \in LinkRows /\ FreshLink(a).user = a /\ FreshLink(a).session = NoSession
BY DEF FreshLink, LinkRows

LEMMA RowsAreLinks == \A link \in LinkRows : link # NoLink
BY TelegramAssumption DEF LinkRows

LEMMA CommitLinkStep ==
    ASSUME TelegramInv, NEW l \in LinkRequests, CommitLink(l)
    PROVE  TelegramInv'
<1> USE TelegramAssumption
<1> DEFINE r == linking[l]
           link == chatLink[r.chat]
           a == MintedBy[r.code]
           new == IF link = NoLink THEN FreshLink(a) ELSE Written(r.row, link, FreshLink(a))
<1>1. /\ UNCHANGED <<chatEvents, tgSession, question, active, spaces, enabled>>
      /\ r.at = "read" /\ (r.row = NoLink <=> link = NoLink)
      /\ chatLink' = [chatLink EXCEPT ![r.chat] = new]
      /\ code' = [code EXCEPT ![r.code] = "used"]
      /\ linking' = [linking EXCEPT ![l].at = "linked"]
  BY DEF CommitLink
<1>2. /\ r \in LinkHandlers /\ r.chat \in Chats /\ r.code \in Codes /\ a \in TelegramUsers
      /\ r.row \in LinkRows \cup {NoLink} /\ link \in LinkRows \cup {NoLink}
      /\ linking \in [LinkRequests -> LinkHandlers]
      /\ chatLink \in [Chats -> LinkRows \cup {NoLink}]
      /\ code \in [Codes -> {"unminted", "live", "used", "expired"}]
  BY DEF TelegramInv, TelegramTypeOK, LinkHandlers
<1>3. /\ new \in LinkRows
      /\ link = NoLink => new.user = a /\ new.session = NoSession
      /\ link # NoLink => new.user \in {a, link.user} /\ new.session \in {NoSession, link.session}
  <2>1. CASE link = NoLink
    BY <1>2, <2>1, FreshIsRow
  <2>2. CASE link # NoLink
    BY <1>1, <1>2, <2>2, WrittenRow
  <2> QED BY <2>1, <2>2
<1> HIDE DEF new, link
<1>4. /\ chatLink' \in [Chats -> LinkRows \cup {NoLink}] /\ chatLink'[r.chat] = new
      /\ \A c \in Chats : c # r.chat => chatLink'[c] = chatLink[c]
  BY <1>1, <1>2, <1>3
<1>5. /\ code' \in [Codes -> {"unminted", "live", "used", "expired"}] /\ code'[r.code] = "used"
      /\ \A k \in Codes : code[k] = "used" => code'[k] = "used"
  BY <1>1, <1>2
<1>6. /\ linking' \in [LinkRequests -> LinkHandlers]
      /\ linking'[l].at = "linked" /\ linking'[l].chat = r.chat /\ linking'[l].code = r.code
      /\ \A m \in LinkRequests : linking[m].at = "linked" => linking'[m] = linking[m]
  BY <1>1, <1>2 DEF LinkHandlers
<1>7. TelegramTypeOK'
  BY <1>1, <1>4, <1>5, <1>6 DEF TelegramInv, TelegramTypeOK
<1>8. OneChat'
  <2>1. ASSUME NEW c \in Chats, NEW s \in SessionIds, TiedByLink(c, s)'
        PROVE  TiedByLink(c, s)
    <3>1. s # NoSession
      OBVIOUS
    <3>2. CASE c = r.chat
      BY <1>3, <1>4, <2>1, <3>1, <3>2 DEF TiedByLink, link
    <3>3. CASE c # r.chat
      BY <1>4, <2>1, <3>3 DEF TiedByLink
    <3> QED BY <3>2, <3>3
  <2> QED BY <1>1, <2>1, LinkChangesOnly
<1>9. LinksAreEarned'
  <2> SUFFICES ASSUME NEW c \in Chats, chatLink'[c] # NoLink
               PROVE  \E m \in LinkRequests :
                          /\ linking'[m].at = "linked" /\ linking'[m].chat = c
                          /\ MintedBy[linking'[m].code] = chatLink'[c].user
                          /\ code'[linking'[m].code] = "used"
    BY DEF LinksAreEarned
  <2>1. ASSUME chatLink[c] # NoLink, chatLink'[c].user = chatLink[c].user
        PROVE  \E m \in LinkRequests :
                          /\ linking'[m].at = "linked" /\ linking'[m].chat = c
                          /\ MintedBy[linking'[m].code] = chatLink'[c].user
                          /\ code'[linking'[m].code] = "used"
    <3>1. PICK m \in LinkRequests :
              /\ linking[m].at = "linked" /\ linking[m].chat = c
              /\ MintedBy[linking[m].code] = chatLink[c].user
              /\ code[linking[m].code] = "used"
      BY <2>1 DEF TelegramInv, LinksAreEarned
    <3>2. linking[m].code \in Codes
      BY <1>2 DEF LinkHandlers
    <3> QED BY <1>5, <1>6, <2>1, <3>1, <3>2
  <2>2. CASE c # r.chat
    BY <1>4, <2>1, <2>2
  <2>3. CASE c = r.chat /\ chatLink'[c].user = a
    BY <1>5, <1>6, <2>3
  <2>4. CASE c = r.chat /\ chatLink'[c].user # a
    BY <1>3, <1>4, <2>1, <2>4 DEF link
  <2> QED BY <2>2, <2>3, <2>4
<1> QED BY <1>1, <1>7, <1>8, <1>9, HandlersRest DEF TelegramInv

\* The short commands: a link loses its session, changes its workspace, or goes.
LEMMA ShortCommandStep ==
    ASSUME TelegramInv, NEW c \in Chats, NewConversation(c) \/ ChooseSpace(c) \/ Unlink(c)
    PROVE  TelegramInv'
<1> USE TelegramAssumption
<1>1. /\ UNCHANGED <<code, tgSession, question, linking, active, spaces, enabled>>
      /\ Event /\ chatLink[c] # NoLink
  BY DEF NewConversation, ChooseSpace, Unlink
<1>2. chatLink \in [Chats -> LinkRows \cup {NoLink}] /\ chatLink[c] \in LinkRows
      /\ spaces \in [TelegramUsers -> SUBSET TelegramSpaces]
  BY <1>1 DEF TelegramInv, TelegramTypeOK
<1>3. PICK new \in LinkRows \cup {NoLink} :
          /\ chatLink' = [chatLink EXCEPT ![c] = new]
          /\ new # NoLink => new.user = chatLink[c].user
                             /\ new.session \in {NoSession, chatLink[c].session}
  <2>1. CASE NewConversation(c)
    <3> DEFINE new == [chatLink[c] EXCEPT !.session = NoSession]
    <3>1. chatLink' = [chatLink EXCEPT ![c] = new]
      BY <2>1 DEF NewConversation
    <3>2. new \in LinkRows /\ new.user = chatLink[c].user /\ new.session = NoSession
      BY <1>2 DEF LinkRows
    <3> QED BY <3>1, <3>2
  <2>2. CASE ChooseSpace(c)
    <3>1. PICK w \in spaces[chatLink[c].user] \cup {NoSpace} :
              chatLink' = [chatLink EXCEPT ![c].space = w]
      BY <2>2 DEF ChooseSpace
    <3> DEFINE new == [chatLink[c] EXCEPT !.space = w]
    <3>2. w \in TelegramSpaces \cup {NoSpace}
      BY <1>2 DEF LinkRows
    <3>3. chatLink' = [chatLink EXCEPT ![c] = new]
      BY <3>1
    <3>4. new \in LinkRows /\ new.user = chatLink[c].user /\ new.session = chatLink[c].session
      BY <1>2, <3>2 DEF LinkRows
    <3> QED BY <3>3, <3>4
  <2>3. CASE Unlink(c)
    BY <2>3 DEF Unlink
  <2> QED BY <2>1, <2>2, <2>3
<1>4. /\ chatLink' \in [Chats -> LinkRows \cup {NoLink}] /\ chatLink'[c] = new
      /\ \A d \in Chats : d # c => chatLink'[d] = chatLink[d]
  BY <1>2, <1>3
<1>5. TelegramTypeOK'
  BY <1>1, <1>4, EventsTyped DEF TelegramInv, TelegramTypeOK
<1>6. OneChat'
  <2>1. ASSUME NEW d \in Chats, NEW s \in SessionIds, TiedByLink(d, s)'
        PROVE  TiedByLink(d, s)
    <3>1. s # NoSession
      OBVIOUS
    <3>2. CASE d = c
      BY <1>1, <1>3, <1>4, <2>1, <3>1, <3>2 DEF TiedByLink
    <3>3. CASE d # c
      BY <1>4, <2>1, <3>3 DEF TiedByLink
    <3> QED BY <3>2, <3>3
  <2> QED BY <1>1, <2>1, LinkChangesOnly
<1>7. LinksAreEarned'
  BY <1>1, <1>3, <1>4 DEF TelegramInv, LinksAreEarned
<1> QED BY <1>1, <1>5, <1>6, <1>7, HandlersRest DEF TelegramInv

LEMMA AdministerStep ==
    ASSUME TelegramInv, Administer
    PROVE  TelegramInv'
<1> USE TelegramAssumption
<1>1. UNCHANGED <<chatLink, code, tgSession, question, linking>> /\ Event
  BY DEF Administer
<1>2. active' \in SUBSET TelegramUsers
  BY DEF Administer, TelegramInv, TelegramTypeOK
<1>3. spaces' \in [TelegramUsers -> SUBSET TelegramSpaces]
  BY DEF Administer, TelegramInv, TelegramTypeOK
<1>4. enabled' \in BOOLEAN
  <2>1. enabled \in BOOLEAN
    BY DEF TelegramInv, TelegramTypeOK
  <2>2. enabled' = enabled \/ enabled' = ~enabled
    BY Zenon DEF Administer
  <2> QED BY <2>1, <2>2, Zenon
<1>5. TelegramTypeOK'
  BY <1>1, <1>2, <1>3, <1>4, EventsTyped DEF TelegramInv, TelegramTypeOK
<1>6. OneChat'
  BY <1>1, LinkChangesOnly DEF TiedByLink
<1>7. LinksAreEarned'
  BY <1>1 DEF TelegramInv, LinksAreEarned
<1> QED BY <1>1, <1>5, <1>6, <1>7, HandlersRest DEF TelegramInv

LEMMA IdleStep ==
    ASSUME TelegramInv, NEW s \in SessionIds, GoesIdle(s)
    PROVE  TelegramInv'
<1> USE TelegramAssumption
<1>1. /\ UNCHANGED <<chatLink, code, question, linking, active, spaces, enabled>> /\ Event
      /\ tgSession' = [tgSession EXCEPT ![s].idle = TRUE]
  BY DEF GoesIdle
<1>2. tgSession \in [SessionIds -> SessionRows]
  BY DEF TelegramInv, TelegramTypeOK
<1>3. /\ tgSession' \in [SessionIds -> SessionRows]
      /\ \A t \in SessionIds : /\ tgSession'[t].user = tgSession[t].user
                               /\ tgSession'[t].turns = tgSession[t].turns
                               /\ tgSession[t].idle => tgSession'[t].idle
  BY <1>1, <1>2 DEF SessionRows
<1>4. TelegramTypeOK'
  BY <1>1, <1>3, EventsTyped DEF TelegramInv, TelegramTypeOK
<1>5. OneChat'
  <2>1. \A t \in SessionIds, c \in Chats : Tied(c, t)' => Tied(c, t)
    BY <1>1, <1>3 DEF Tied, TiedByLink, TiedByRow, TiedBySession, TiedByTurn
  <2>2. \A t \in SessionIds : Given(t) => Given(t)'
    BY <1>3 DEF Given
  <2> QED BY <2>1, <2>2, NoNewTies DEF TelegramInv
<1>6. ASSUME NEW q \in Questions PROVE HandlerKept(q)'
  BY <1>1, <1>3 DEF TelegramInv, HandlerKept, SameConversation
<1>7. ASSUME NEW t \in SessionIds PROVE TurnsKept(t)'
  <2>1. TurnsKept(t)
    BY DEF TelegramInv
  <2>2. /\ tgSession'[t].user = tgSession[t].user /\ tgSession'[t].turns = tgSession[t].turns
        /\ question' = question
    BY <1>1, <1>3
  <2> HIDE <1>1, <1>2, <1>3, <1>4, <1>5, TelegramAssumption
  <2> QED BY <2>1, <2>2 DEF TurnsKept
<1>8. LinksAreEarned'
  BY <1>1 DEF TelegramInv, LinksAreEarned
<1> QED BY <1>4, <1>5, <1>6, <1>7, <1>8 DEF TelegramInv

LEMMA DeleteSessionStep ==
    ASSUME TelegramInv, NEW s \in SessionIds, DeleteTgSession(s)
    PROVE  TelegramInv'
<1> USE TelegramAssumption
<1> DEFINE gone == [user |-> Nobody, idle |-> TRUE, turns |-> <<>>]
<1>1. /\ UNCHANGED <<code, question, linking, active, spaces, enabled>> /\ Event
      /\ tgSession' = [tgSession EXCEPT ![s] = gone]
      /\ chatLink' = [c \in Chats |->
            IF chatLink[c] # NoLink /\ chatLink[c].session = s
            THEN [chatLink[c] EXCEPT !.session = NoSession] ELSE chatLink[c]]
  BY DEF DeleteTgSession
<1>2. /\ tgSession \in [SessionIds -> SessionRows]
      /\ chatLink \in [Chats -> LinkRows \cup {NoLink}]
  BY DEF TelegramInv, TelegramTypeOK
<1>3. gone \in SessionRows /\ gone.user = Nobody /\ gone.idle = TRUE /\ gone.turns = <<>>
  <2>1. <<>> \in Seq(ChatTurns)
    OBVIOUS
  <2> QED BY <2>1 DEF SessionRows
<1> HIDE DEF gone
<1>4. /\ tgSession' \in [SessionIds -> SessionRows] /\ tgSession'[s] = gone
      /\ \A t \in SessionIds : t # s => tgSession'[t] = tgSession[t]
  BY <1>1, <1>2, <1>3
<1>5. ASSUME NEW c \in Chats
      PROVE  /\ chatLink'[c] \in LinkRows \cup {NoLink}
             /\ chatLink'[c] = NoLink <=> chatLink[c] = NoLink
             /\ chatLink[c] # NoLink =>
                   /\ chatLink'[c].user = chatLink[c].user
                   /\ chatLink'[c].session \in {NoSession, chatLink[c].session}
  <2>1. CASE chatLink[c] # NoLink /\ chatLink[c].session = s
    <3> DEFINE new == [chatLink[c] EXCEPT !.session = NoSession]
    <3>1. chatLink'[c] = new
      BY <1>1, <2>1
    <3>2. new \in LinkRows /\ new.user = chatLink[c].user /\ new.session = NoSession
      BY <1>2, <2>1 DEF LinkRows
    <3> QED BY <2>1, <3>1, <3>2, RowsAreLinks
  <2>2. CASE ~(chatLink[c] # NoLink /\ chatLink[c].session = s)
    BY <1>1, <1>2, <2>2
  <2> QED BY <2>1, <2>2
<1>6. chatLink' \in [Chats -> LinkRows \cup {NoLink}]
  BY <1>1, <1>5
<1>7. TelegramTypeOK'
  BY <1>1, <1>4, <1>6, EventsTyped DEF TelegramInv, TelegramTypeOK
<1>8. OneChat'
  <2>1. ASSUME NEW t \in SessionIds, NEW c \in Chats, TiedByLink(c, t)' PROVE TiedByLink(c, t)
    <3>1. t # NoSession
      OBVIOUS
    <3> QED BY <1>5, <2>1, <3>1 DEF TiedByLink
  <2>2. ASSUME NEW t \in SessionIds, NEW q \in Questions, TiedByTurn(q, t)' PROVE TiedByTurn(q, t)
    <3>1. DOMAIN gone.turns = {}
      BY <1>3
    <3> QED BY <1>4, <2>2, <3>1 DEF TiedByTurn
  <2>3. \A t \in SessionIds, c \in Chats : Tied(c, t)' => Tied(c, t)
    BY <1>1, <2>1, <2>2 DEF Tied, TiedByRow, TiedBySession
  <2>4. \A t \in SessionIds : Given(t) => Given(t)'
    BY <1>3, <1>4 DEF Given
  <2> QED BY <2>3, <2>4, NoNewTies DEF TelegramInv
<1>9. ASSUME NEW q \in Questions PROVE HandlerKept(q)'
  BY <1>1, <1>3, <1>4 DEF TelegramInv, HandlerKept, SameConversation
<1>10. ASSUME NEW t \in SessionIds PROVE TurnsKept(t)'
  <2>1. CASE t = s
    <3>1. DOMAIN gone.turns = {}
      BY <1>3
    <3> QED BY <1>3, <1>4, <2>1, <3>1 DEF TurnsKept
  <2>2. CASE t # s
    BY <1>1, <1>4, <2>2 DEF TelegramInv, TurnsKept
  <2> QED BY <2>1, <2>2
<1>11. LinksAreEarned'
  BY <1>1, <1>5 DEF TelegramInv, LinksAreEarned
<1> QED BY <1>7, <1>8, <1>9, <1>10, <1>11 DEF TelegramInv

-----------------------------------------------------------------------------
\* What a handler that is over keeps.
LEMMA OverHandler ==
    ASSUME NEW h \in Handlers
    PROVE  LET o == Dropped(h)
               t == Told(h)
           IN  /\ o \in Handlers /\ t \in Handlers
               /\ o.at = "over" /\ t.at = "over"
               /\ o.chat = h.chat /\ t.chat = h.chat /\ t.row = o.row
               /\ o.history = <<>> /\ t.history = <<>>
               /\ o.shown = h.shown /\ t.shown = "error" /\ o.refused = h.refused
               /\ h.row # NoLink => o.row # NoLink /\ o.row.user = h.row.user
<1> DEFINE link == IF h.row = NoLink THEN NoLink ELSE FreshLink(h.row.user)
           o == [h EXCEPT !.at = "over", !.session = NoSession, !.history = <<>>, !.row = link]
           t == [o EXCEPT !.shown = "error"]
<1>1. Dropped(h) = o /\ Told(h) = t
  BY DEF Dropped, Told
<1>2. link \in LinkRows \cup {NoLink}
      /\ (h.row # NoLink => link # NoLink /\ link.user = h.row.user)
  <2>1. CASE h.row = NoLink
    BY <2>1
  <2>2. CASE h.row # NoLink
    <3>1. h.row.user \in TelegramUsers
      BY <2>2 DEF Handlers, LinkRows
    <3> QED BY <2>2, <3>1, FreshIsRow, RowsAreLinks
  <2> QED BY <2>1, <2>2
<1>3. <<>> \in Seq(ChatTurns)
  OBVIOUS
<1> HIDE DEF link
<1>4. /\ o \in Handlers /\ o.at = "over" /\ o.chat = h.chat /\ o.history = <<>>
      /\ o.shown = h.shown /\ o.refused = h.refused /\ o.row = link
  BY <1>2, <1>3 DEF Handlers
<1> HIDE DEF o
<1>5. /\ t \in Handlers /\ t.at = "over" /\ t.chat = o.chat /\ t.history = <<>>
      /\ t.shown = "error" /\ t.row = o.row
  BY <1>4 DEF Handlers
<1> HIDE DEF t
<1> QED BY <1>1, <1>2, <1>4, <1>5

LEMMA TurnsNameQuestions ==
    ASSUME NEW t \in Seq(ChatTurns)
    PROVE  /\ DOMAIN t = 1..Len(t) /\ Len(t) \in Nat
           /\ \A i \in DOMAIN t : t[i] \in ChatTurns /\ t[i].of \in Questions
<1>1. DOMAIN t = 1..Len(t) /\ Len(t) \in Nat /\ \A i \in 1..Len(t) : t[i] \in ChatTurns
  OBVIOUS
<1>2. \A x \in ChatTurns : x.of \in Questions
  BY DEF ChatTurns
<1> QED BY <1>1, <1>2

\* A handler that moves on keeps its chat and its account; the others, and the
\* sessions that do not change, stay in order.
LEMMA HandlerMoves ==
    ASSUME TelegramInv, NEW q \in Questions, NEW new \in Handlers,
           question' = [question EXCEPT ![q] = new],
           question[q].at # "waiting", new.at # "waiting",
           new.chat = question[q].chat,
           question[q].row # NoLink => new.row # NoLink /\ new.row.user = question[q].row.user,
           question[q].at \in {"asking", "delivered", "over"} =>
               new.at \in {"asking", "delivered", "over"},
           question[q].at = "over" => new.at = "over"
    PROVE  /\ question' \in [Questions -> Handlers] /\ question'[q] = new
           /\ \A p \in Questions \ {q} : question'[p] = question[p]
           /\ SameHandlers
           /\ \A p \in Questions \ {q} :
                 (\A s \in SessionIds : tgSession'[s].user \in {tgSession[s].user, Nobody})
                     => HandlerKept(p)'
           /\ \A s \in SessionIds : tgSession'[s] = tgSession[s] => TurnsKept(s)'
<1>1. /\ question \in [Questions -> Handlers] /\ tgSession \in [SessionIds -> SessionRows]
  BY DEF TelegramInv, TelegramTypeOK
<1>2. /\ question' \in [Questions -> Handlers] /\ question'[q] = new
      /\ \A p \in Questions \ {q} : question'[p] = question[p]
  BY <1>1
<1>3. SameHandlers
  BY <1>2 DEF SameHandlers
<1>4. ASSUME NEW p \in Questions \ {q},
             \A s \in SessionIds : tgSession'[s].user \in {tgSession[s].user, Nobody}
      PROVE  HandlerKept(p)'
  <2>1. HandlerKept(p) /\ question'[p] = question[p]
    BY <1>2 DEF TelegramInv
  <2>2. ASSUME NEW i \in DOMAIN question[p].history
        PROVE  question[p].history[i].of \in Questions
    <3>1. question[p].history \in Seq(ChatTurns)
      BY <1>1 DEF Handlers
    <3> QED BY <3>1, TurnsNameQuestions
  <2>3. ASSUME NEW i \in DOMAIN question[p].history
        PROVE  /\ question'[question[p].history[i].of].at # "waiting"
               /\ question'[question[p].history[i].of].row # NoLink
               /\ SameConversation(p, question[p].history[i].of)'
    BY <1>3, <2>1, <2>2 DEF HandlerKept, SameHandlers, SameConversation
  <2> QED BY <1>4, <2>1, <2>3 DEF HandlerKept
<1>5. ASSUME NEW s \in SessionIds, tgSession'[s] = tgSession[s] PROVE TurnsKept(s)'
  <2>1. TurnsKept(s)
    BY DEF TelegramInv
  <2>2. ASSUME NEW i \in DOMAIN tgSession[s].turns
        PROVE  tgSession[s].turns[i].of \in Questions
    <3>1. tgSession[s].turns \in Seq(ChatTurns)
      BY <1>1 DEF SessionRows
    <3> QED BY <3>1, TurnsNameQuestions
  <2>3. ASSUME NEW i \in DOMAIN tgSession[s].turns
        PROVE  LET p == tgSession[s].turns[i].of IN
               /\ question'[p].at \in {"asking", "delivered", "over"}
               /\ question[p].at = "over" => question'[p].at = "over"
               /\ question'[p].row # NoLink
               /\ question'[p].row.user = question[p].row.user
    BY <1>2, <1>3, <2>1, <2>2 DEF TurnsKept, SameHandlers
  <2>4. /\ tgSession[s].user = Nobody => tgSession[s].turns = <<>>
        /\ \A i \in DOMAIN tgSession[s].turns :
              /\ tgSession[s].turns[i].role = "assistant" => question'[tgSession[s].turns[i].of].at = "over"
              /\ question'[tgSession[s].turns[i].of].row.user = tgSession[s].user
    BY <2>1, <2>3 DEF TurnsKept
  <2>5. \A i, j \in DOMAIN tgSession[s].turns :
           /\ tgSession[s].turns[i] = tgSession[s].turns[j] => i = j
           /\ tgSession[s].turns[i].of = tgSession[s].turns[j].of
              /\ tgSession[s].turns[i].role = "assistant" => j <= i
    BY <2>1 DEF TurnsKept
  <2> HIDE <1>1, <1>2, <1>3, <1>4
  <2> QED BY <1>5, <2>3, <2>4, <2>5 DEF TurnsKept
<1> QED BY <1>2, <1>3, <1>4, <1>5

\* A step of a handler that writes no session: it remains to see that the handler
\* is in order and is tied to no other session than before.
LEMMA HandlerStep ==
    ASSUME TelegramInv, NEW q \in Questions, NEW new \in Handlers,
           question' = [question EXCEPT ![q] = new],
           UNCHANGED <<chatLink, code, tgSession, linking, active, spaces, enabled>>,
           Event \/ UNCHANGED chatEvents,
           question[q].at # "waiting", new.at # "waiting",
           new.chat = question[q].chat,
           question[q].row # NoLink => new.row # NoLink /\ new.row.user = question[q].row.user,
           question[q].at \in {"asking", "delivered", "over"} =>
               new.at \in {"asking", "delivered", "over"},
           question[q].at = "over" => new.at = "over",
           HandlerKept(q)',
           \A s \in SessionIds : TiedByRow(q, s)' \/ TiedBySession(q, s)' =>
               TiedByRow(q, s) \/ TiedBySession(q, s)
    PROVE  TelegramInv'
<1>1. /\ question' \in [Questions -> Handlers] /\ question'[q] = new
      /\ \A p \in Questions \ {q} : question'[p] = question[p]
      /\ \A p \in Questions \ {q} : HandlerKept(p)'
      /\ \A s \in SessionIds : TurnsKept(s)'
  BY HandlerMoves
<1>2. TelegramTypeOK'
  BY <1>1, EventsTyped DEF TelegramInv, TelegramTypeOK
<1>3. ASSUME NEW s \in SessionIds, NEW p \in Questions
      PROVE  /\ question'[p].chat = question[p].chat
             /\ TiedByRow(p, s)' \/ TiedBySession(p, s)' => TiedByRow(p, s) \/ TiedBySession(p, s)
             /\ TiedByTurn(p, s)' => TiedByTurn(p, s)
  <2>1. CASE p = q
    BY <1>1, <2>1 DEF TiedByTurn
  <2>2. CASE p # q
    BY <1>1, <2>2 DEF TiedByTurn, TiedByRow, TiedBySession
  <2> QED BY <2>1, <2>2
<1>4. OneChat'
  <2>1. \A s \in SessionIds, c \in Chats : Tied(c, s)' => Tied(c, s)
    BY <1>3 DEF Tied, TiedByLink
  <2>2. \A s \in SessionIds : Given(s) => Given(s)'
    BY DEF Given
  <2> QED BY <2>1, <2>2, NoNewTies DEF TelegramInv
<1>5. LinksAreEarned'
  BY DEF TelegramInv, LinksAreEarned
<1> QED BY <1>1, <1>2, <1>4, <1>5 DEF TelegramInv

\* A handler that gives up with an error.
LEMMA ToldStep ==
    ASSUME TelegramInv, NEW q \in Questions, question[q].at # "waiting",
           question' = [question EXCEPT ![q] = Told(question[q])],
           UNCHANGED <<chatLink, code, tgSession, linking, active, spaces, enabled, chatEvents>>
    PROVE  TelegramInv'
<1> DEFINE new == Told(question[q])
<1>1. question \in [Questions -> Handlers]
  BY DEF TelegramInv, TelegramTypeOK
<1>2. /\ new \in Handlers /\ new.at = "over" /\ new.chat = question[q].chat
      /\ new.history = <<>> /\ new.shown = "error"
      /\ question[q].row # NoLink => new.row # NoLink /\ new.row.user = question[q].row.user
  BY <1>1, OverHandler
<1> HIDE DEF new
<1>3. question' = [question EXCEPT ![q] = new] /\ question'[q] = new
  BY <1>1 DEF new
<1>4. HandlerKept(q)'
  <2>1. DOMAIN <<>> = {}
    OBVIOUS
  <2> QED BY <1>2, <1>3, <2>1 DEF HandlerKept, InSession
<1>5. \A s \in SessionIds : ~(TiedByRow(q, s)' \/ TiedBySession(q, s)')
  BY <1>2, <1>3 DEF TiedByRow, TiedBySession, InSession
<1> QED BY <1>2, <1>3, <1>4, <1>5, HandlerStep

LEMMA ReuseStep ==
    ASSUME TelegramInv, NEW q \in Questions, ReuseSession(q)
    PROVE  TelegramInv'
<1> DEFINE new == [question[q] EXCEPT !.at = "settled", !.session = question[q].row.session]
<1>1. /\ question[q].at = "linked" /\ Reusable(question[q].row)
      /\ question' = [question EXCEPT ![q] = new]
      /\ UNCHANGED <<chatEvents, chatLink, code, tgSession, linking, active, spaces, enabled>>
  BY DEF ReuseSession, Becomes
<1>2. question \in [Questions -> Handlers]
  BY DEF TelegramInv, TelegramTypeOK
<1>3. HandlerKept(q)
  BY DEF TelegramInv
<1>4. question[q].row \in LinkRows /\ question[q].row # NoLink
      /\ question[q].row.session \in SessionIds
      /\ tgSession[question[q].row.session].user = question[q].row.user
  BY <1>1, <1>2, <1>3 DEF Handlers, LinkRows, Reusable, HandlerKept
<1>5. /\ new \in Handlers /\ new.at = "settled" /\ new.session = question[q].row.session
      /\ new.row = question[q].row /\ new.chat = question[q].chat
      /\ new.history = question[q].history /\ new.shown = question[q].shown
  BY <1>2, <1>4 DEF Handlers
<1> HIDE DEF new
<1>6. question'[q] = new
  BY <1>1, <1>2
<1>7. HandlerKept(q)'
  <2>1. question[q].history = <<>> /\ question[q].shown = "nothing" /\ DOMAIN <<>> = {}
    BY <1>1, <1>3 DEF HandlerKept
  <2> QED BY <1>1, <1>4, <1>5, <1>6, <2>1 DEF HandlerKept, InSession
<1>8. \A s \in SessionIds : TiedByRow(q, s)' \/ TiedBySession(q, s)' => TiedByRow(q, s)
  BY <1>1, <1>5, <1>6 DEF TiedByRow, TiedBySession, InSession
<1> QED BY <1>1, <1>4, <1>5, <1>7, <1>8, HandlerStep

LEMMA StreamStep ==
    ASSUME TelegramInv, NEW q \in Questions, StreamEdit(q)
    PROVE  TelegramInv'
<1> DEFINE new == [question[q] EXCEPT !.shown = "partial"]
<1>1. /\ question[q].at = "asking" /\ question' = [question EXCEPT ![q] = new]
      /\ UNCHANGED <<chatEvents, chatLink, code, tgSession, linking, active, spaces, enabled>>
  BY DEF StreamEdit, Becomes
<1>2. question \in [Questions -> Handlers]
  BY DEF TelegramInv, TelegramTypeOK
<1>3. /\ new \in Handlers /\ new.at = "asking" /\ new.session = question[q].session
      /\ new.row = question[q].row /\ new.chat = question[q].chat
      /\ new.history = question[q].history
  BY <1>1, <1>2 DEF Handlers
<1> HIDE DEF new
<1>4. question'[q] = new /\ \A p \in Questions \ {q} : question'[p] = question[p]
  BY <1>1, <1>2
<1>5. \A p \in Questions : /\ question'[p].at = question[p].at /\ question'[p].row = question[p].row
                           /\ question'[p].chat = question[p].chat
                           /\ question'[p].history = question[p].history
  BY <1>1, <1>3, <1>4
<1>6. \A i \in DOMAIN question[q].history : question[q].history[i].of \in Questions
  <2>1. question[q].history \in Seq(ChatTurns)
    BY <1>2 DEF Handlers
  <2> QED BY <2>1, TurnsNameQuestions
<1>7. HandlerKept(q)'
  <2>1. HandlerKept(q)
    BY DEF TelegramInv
  <2> QED BY <1>1, <1>3, <1>4, <1>5, <1>6, <2>1 DEF HandlerKept, SameConversation, InSession
<1>8. \A s \in SessionIds : TiedByRow(q, s)' \/ TiedBySession(q, s)' =>
          TiedByRow(q, s) \/ TiedBySession(q, s)
  BY <1>1, <1>3, <1>4 DEF TiedByRow, TiedBySession, InSession
<1> QED BY <1>1, <1>3, <1>7, <1>8, HandlerStep

LEMMA DeliverStep ==
    ASSUME TelegramInv, NEW q \in Questions, Deliver(q)
    PROVE  TelegramInv'
<1>1. /\ question[q].at = "asking" /\ (Event \/ UNCHANGED chatEvents)
      /\ UNCHANGED <<chatLink, code, tgSession, linking, active, spaces, enabled>>
  BY DEF Deliver, Becomes
<1>2. question \in [Questions -> Handlers]
  BY DEF TelegramInv, TelegramTypeOK
<1>3. PICK new : /\ question' = [question EXCEPT ![q] = new]
                 /\ \/ \E result \in {"answer", "error"} :
                          new = [question[q] EXCEPT !.at = "delivered", !.shown = result]
                    \/ new = [question[q] EXCEPT !.at = "delivered", !.refused = TRUE]
  BY DEF Deliver, Becomes
<1>4. /\ new \in Handlers /\ new.at = "delivered" /\ new.session = question[q].session
      /\ new.row = question[q].row /\ new.chat = question[q].chat
      /\ new.history = question[q].history
      /\ new.refused \/ new.shown \in {"answer", "error"}
  BY <1>1, <1>2, <1>3 DEF Handlers
<1>5. question'[q] = new /\ \A p \in Questions \ {q} : question'[p] = question[p]
  BY <1>2, <1>3
<1>6. \A p \in Questions : /\ question[p].at # "waiting" => question'[p].at # "waiting"
                           /\ question'[p].row = question[p].row
                           /\ question'[p].chat = question[p].chat
                           /\ question'[p].history = question[p].history
  BY <1>1, <1>4, <1>5
<1>7. \A i \in DOMAIN question[q].history : question[q].history[i].of \in Questions
  <2>1. question[q].history \in Seq(ChatTurns)
    BY <1>2 DEF Handlers
  <2> QED BY <2>1, TurnsNameQuestions
<1>8. HandlerKept(q)'
  <2>1. HandlerKept(q)
    BY DEF TelegramInv
  <2>2. question[q].at \in InSession /\ new.at \in InSession
    BY <1>1, <1>4 DEF InSession
  <2> QED BY <1>1, <1>4, <1>5, <1>6, <1>7, <2>1, <2>2 DEF HandlerKept, SameConversation
<1>9. \A s \in SessionIds : TiedByRow(q, s)' \/ TiedBySession(q, s)' => TiedBySession(q, s)
  BY <1>1, <1>4, <1>5 DEF TiedByRow, TiedBySession, InSession
<1> QED BY <1>1, <1>3, <1>4, <1>8, <1>9, HandlerStep

LEMMA PointStep ==
    ASSUME TelegramInv, NEW q \in Questions, PointChat(q)
    PROVE  TelegramInv'
<1> USE TelegramAssumption
<1> DEFINE c == question[q].chat
<1>1. /\ question[q].at = "created"
      /\ UNCHANGED <<chatEvents, code, tgSession, linking, active, spaces, enabled>>
  BY Zenon DEF PointChat
<1>2. CASE Becomes(q, Told(question[q])) /\ UNCHANGED chatLink
  BY <1>1, <1>2, ToldStep DEF Becomes
<1>3. CASE /\ chatLink[c] # NoLink
           /\ chatLink' = [chatLink EXCEPT ![c].session = question[q].session]
           /\ Becomes(q, [question[q] EXCEPT !.at = "settled"])
  <2> DEFINE new == [question[q] EXCEPT !.at = "settled"]
             link == [chatLink[c] EXCEPT !.session = question[q].session]
  <2>1. /\ question \in [Questions -> Handlers] /\ c \in Chats
        /\ chatLink \in [Chats -> LinkRows \cup {NoLink}]
    BY DEF TelegramInv, TelegramTypeOK, Handlers
  <2>2. HandlerKept(q)
    BY DEF TelegramInv
  <2>3. /\ question[q].session \in SessionIds /\ question[q].row # NoLink
        /\ tgSession[question[q].session].user \in {question[q].row.user, Nobody}
        /\ question[q].history = <<>> /\ question[q].shown = "nothing"
    BY <1>1, <2>2 DEF HandlerKept, InSession
  <2>4. /\ new \in Handlers /\ new.at = "settled" /\ new.session = question[q].session
        /\ new.row = question[q].row /\ new.chat = question[q].chat
        /\ new.history = <<>> /\ new.shown = "nothing"
    BY <2>1, <2>3 DEF Handlers
  <2>5. /\ link \in LinkRows /\ link.user = chatLink[c].user
        /\ link.session = question[q].session
    BY <1>3, <2>1, <2>3 DEF LinkRows
  <2>6. question' = [question EXCEPT ![q] = new] /\ chatLink' = [chatLink EXCEPT ![c] = link]
    BY <1>3 DEF Becomes
  <2> HIDE DEF new, link
  <2>7. /\ question' \in [Questions -> Handlers] /\ question'[q] = new
        /\ \A p \in Questions \ {q} : question'[p] = question[p] /\ HandlerKept(p)'
        /\ \A s \in SessionIds : TurnsKept(s)'
    BY <1>1, <2>4, <2>6, HandlerMoves
  <2>8. /\ chatLink' \in [Chats -> LinkRows \cup {NoLink}] /\ chatLink'[c] = link
        /\ \A d \in Chats : d # c => chatLink'[d] = chatLink[d]
    BY <2>1, <2>5, <2>6
  <2>9. HandlerKept(q)'
    <3>1. DOMAIN <<>> = {}
      OBVIOUS
    <3> QED BY <1>1, <2>3, <2>4, <2>7, <3>1 DEF HandlerKept, InSession
  <2>10. TelegramTypeOK'
    BY <1>1, <2>7, <2>8 DEF TelegramInv, TelegramTypeOK
  <2>11. OneChat'
    <3>1. ASSUME NEW s \in SessionIds, NEW d \in Chats, TiedByLink(d, s)' PROVE Tied(d, s)
      <4>1. CASE d = c
        <5>1. TiedBySession(q, s)
          BY <1>1, <2>5, <2>8, <3>1, <4>1 DEF TiedByLink, TiedBySession, InSession
        <5> QED BY <4>1, <5>1 DEF Tied
      <4>2. CASE d # c
        BY <2>8, <3>1, <4>2 DEF TiedByLink, Tied
      <4> QED BY <4>1, <4>2
    <3>2. ASSUME NEW s \in SessionIds, NEW p \in Questions
          PROVE  /\ question'[p].chat = question[p].chat
                 /\ TiedByRow(p, s)' => TiedByRow(p, s)
                 /\ TiedBySession(p, s)' => TiedBySession(p, s)
                 /\ TiedByTurn(p, s)' => TiedByTurn(p, s)
      BY <1>1, <2>4, <2>7 DEF TiedByRow, TiedBySession, TiedByTurn, InSession
    <3>3. \A s \in SessionIds, d \in Chats : Tied(d, s)' => Tied(d, s)
      BY <3>1, <3>2 DEF Tied
    <3>4. \A s \in SessionIds : Given(s) => Given(s)'
      BY <1>1 DEF Given
    <3> QED BY <3>3, <3>4, NoNewTies DEF TelegramInv
  <2>12. LinksAreEarned'
    BY <1>1, <1>3, <2>5, <2>8 DEF TelegramInv, LinksAreEarned
  <2> QED BY <2>7, <2>9, <2>10, <2>11, <2>12 DEF TelegramInv
<1> QED BY <1>2, <1>3 DEF PointChat

\* A turn is put behind the others.
LEMMA AppendTurn ==
    ASSUME NEW t \in Seq(ChatTurns), NEW e \in ChatTurns
    PROVE  LET n == Append(t, e) IN
           /\ n \in Seq(ChatTurns) /\ DOMAIN n = 1..(Len(t) + 1) /\ n[Len(t) + 1] = e
           /\ \A i \in DOMAIN t : i \in DOMAIN n /\ n[i] = t[i] /\ i < Len(t) + 1
           /\ \A i \in DOMAIN n : i \in DOMAIN t \/ i = Len(t) + 1
<1> DEFINE n == Append(t, e)
<1>1. DOMAIN t = 1..Len(t) /\ Len(t) \in Nat
  OBVIOUS
<1>2. n \in Seq(ChatTurns) /\ Len(n) = Len(t) + 1 /\ n[Len(t) + 1] = e
      /\ \A i \in 1..Len(t) : n[i] = t[i]
  OBVIOUS
<1>3. DOMAIN n = 1..(Len(t) + 1)
  BY <1>1, <1>2
<1> HIDE DEF n
<1> QED BY <1>1, <1>2, <1>3 DEF n

\* Storing a turn in a session that is there.
LEMMA StoredTurn ==
    ASSUME TelegramInv, NEW s \in SessionIds, tgSession[s].user # Nobody,
           NEW e \in ChatTurns, Stored(s, e)
    PROVE  /\ tgSession' \in [SessionIds -> SessionRows]
           /\ tgSession'[s].user = tgSession[s].user
           /\ tgSession'[s].turns = Append(tgSession[s].turns, e)
           /\ \A t \in SessionIds : t # s => tgSession'[t] = tgSession[t]
           /\ \A t \in SessionIds : Given(t) => Given(t)'
<1> DEFINE turns == Append(tgSession[s].turns, e)
           new == [tgSession[s] EXCEPT !.turns = turns, !.idle = FALSE]
<1>1. tgSession \in [SessionIds -> SessionRows]
  BY DEF TelegramInv, TelegramTypeOK
<1>2. turns \in Seq(ChatTurns)
  <2>1. tgSession[s].turns \in Seq(ChatTurns)
    BY <1>1 DEF SessionRows
  <2> QED BY <2>1, AppendTurn
<1>3. tgSession' = [tgSession EXCEPT ![s] = new]
  BY <1>1 DEF Stored, SessionRows
<1> HIDE DEF turns
<1>4. new \in SessionRows /\ new.user = tgSession[s].user /\ new.turns = turns
  BY <1>1, <1>2 DEF SessionRows
<1> HIDE DEF new
<1>5. /\ tgSession' \in [SessionIds -> SessionRows] /\ tgSession'[s] = new
      /\ \A t \in SessionIds : t # s => tgSession'[t] = tgSession[t]
  BY <1>1, <1>3, <1>4
<1>6. \A t \in SessionIds : Given(t) => Given(t)'
  BY <1>4, <1>5 DEF Given
<1> QED BY <1>4, <1>5, <1>6 DEF turns

LEMMA CreateStep ==
    ASSUME TelegramInv, NEW q \in Questions, NEW s \in SessionIds, CreateTgSession(q, s)
    PROVE  TelegramInv'
<1> USE TelegramAssumption
<1> DEFINE new == [question[q] EXCEPT !.at = "created", !.session = s]
<1>1. /\ question[q].at = "linked"
      /\ tgSession[s] = [user |-> Nobody, idle |-> FALSE, turns |-> <<>>]
      /\ tgSession' = [tgSession EXCEPT ![s].user = question[q].row.user]
      /\ question' = [question EXCEPT ![q] = new]
      /\ UNCHANGED <<chatEvents, chatLink, code, linking, active, spaces, enabled>>
  BY DEF CreateTgSession, Becomes
<1>2. /\ question \in [Questions -> Handlers] /\ tgSession \in [SessionIds -> SessionRows]
  BY DEF TelegramInv, TelegramTypeOK
<1>3. HandlerKept(q)
  BY DEF TelegramInv
<1>4. /\ question[q].row # NoLink /\ question[q].row.user \in TelegramUsers
      /\ question[q].history = <<>> /\ question[q].shown = "nothing"
  BY <1>1, <1>2, <1>3 DEF HandlerKept, Handlers, LinkRows
<1>5. /\ new \in Handlers /\ new.at = "created" /\ new.session = s
      /\ new.row = question[q].row /\ new.chat = question[q].chat
      /\ new.history = <<>> /\ new.shown = "nothing"
  BY <1>2, <1>4 DEF Handlers
<1> HIDE DEF new
<1> DEFINE user == question[q].row.user
<1>6. /\ tgSession' \in [SessionIds -> SessionRows]
      /\ tgSession'[s].user = user /\ tgSession'[s].turns = <<>>
      /\ \A t \in SessionIds : t # s => tgSession'[t] = tgSession[t]
  <2>1. tgSession'[s] = [tgSession[s] EXCEPT !.user = user]
    BY <1>1, <1>2
  <2>2. tgSession'[s] \in SessionRows /\ tgSession'[s].user = user
        /\ tgSession'[s].turns = tgSession[s].turns
    BY <1>2, <1>4, <2>1 DEF SessionRows
  <2> QED BY <1>1, <1>2, <2>2
<1>7. ~Given(s) /\ user # Nobody
  BY <1>1, <1>4 DEF Given
<1>8. \A d \in Chats : ~Tied(d, s)
  BY <1>7 DEF TelegramInv, OneChat
<1>9. /\ question' \in [Questions -> Handlers] /\ question'[q] = new
      /\ \A p \in Questions \ {q} : question'[p] = question[p]
      /\ \A t \in SessionIds : tgSession'[t] = tgSession[t] => TurnsKept(t)'
      /\ SameHandlers
  BY <1>1, <1>5, HandlerMoves
<1>10. ASSUME NEW p \in Questions PROVE HandlerKept(p)'
  <2>1. CASE p = q
    <3>1. DOMAIN <<>> = {}
      OBVIOUS
    <3> QED BY <1>4, <1>5, <1>6, <1>9, <2>1, <3>1 DEF HandlerKept, InSession
  <2>2. CASE p # q
    <3>1. HandlerKept(p) /\ question'[p] = question[p]
      BY <1>9, <2>2 DEF TelegramInv
    <3>2. question[p].at \in InSession => question[p].session # s
      BY <1>2, <1>8 DEF Tied, TiedBySession, Handlers
    <3>3. question[p].at \in InSession =>
              tgSession'[question[p].session].user \in {question[p].row.user, Nobody}
      BY <1>6, <3>1, <3>2 DEF HandlerKept
    <3>4. ASSUME NEW i \in DOMAIN question[p].history
          PROVE  /\ question'[question[p].history[i].of].at # "waiting"
                 /\ question'[question[p].history[i].of].row # NoLink
                 /\ SameConversation(p, question[p].history[i].of)'
      <4>1. question[p].history \in Seq(ChatTurns)
        BY <1>2 DEF Handlers
      <4>2. question[p].history[i].of \in Questions
        BY <4>1, TurnsNameQuestions
      <4> QED BY <1>9, <3>1, <4>2 DEF HandlerKept, SameHandlers, SameConversation
    <3> QED BY <3>1, <3>3, <3>4 DEF HandlerKept
  <2> QED BY <2>1, <2>2
<1>11. ASSUME NEW t \in SessionIds PROVE TurnsKept(t)'
  <2>1. CASE t = s
    <3>1. DOMAIN <<>> = {}
      OBVIOUS
    <3> QED BY <1>6, <2>1, <3>1 DEF TurnsKept
  <2>2. CASE t # s
    BY <1>6, <1>9, <2>2
  <2> QED BY <2>1, <2>2
<1>12. TelegramTypeOK'
  BY <1>1, <1>6, <1>9 DEF TelegramInv, TelegramTypeOK
<1>13. OneChat'
  <2>1. ASSUME NEW t \in SessionIds, NEW p \in Questions
        PROVE  /\ question'[p].chat = question[p].chat
               /\ TiedByRow(p, t)' => TiedByRow(p, t)
               /\ TiedBySession(p, t)' => TiedBySession(p, t) \/ (p = q /\ t = s)
               /\ TiedByTurn(p, t)' => TiedByTurn(p, t)
    <3>1. question'[p].chat = question[p].chat
      BY <1>5, <1>9
    <3>2. TiedByRow(p, t)' => TiedByRow(p, t)
      BY <1>5, <1>9 DEF TiedByRow
    <3>3. TiedBySession(p, t)' => TiedBySession(p, t) \/ (p = q /\ t = s)
      BY <1>5, <1>9 DEF TiedBySession
    <3>4. TiedByTurn(p, t)' => TiedByTurn(p, t)
      <4>1. tgSession'[t].turns = tgSession[t].turns
        BY <1>1, <1>6
      <4> QED BY <4>1 DEF TiedByTurn
    <3> QED BY <3>1, <3>2, <3>3, <3>4
  <2>2. \A t \in SessionIds, d \in Chats : Tied(d, t)' => Tied(d, t) \/ (t = s /\ d = question[q].chat)
    BY <1>1, <2>1 DEF Tied, TiedByLink
  <2>3. \A t \in SessionIds : (Given(t) => Given(t)') /\ (t = s => Given(t)')
    BY <1>6, <1>7 DEF Given
  <2> QED BY <1>8, <2>2, <2>3 DEF TelegramInv, OneChat
<1>14. LinksAreEarned'
  BY <1>1 DEF TelegramInv, LinksAreEarned
<1> QED BY <1>10, <1>11, <1>12, <1>13, <1>14 DEF TelegramInv

\* A question or an answer is stored in the handler's session.
LEMMA StoreStep ==
    ASSUME TelegramInv, NEW q \in Questions, NEW s \in SessionIds, s = question[q].session,
           NEW e \in ChatTurns, e.of = q, Stored(s, e), tgSession[s].user = question[q].row.user,
           tgSession[s].user # Nobody,
           NEW new \in Handlers, question' = [question EXCEPT ![q] = new],
           new.chat = question[q].chat, question[q].row # NoLink,
           new.row # NoLink, new.row.user = question[q].row.user,
           \/ /\ question[q].at = "settled" /\ e.role = "user"
              /\ new.at = "asking" /\ new.session = s
           \/ question[q].at = "delivered" /\ e.role = "assistant" /\ new.at = "over",
           HandlerKept(q)', Event \/ UNCHANGED chatEvents,
           UNCHANGED <<chatLink, code, linking, active, spaces, enabled>>
    PROVE  TelegramInv'
<1> DEFINE turns == tgSession[s].turns
           then == tgSession'[s].turns
<1>1. /\ question \in [Questions -> Handlers] /\ tgSession \in [SessionIds -> SessionRows]
  BY DEF TelegramInv, TelegramTypeOK
<1>2. /\ tgSession' \in [SessionIds -> SessionRows]
      /\ tgSession'[s].user = tgSession[s].user
      /\ then = Append(turns, e)
      /\ \A t \in SessionIds : t # s => tgSession'[t] = tgSession[t]
      /\ \A t \in SessionIds : Given(t) => Given(t)'
  BY StoredTurn
<1>3. /\ question' \in [Questions -> Handlers] /\ question'[q] = new
      /\ \A p \in Questions \ {q} : question'[p] = question[p] /\ HandlerKept(p)'
      /\ \A t \in SessionIds : tgSession'[t] = tgSession[t] => TurnsKept(t)'
  BY <1>2, HandlerMoves
<1>4. turns \in Seq(ChatTurns)
  BY <1>1 DEF SessionRows
<1> DEFINE last == Len(turns) + 1
<1>5. /\ DOMAIN then = 1..last /\ then[last] = e /\ last \in DOMAIN then
      /\ \A i \in DOMAIN turns : i \in DOMAIN then /\ then[i] = turns[i] /\ i < last
      /\ \A i \in DOMAIN then : i \in DOMAIN turns \/ i = last
      /\ DOMAIN turns \subseteq Nat /\ last \in Nat
  BY <1>2, <1>4, AppendTurn, TurnsNameQuestions
<1>6. \A i \in DOMAIN turns : turns[i].of \in Questions
  BY <1>4, TurnsNameQuestions
<1> HIDE DEF turns, then, last
<1>7. /\ \A i \in DOMAIN turns :
            /\ question[turns[i].of].at \in {"asking", "delivered", "over"}
            /\ turns[i].role = "assistant" => question[turns[i].of].at = "over"
            /\ question[turns[i].of].row # NoLink
            /\ question[turns[i].of].row.user = tgSession[s].user
      /\ \A i, j \in DOMAIN turns :
            /\ turns[i] = turns[j] => i = j
            /\ turns[i].of = turns[j].of /\ turns[i].role = "assistant" => j <= i
  BY DEF TelegramInv, TurnsKept, turns
<1>8. TurnsKept(s)'
  <2>1. ASSUME NEW i \in DOMAIN turns
        PROVE  /\ question'[turns[i].of].at \in {"asking", "delivered", "over"}
               /\ turns[i].role = "assistant" => question'[turns[i].of].at = "over"
               /\ question'[turns[i].of].row # NoLink
               /\ question'[turns[i].of].row.user = tgSession[s].user
               /\ turns[i].of = q => question[q].at = "delivered" /\ turns[i].role # "assistant"
                                     /\ e.role = "assistant"
    <3>1. CASE turns[i].of = q
      BY <1>3, <1>7, <3>1
    <3>2. CASE turns[i].of # q
      BY <1>3, <1>6, <1>7, <3>2
    <3> QED BY <3>1, <3>2
  <2>2. /\ question'[q].at \in {"asking", "over"}
        /\ e.role = "assistant" => question'[q].at = "over"
        /\ question'[q].row # NoLink /\ question'[q].row.user = tgSession[s].user
    BY <1>3
  <2>3. ASSUME NEW i \in DOMAIN then
        PROVE  /\ question'[then[i].of].at \in {"asking", "delivered", "over"}
               /\ then[i].role = "assistant" => question'[then[i].of].at = "over"
               /\ question'[then[i].of].row # NoLink
               /\ question'[then[i].of].row.user = tgSession'[s].user
    <3>1. CASE i \in DOMAIN turns
      BY <1>2, <1>5, <2>1, <3>1
    <3>2. CASE i = last
      BY <1>2, <1>5, <2>2, <3>2
    <3> QED BY <1>5, <3>1, <3>2
  <2>4. ASSUME NEW i \in DOMAIN then, NEW j \in DOMAIN then
        PROVE  /\ then[i] = then[j] => i = j
               /\ then[i].of = then[j].of /\ then[i].role = "assistant" => j <= i
    <3>1. CASE i \in DOMAIN turns /\ j \in DOMAIN turns
      BY <1>5, <1>7, <3>1
    <3>2. CASE i \in DOMAIN turns /\ j = last
      BY <1>5, <2>1, <3>2
    <3>3. CASE i = last /\ j \in DOMAIN turns
      BY <1>5, <2>1, <3>3
    <3>4. CASE i = last /\ j = last
      BY <1>5, <3>4
    <3> QED BY <1>5, <3>1, <3>2, <3>3, <3>4
  <2>5. tgSession'[s].user # Nobody
    BY <1>2
  <2> QED BY <2>3, <2>4, <2>5 DEF TurnsKept, then
<1>9. \A t \in SessionIds : TurnsKept(t)'
  BY <1>2, <1>3, <1>8
<1>10. TelegramTypeOK'
  BY <1>2, <1>3, EventsTyped DEF TelegramInv, TelegramTypeOK
<1>11. OneChat'
  <2>1. ASSUME NEW t \in SessionIds, NEW p \in Questions
        PROVE  /\ question'[p].chat = question[p].chat
               /\ TiedByRow(p, t)' => TiedByRow(p, t)
               /\ TiedBySession(p, t)' => TiedBySession(p, t)
               /\ TiedByTurn(p, t)' => TiedByTurn(p, t) \/ TiedBySession(p, t)
    <3>1. question'[p].chat = question[p].chat
      BY <1>3
    <3>2. TiedByRow(p, t)' => TiedByRow(p, t)
      BY <1>3 DEF TiedByRow
    <3>3. TiedBySession(p, t)' => TiedBySession(p, t)
      <4>1. CASE p = q
        BY <1>3, <4>1 DEF TiedBySession, InSession
      <4>2. CASE p # q
        BY <1>3, <4>2 DEF TiedBySession
      <4> QED BY <4>1, <4>2
    <3>4. TiedByTurn(p, t)' => TiedByTurn(p, t) \/ TiedBySession(p, t)
      <4>1. CASE t # s
        BY <1>2, <4>1 DEF TiedByTurn
      <4>2. CASE t = s
        <5> SUFFICES ASSUME TiedByTurn(p, s)' PROVE TiedByTurn(p, s) \/ TiedBySession(p, s)
          BY <4>2
        <5>1. PICK i \in DOMAIN then : then[i].of = p
          BY DEF TiedByTurn, then
        <5>2. CASE i \in DOMAIN turns
          BY <1>5, <5>1, <5>2 DEF TiedByTurn, turns
        <5>3. CASE i = last
          BY <1>5, <5>1, <5>3 DEF TiedBySession, InSession
        <5> QED BY <1>5, <5>2, <5>3
      <4> QED BY <4>1, <4>2
    <3> QED BY <3>1, <3>2, <3>3, <3>4
  <2>2. \A t \in SessionIds, d \in Chats : Tied(d, t)' => Tied(d, t)
    BY <2>1 DEF Tied, TiedByLink
  <2> QED BY <1>2, <2>2, NoNewTies DEF TelegramInv
<1>12. LinksAreEarned'
  BY DEF TelegramInv, LinksAreEarned
<1> QED BY <1>3, <1>9, <1>10, <1>11, <1>12 DEF TelegramInv

\* The turns that are given as history are of the session.
LEMMA LastTurnsOf ==
    ASSUME NEW t \in Seq(ChatTurns)
    PROVE  /\ LastTurns(t) \in Seq(ChatTurns)
           /\ \A i \in DOMAIN LastTurns(t) : \E j \in DOMAIN t : LastTurns(t)[i] = t[j]
<1> DEFINE n == Len(t)
           a == IF n > HistoryLimit THEN n - HistoryLimit + 1 ELSE 1
           k == n - a + 1
<1>1. n \in Nat /\ DOMAIN t = 1..n /\ \A j \in 1..n : t[j] \in ChatTurns
  OBVIOUS
<1>2. a \in 1..(n + 1) /\ k \in Nat
  BY <1>1, TelegramAssumption
<1>3. LastTurns(t) = SubSeq(t, a, n)
  BY DEF LastTurns
<1> HIDE DEF a
<1>4. \A i \in 1..k : i + a - 1 \in 1..n
  BY <1>1, <1>2
<1>5. SubSeq(t, a, n) = [i \in 1..k |-> t[i + a - 1]]
  BY <1>1, <1>2
<1> DEFINE sub == [i \in 1..k |-> t[i + a - 1]]
<1> HIDE DEF n, k
<1>6. sub \in Seq(ChatTurns) /\ DOMAIN sub = 1..k
  BY <1>1, <1>2, <1>4
<1>7. \A i \in 1..k : \E j \in 1..n : sub[i] = t[j]
  BY <1>4
<1> QED BY <1>1, <1>3, <1>5, <1>6, <1>7 DEF n, k

LEMMA StoreQuestionStep ==
    ASSUME TelegramInv, NEW q \in Questions, StoreQuestion(q)
    PROVE  TelegramInv'
<1> USE TelegramAssumption
<1> DEFINE s == question[q].session
           turns == tgSession[s].turns
           e == [of |-> q, role |-> "user"]
<1>1. question[q].at = "settled" /\ UNCHANGED <<chatLink, code, linking, active, spaces, enabled>>
  BY Zenon DEF StoreQuestion
<1>2. /\ question \in [Questions -> Handlers] /\ tgSession \in [SessionIds -> SessionRows]
  BY DEF TelegramInv, TelegramTypeOK
<1>3. /\ s \in SessionIds /\ question[q].row # NoLink
      /\ tgSession[s].user \in {question[q].row.user, Nobody}
  <2>1. HandlerKept(q)
    BY DEF TelegramInv
  <2> QED BY <1>1, <2>1 DEF HandlerKept, InSession
<1>4. CASE Becomes(q, Told(question[q])) /\ UNCHANGED <<tgSession, chatEvents>>
  BY <1>1, <1>4, ToldStep DEF Becomes
<1>5. CASE /\ tgSession[s].user # Nobody
           /\ Stored(s, e)
           /\ \E sent \in BOOLEAN :
                 /\ Becomes(q, [question[q] EXCEPT
                        !.at = "asking", !.history = LastTurns(turns),
                        !.shown = IF sent THEN "placeholder" ELSE "nothing"])
                 /\ IF sent THEN UNCHANGED chatEvents ELSE Event
  <2>1. PICK sent \in BOOLEAN :
                 /\ Becomes(q, [question[q] EXCEPT
                        !.at = "asking", !.history = LastTurns(turns),
                        !.shown = IF sent THEN "placeholder" ELSE "nothing"])
                 /\ IF sent THEN UNCHANGED chatEvents ELSE Event
    BY <1>5
  <2> DEFINE history == LastTurns(turns)
             shown == IF sent THEN "placeholder" ELSE "nothing"
             new == [question[q] EXCEPT !.at = "asking", !.history = history, !.shown = shown]
  <2>2. question' = [question EXCEPT ![q] = new]
    BY <2>1 DEF Becomes
  <2>3. Event \/ UNCHANGED chatEvents
    BY <2>1
  <2>4. turns \in Seq(ChatTurns)
    BY <1>2, <1>3 DEF SessionRows
  <2>5. /\ history \in Seq(ChatTurns)
        /\ \A i \in DOMAIN history : \E j \in DOMAIN turns : history[i] = turns[j]
    BY <2>4, LastTurnsOf
  <2>6. shown \in {"placeholder", "nothing"}
    OBVIOUS
  <2> HIDE DEF history, shown
  <2>7. /\ new \in Handlers /\ new.at = "asking" /\ new.session = s
        /\ new.row = question[q].row /\ new.chat = question[q].chat
        /\ new.history = history
    <3>1. question[q] \in Handlers
      BY <1>2
    <3> HIDE DEF s
    <3>2. new \in Handlers
      BY <2>5, <2>6, <3>1 DEF Handlers
    <3>3. /\ new.at = "asking" /\ new.session = question[q].session
          /\ new.row = question[q].row /\ new.chat = question[q].chat
          /\ new.history = history
      BY <3>1 DEF Handlers
    <3> QED BY <3>2, <3>3 DEF s
  <2> HIDE DEF new
  <2>8. question'[q] = new /\ \A p \in Questions \ {q} : question'[p] = question[p]
    BY <1>2, <2>2
  <2>9. e \in ChatTurns /\ e.of = q /\ e.role = "user"
    BY DEF ChatTurns
  <2>10. tgSession[s].user = question[q].row.user
    BY <1>3, <1>5
  <2>11. ASSUME NEW j \in DOMAIN turns
         PROVE  /\ turns[j].of \in Questions \ {q}
                /\ question[turns[j].of].at # "waiting" /\ question[turns[j].of].row # NoLink
                /\ question[turns[j].of].chat = question[q].chat
                /\ question[turns[j].of].row.user = question[q].row.user
    <3> DEFINE p == turns[j].of
    <3>1. p \in Questions
      BY <2>4, TurnsNameQuestions
    <3>2. /\ question[p].at \in {"asking", "delivered", "over"} /\ question[p].row # NoLink
          /\ question[p].row.user = tgSession[s].user
      BY <1>3 DEF TelegramInv, TurnsKept
    <3>3. TiedByTurn(p, s) /\ TiedBySession(q, s)
      BY <1>1 DEF TiedByTurn, TiedBySession, InSession
    <3>4. Tied(question[p].chat, s) /\ Tied(question[q].chat, s)
      BY <3>1, <3>3 DEF Tied
    <3>5. question[p].chat \in Chats /\ question[q].chat \in Chats
      BY <1>2, <3>1 DEF Handlers
    <3>6. question[p].chat = question[q].chat
      BY <1>3, <3>4, <3>5 DEF TelegramInv, OneChat
    <3> QED BY <1>1, <2>10, <3>1, <3>2, <3>6
  <2>12. HandlerKept(q)'
    <3>1. ASSUME NEW i \in DOMAIN new.history
          PROVE  /\ question'[new.history[i].of].at # "waiting"
                 /\ question'[new.history[i].of].row # NoLink
                 /\ question'[new.history[i].of].chat = new.chat
                 /\ question'[new.history[i].of].row.user = new.row.user
      <4>1. PICK j \in DOMAIN turns : new.history[i] = turns[j]
        BY <2>5, <2>7
      <4> DEFINE p == turns[j].of
      <4>2. /\ p \in Questions \ {q} /\ question[p].at # "waiting" /\ question[p].row # NoLink
            /\ question[p].chat = question[q].chat /\ question[p].row.user = question[q].row.user
        BY <2>11
      <4>3. new.history[i].of = p
        BY <4>1
      <4> HIDE DEF p
      <4> QED BY <2>7, <2>8, <4>2, <4>3
    <3>2. tgSession'[s].user = tgSession[s].user
      BY <1>3, <1>5, <2>9, StoredTurn
    <3> HIDE DEF s
    <3> QED BY <1>3, <2>7, <2>8, <2>10, <3>1, <3>2 DEF HandlerKept, SameConversation, InSession, s
  <2> HIDE DEF e
  <2> QED BY <1>1, <1>3, <1>5, <2>2, <2>3, <2>7, <2>9, <2>10, <2>12, StoreStep
<1> QED BY <1>4, <1>5 DEF StoreQuestion

LEMMA StoreReplyStep ==
    ASSUME TelegramInv, NEW q \in Questions, StoreReply(q)
    PROVE  TelegramInv'
<1> DEFINE s == question[q].session
           e == [of |-> q, role |-> "assistant"]
           new == Dropped(question[q])
<1>1. /\ question[q].at = "delivered"
      /\ IF tgSession[s].user = Nobody THEN UNCHANGED tgSession ELSE Stored(s, e)
      /\ question' = [question EXCEPT ![q] = new]
      /\ UNCHANGED <<chatEvents, chatLink, code, linking, active, spaces, enabled>>
  BY DEF StoreReply, Becomes
<1>2. /\ question \in [Questions -> Handlers] /\ tgSession \in [SessionIds -> SessionRows]
  BY DEF TelegramInv, TelegramTypeOK
<1>3. HandlerKept(q)
  BY DEF TelegramInv
<1>4. /\ s \in SessionIds /\ question[q].row # NoLink
      /\ tgSession[s].user \in {question[q].row.user, Nobody}
  BY <1>1, <1>3 DEF HandlerKept, InSession
<1>5. /\ new \in Handlers /\ new.at = "over" /\ new.chat = question[q].chat
      /\ new.history = <<>> /\ new.shown = question[q].shown
      /\ new.refused = question[q].refused
      /\ new.row # NoLink /\ new.row.user = question[q].row.user
  BY <1>2, <1>4, OverHandler
<1> HIDE DEF new
<1>6. question'[q] = new
  BY <1>1, <1>2
<1>7. HandlerKept(q)'
  <2>1. DOMAIN <<>> = {}
    OBVIOUS
  <2> QED BY <1>1, <1>3, <1>5, <1>6, <2>1 DEF HandlerKept, InSession
<1>8. CASE tgSession[s].user = Nobody
  <2>1. \A t \in SessionIds : ~(TiedByRow(q, t)' \/ TiedBySession(q, t)')
    BY <1>5, <1>6 DEF TiedByRow, TiedBySession, InSession
  <2> QED BY <1>1, <1>4, <1>5, <1>7, <1>8, <2>1, HandlerStep
<1>9. CASE tgSession[s].user # Nobody
  <2>1. e \in ChatTurns /\ e.of = q /\ e.role = "assistant"
    BY DEF ChatTurns
  <2>2. Stored(s, e) /\ tgSession[s].user = question[q].row.user
    BY <1>1, <1>4, <1>9
  <2> HIDE DEF e
  <2> QED BY <1>1, <1>4, <1>5, <1>7, <1>9, <2>1, <2>2, StoreStep
<1> QED BY <1>8, <1>9

\* A question that arrives: its handler may hold the chat's link, and nobody knew
\* of it before.
LEMMA ArrivesStep ==
    ASSUME TelegramInv, NEW q \in Questions, NEW c \in Chats, NEW new \in Handlers,
           question[q].at = "waiting", question' = [question EXCEPT ![q] = new],
           UNCHANGED <<chatEvents, chatLink, code, tgSession, linking, active, spaces, enabled>>,
           new.at \in {"linked", "over"}, new.chat = c, new.history = <<>>,
           new.shown \in {"nothing", "error"},
           new.at = "linked" => new.row = chatLink[c] /\ chatLink[c] # NoLink
                                /\ new.shown = "nothing"
    PROVE  TelegramInv'
<1>1. /\ question \in [Questions -> Handlers] /\ tgSession \in [SessionIds -> SessionRows]
  BY DEF TelegramInv, TelegramTypeOK
<1>2. /\ question' \in [Questions -> Handlers] /\ question'[q] = new
      /\ \A p \in Questions \ {q} : question'[p] = question[p]
  BY <1>1
<1>3. TelegramTypeOK'
  BY <1>2 DEF TelegramInv, TelegramTypeOK
<1>4. HandlerKept(q)'
  <2>1. DOMAIN <<>> = {}
    OBVIOUS
  <2> QED BY <1>2, <2>1 DEF HandlerKept, InSession
<1>5. ASSUME NEW p \in Questions \ {q} PROVE HandlerKept(p)'
  <2>1. HandlerKept(p) /\ question'[p] = question[p]
    BY <1>2 DEF TelegramInv
  <2>2. ASSUME NEW i \in DOMAIN question[p].history
        PROVE  question[p].history[i].of \in Questions \ {q}
    <3>1. question[p].history \in Seq(ChatTurns)
      BY <1>1 DEF Handlers
    <3> QED BY <2>1, <3>1, TurnsNameQuestions DEF HandlerKept
  <2>3. ASSUME NEW i \in DOMAIN question[p].history
        PROVE  /\ question'[question[p].history[i].of].at # "waiting"
               /\ question'[question[p].history[i].of].row # NoLink
               /\ SameConversation(p, question[p].history[i].of)'
    BY <1>2, <2>1, <2>2 DEF HandlerKept, SameConversation
  <2> QED BY <2>1, <2>3 DEF HandlerKept
<1>6. ASSUME NEW s \in SessionIds
      PROVE  TurnsKept(s)' /\ ~TiedByTurn(q, s)
  <2>1. TurnsKept(s)
    BY DEF TelegramInv
  <2>2. ASSUME NEW i \in DOMAIN tgSession[s].turns
        PROVE  tgSession[s].turns[i].of \in Questions \ {q}
    <3>1. tgSession[s].turns \in Seq(ChatTurns)
      BY <1>1 DEF SessionRows
    <3> QED BY <2>1, <3>1, TurnsNameQuestions DEF TurnsKept
  <2>3. \A i \in DOMAIN tgSession[s].turns :
            question'[tgSession[s].turns[i].of] = question[tgSession[s].turns[i].of]
    BY <1>2, <2>2
  <2>4. TurnsKept(s)'
    BY <2>1, <2>3 DEF TurnsKept
  <2> QED BY <2>2, <2>4 DEF TiedByTurn
<1>7. OneChat'
  <2>1. ASSUME NEW t \in SessionIds, NEW d \in Chats, Tied(d, t)' PROVE Tied(d, t)
    <3>1. CASE TiedByLink(d, t)'
      BY <3>1 DEF Tied, TiedByLink
    <3>2. ASSUME NEW p \in Questions \ {q}, question'[p].chat = d,
                 TiedByRow(p, t)' \/ TiedBySession(p, t)' \/ TiedByTurn(p, t)'
          PROVE  Tied(d, t)
      <4>1. question'[p] = question[p]
        BY <1>2
      <4> QED BY <3>2, <4>1 DEF Tied, TiedByRow, TiedBySession, TiedByTurn
    <3>3. ASSUME question'[q].chat = d,
                 TiedByRow(q, t)' \/ TiedBySession(q, t)' \/ TiedByTurn(q, t)'
          PROVE  Tied(d, t)
      <4>1. ~TiedBySession(q, t)' /\ ~TiedByTurn(q, t)'
        BY <1>2, <1>6 DEF TiedBySession, TiedByTurn, InSession
      <4>2. new.at = "linked" /\ new.row.session = t /\ d = c
        BY <1>2, <3>3, <4>1 DEF TiedByRow
      <4> QED BY <4>2 DEF Tied, TiedByLink
    <3> QED BY <2>1, <3>1, <3>2, <3>3 DEF Tied
  <2>2. \A s \in SessionIds : Given(s) => Given(s)'
    BY DEF Given
  <2> QED BY <2>1, <2>2, NoNewTies DEF TelegramInv
<1>8. LinksAreEarned'
  BY DEF TelegramInv, LinksAreEarned
<1> QED BY <1>3, <1>4, <1>5, <1>6, <1>7, <1>8 DEF TelegramInv

LEMMA AskStep ==
    ASSUME TelegramInv, NEW q \in Questions, NEW c \in Chats, Ask(q, c)
    PROVE  TelegramInv'
<1> DEFINE link == chatLink[c]
           arrived == [question[q] EXCEPT !.chat = c]
           dropped == [arrived EXCEPT !.at = "over"]
           held == [arrived EXCEPT !.row = link]
           linked == [arrived EXCEPT !.at = "linked", !.row = link]
<1>1. /\ question[q].at = "waiting"
      /\ UNCHANGED <<chatEvents, chatLink, code, tgSession, linking, active, spaces, enabled>>
  BY Zenon DEF Ask
<1>2. \/ question' = [question EXCEPT ![q] = dropped]
      \/ question' = [question EXCEPT ![q] = Told(arrived)]
      \/ link # NoLink /\ question' = [question EXCEPT ![q] = Told(held)]
      \/ link # NoLink /\ question' = [question EXCEPT ![q] = linked]
  BY Zenon DEF Ask, Becomes
<1>3. question[q] \in Handlers /\ link \in LinkRows \cup {NoLink}
  BY DEF TelegramInv, TelegramTypeOK
<1>4. question[q].history = <<>> /\ question[q].shown = "nothing"
  BY <1>1 DEF TelegramInv, HandlerKept
<1> HIDE DEF link
<1>5. /\ arrived \in Handlers /\ arrived.chat = c /\ arrived.history = <<>> /\ arrived.shown = "nothing"
  BY <1>3, <1>4 DEF Handlers
<1> HIDE DEF arrived
<1>6. /\ dropped \in Handlers /\ dropped.chat = c /\ dropped.history = <<>>
      /\ dropped.shown = "nothing" /\ dropped.at = "over"
  BY <1>5 DEF Handlers
<1>7. /\ linked \in Handlers /\ linked.chat = c /\ linked.history = <<>>
      /\ linked.shown = "nothing" /\ linked.at = "linked" /\ linked.row = link
  BY <1>3, <1>5 DEF Handlers
<1>8. held \in Handlers /\ held.chat = c
  BY <1>3, <1>5 DEF Handlers
<1> HIDE DEF dropped, linked, held
<1>9. \A h \in Handlers : h.chat = c =>
          /\ Told(h) \in Handlers /\ Told(h).chat = c /\ Told(h).history = <<>>
          /\ Told(h).shown = "error" /\ Told(h).at = "over"
  BY OverHandler
<1>10. CASE question' = [question EXCEPT ![q] = dropped]
  BY <1>1, <1>6, <1>10, ArrivesStep
<1>11. CASE question' = [question EXCEPT ![q] = Told(arrived)]
  BY <1>1, <1>5, <1>9, <1>11, ArrivesStep
<1>12. CASE question' = [question EXCEPT ![q] = Told(held)]
  BY <1>1, <1>8, <1>9, <1>12, ArrivesStep
<1>13. CASE link # NoLink /\ question' = [question EXCEPT ![q] = linked]
  BY <1>1, <1>7, <1>13, ArrivesStep DEF link
<1> QED BY <1>2, <1>10, <1>11, <1>12, <1>13

\* The process ends: what remains of the handlers is whose questions they were.
LEMMA BotRestartsStep ==
    ASSUME TelegramInv, BotRestarts
    PROVE  TelegramInv'
<1> DEFINE refused(q) == question[q].refused \/ question[q].at # "over"
           ended(q) == [Dropped(question[q]) EXCEPT !.refused = refused(q)]
<1>1. /\ UNCHANGED <<chatLink, code, tgSession, active, spaces, enabled>>
      /\ Event
  BY DEF BotRestarts
<1>2. /\ question \in [Questions -> Handlers] /\ tgSession \in [SessionIds -> SessionRows]
      /\ linking \in [LinkRequests -> LinkHandlers]
  BY DEF TelegramInv, TelegramTypeOK
<1>3. ASSUME NEW q \in Questions
      PROVE  /\ question'[q] \in Handlers
             /\ question[q].at = "waiting" => question'[q] = question[q]
             /\ question[q].at # "waiting" =>
                   /\ question'[q].at = "over" /\ question'[q].chat = question[q].chat
                   /\ question'[q].history = <<>> /\ question'[q].shown = question[q].shown
                   /\ ~question'[q].refused => ~question[q].refused /\ question[q].at = "over"
                   /\ question[q].row # NoLink =>
                         question'[q].row # NoLink /\ question'[q].row.user = question[q].row.user
  <2>1. question'[q] = IF question[q].at = "waiting" THEN question[q]
                       ELSE [Dropped(question[q]) EXCEPT !.refused = @ \/ question[q].at # "over"]
    BY DEF BotRestarts
  <2> DEFINE o == Dropped(question[q])
             after == [o EXCEPT !.refused = o.refused \/ question[q].at # "over"]
             flag == o.refused \/ question[q].at # "over"
  <2>2. question[q] \in Handlers
    BY <1>2
  <2>3. /\ o \in Handlers /\ o.at = "over" /\ o.chat = question[q].chat /\ o.history = <<>>
        /\ o.shown = question[q].shown /\ o.refused = question[q].refused
        /\ question[q].row # NoLink => o.row # NoLink /\ o.row.user = question[q].row.user
    BY <2>2, OverHandler
  <2>4. question[q].at # "waiting" => question'[q] = after
    BY <2>1
  <2>5. question[q].at = "waiting" => question'[q] = question[q]
    BY <2>1
  <2>6. flag \in BOOLEAN /\ (~flag => ~question[q].refused /\ question[q].at = "over")
    BY <2>3
  <2>7. after = [o EXCEPT !.refused = flag]
    OBVIOUS
  <2> HIDE DEF o, flag, after
  <2>8. /\ after \in Handlers /\ after.at = "over" /\ after.chat = o.chat /\ after.history = <<>>
        /\ after.shown = o.shown /\ after.row = o.row /\ after.refused = flag
    BY <2>3, <2>6, <2>7 DEF Handlers
  <2> QED BY <2>2, <2>3, <2>4, <2>5, <2>6, <2>8
<1>4. question' \in [Questions -> Handlers]
  <2>1. \E f : question' = [q \in Questions |-> f[q]]
    <3>1. question' = [q \in Questions |-> question'[q]]
      BY DEF BotRestarts
    <3> QED BY <3>1
  <2> QED BY <1>3, <2>1
<1>5. /\ linking' \in [LinkRequests -> LinkHandlers]
      /\ \A l \in LinkRequests : linking[l].at = "linked" => linking'[l] = linking[l]
  <2>1. \A l \in LinkRequests :
           linking'[l] = IF linking[l].at = "read" THEN [linking[l] EXCEPT !.at = "refused"]
                         ELSE linking[l]
    BY DEF BotRestarts
  <2>2. \A l \in LinkRequests : [linking[l] EXCEPT !.at = "refused"] \in LinkHandlers
    BY <1>2 DEF LinkHandlers
  <2>3. linking' = [l \in LinkRequests |-> linking'[l]]
    BY DEF BotRestarts
  <2> QED BY <1>2, <2>1, <2>2, <2>3
<1>6. TelegramTypeOK'
  BY <1>1, <1>4, <1>5, EventsTyped DEF TelegramInv, TelegramTypeOK
<1>7. ASSUME NEW q \in Questions PROVE HandlerKept(q)'
  <2>1. HandlerKept(q) /\ DOMAIN <<>> = {}
    BY DEF TelegramInv
  <2>2. CASE question[q].at = "waiting"
    BY <1>3, <2>1, <2>2 DEF HandlerKept, InSession
  <2>3. CASE question[q].at # "waiting"
    BY <1>3, <2>1, <2>3 DEF HandlerKept, InSession
  <2> QED BY <2>2, <2>3
<1>8. ASSUME NEW s \in SessionIds PROVE TurnsKept(s)'
  <2>1. TurnsKept(s) /\ tgSession'[s] = tgSession[s]
    BY <1>1 DEF TelegramInv
  <2>2. ASSUME NEW i \in DOMAIN tgSession[s].turns
        PROVE  /\ question'[tgSession[s].turns[i].of].at = "over"
               /\ question'[tgSession[s].turns[i].of].row # NoLink
               /\ question'[tgSession[s].turns[i].of].row.user = tgSession[s].user
    <3>1. tgSession[s].turns \in Seq(ChatTurns)
      BY <1>2 DEF SessionRows
    <3> DEFINE p == tgSession[s].turns[i].of
    <3>2. p \in Questions
      BY <3>1, TurnsNameQuestions
    <3>3. question[p].at # "waiting" /\ question[p].row # NoLink
          /\ question[p].row.user = tgSession[s].user
      BY <2>1 DEF TurnsKept
    <3> HIDE DEF p
    <3>4. question'[p].at = "over" /\ question'[p].row # NoLink
          /\ question'[p].row.user = tgSession[s].user
      BY <1>3, <3>2, <3>3
    <3> QED BY <3>4 DEF p
  <2> QED BY <2>1, <2>2 DEF TurnsKept
<1>9. OneChat'
  <2>1. ASSUME NEW p \in Questions, NEW t \in SessionIds
        PROVE  /\ ~TiedByRow(p, t)' /\ ~TiedBySession(p, t)'
               /\ TiedByTurn(p, t)' => TiedByTurn(p, t) /\ question'[p].chat = question[p].chat
    <3>1. ~TiedByRow(p, t)' /\ ~TiedBySession(p, t)'
      BY <1>3 DEF TiedByRow, TiedBySession, InSession
    <3>2. question'[p].chat = question[p].chat
      BY <1>3
    <3> QED BY <1>1, <3>1, <3>2 DEF TiedByTurn
  <2>2. \A s \in SessionIds, c \in Chats : Tied(c, s)' => Tied(c, s)
    BY <1>1, <2>1 DEF Tied, TiedByLink
  <2>3. \A s \in SessionIds : Given(s) => Given(s)'
    BY <1>1 DEF Given
  <2> QED BY <2>2, <2>3, NoNewTies DEF TelegramInv
<1>10. LinksAreEarned'
  BY <1>1, <1>5 DEF TelegramInv, LinksAreEarned
<1> QED BY <1>6, <1>7, <1>8, <1>9, <1>10 DEF TelegramInv

LEMMA TelegramKeep == TelegramInv /\ [TelegramNext]_telegramVars => TelegramInv'
<1> SUFFICES ASSUME TelegramInv, [TelegramNext]_telegramVars PROVE TelegramInv'
  OBVIOUS
<1>1. CASE \E k \in Codes : MintCode(k) \/ CodeExpires(k)
  BY <1>1, MintStep
<1>2. CASE \E l \in LinkRequests :
              \/ \E c \in Chats, k \in Codes : ReadCode(l, c, k)
              \/ CommitLink(l) \/ CommitLinkFails(l)
  BY <1>2, ReadCodeStep, CommitLinkStep, CommitFailsStep
<1>3. CASE \E c \in Chats : NewConversation(c) \/ ChooseSpace(c) \/ Unlink(c)
  BY <1>3, ShortCommandStep
<1>4. CASE \E s \in SessionIds : DeleteTgSession(s) \/ GoesIdle(s)
  BY <1>4, DeleteSessionStep, IdleStep
<1>5. CASE Administer \/ BotRestarts
  BY <1>5, AdministerStep, BotRestartsStep
<1>6. ASSUME NEW q \in Questions,
             \/ \E c \in Chats : Ask(q, c)
             \/ \E s \in SessionIds : CreateTgSession(q, s)
             \/ ReuseSession(q) \/ PointChat(q) \/ StoreQuestion(q)
             \/ StreamEdit(q) \/ Deliver(q) \/ StoreReply(q)
      PROVE  TelegramInv'
  <2>1. CASE \E c \in Chats : Ask(q, c)
    BY <2>1, AskStep
  <2>2. CASE \E s \in SessionIds : CreateTgSession(q, s)
    BY <2>2, CreateStep
  <2>3. CASE ReuseSession(q)
    BY <2>3, ReuseStep
  <2>4. CASE PointChat(q)
    BY <2>4, PointStep
  <2>5. CASE StoreQuestion(q)
    BY <2>5, StoreQuestionStep
  <2>6. CASE StreamEdit(q)
    BY <2>6, StreamStep
  <2>7. CASE Deliver(q)
    BY <2>7, DeliverStep
  <2>8. CASE StoreReply(q)
    BY <2>8, StoreReplyStep
  <2> QED BY <1>6, <2>1, <2>2, <2>3, <2>4, <2>5, <2>6, <2>7, <2>8
<1>7. CASE UNCHANGED telegramVars
  <2>1. UNCHANGED <<chatLink, code, tgSession, question, linking, active, spaces, enabled,
                    chatEvents>>
    BY <1>7 DEF telegramVars
  <2>2. TelegramTypeOK' /\ LinksAreEarned'
    BY <2>1 DEF TelegramInv, TelegramTypeOK, LinksAreEarned
  <2>3. OneChat'
    BY <2>1 DEF TelegramInv, OneChat, Tied, TiedByLink, TiedByRow, TiedBySession, TiedByTurn,
                Given, InSession
  <2>4. \A q \in Questions : HandlerKept(q)'
    BY <2>1 DEF TelegramInv, HandlerKept, SameConversation, InSession
  <2>5. ASSUME NEW s \in SessionIds PROVE TurnsKept(s)'
    <3>1. TurnsKept(s) /\ question' = question /\ tgSession'[s] = tgSession[s]
      BY <2>1 DEF TelegramInv
    <3> QED BY <3>1 DEF TurnsKept
  <2> QED BY <2>2, <2>3, <2>4, <2>5 DEF TelegramInv
<1> QED
  <2>1. TelegramNext \/ UNCHANGED telegramVars
    OBVIOUS
  <2> QED BY <1>1, <1>2, <1>3, <1>4, <1>5, <1>6, <1>7, <2>1, Zenon DEF TelegramNext

\* The turns of a session are of questions that one chat arrived.
LEMMA TelegramInvSuffices ==
    ASSUME TelegramInv
    PROVE  TurnsAreOwned /\ HistoryIsOwn /\ LinksAreEarned /\ AnswerStands
<1>1. /\ question \in [Questions -> Handlers] /\ tgSession \in [SessionIds -> SessionRows]
  BY DEF TelegramInv, TelegramTypeOK
<1>2. ASSUME NEW s \in SessionIds, NEW i \in DOMAIN tgSession[s].turns
      PROVE  LET p == tgSession[s].turns[i].of
             IN  p \in Questions /\ question[p].chat \in Chats /\ Tied(question[p].chat, s)
                 /\ question[p].row.user = tgSession[s].user
  <2> DEFINE p == tgSession[s].turns[i].of
  <2>1. tgSession[s].turns \in Seq(ChatTurns)
    BY <1>1 DEF SessionRows
  <2>2. p \in Questions
    BY <2>1, TurnsNameQuestions
  <2>3. TiedByTurn(p, s)
    BY DEF TiedByTurn
  <2>4. question[p].row.user = tgSession[s].user
    BY DEF TelegramInv, TurnsKept
  <2> HIDE DEF p
  <2>5. question[p].chat \in Chats
    BY <1>1, <2>2 DEF Handlers
  <2>6. Tied(question[p].chat, s)
    BY <2>2, <2>3 DEF Tied
  <2> QED BY <2>2, <2>4, <2>5, <2>6 DEF p
<1>3. TurnsAreOwned
  <2> SUFFICES ASSUME NEW s \in SessionIds
               PROVE  LET turns == tgSession[s].turns IN
                      /\ \A i \in DOMAIN turns : question[turns[i].of].row.user = tgSession[s].user
                      /\ \A i, j \in DOMAIN turns :
                            /\ SameConversation(turns[i].of, turns[j].of)
                            /\ turns[i] = turns[j] => i = j
                            /\ turns[i].of = turns[j].of /\ turns[i].role = "assistant" => j <= i
    BY DEF TurnsAreOwned
  <2>1. TurnsKept(s)
    BY DEF TelegramInv
  <2>2. ASSUME NEW i \in DOMAIN tgSession[s].turns, NEW j \in DOMAIN tgSession[s].turns
        PROVE  SameConversation(tgSession[s].turns[i].of, tgSession[s].turns[j].of)
    BY <1>2 DEF TelegramInv, OneChat, SameConversation
  <2> QED BY <2>1, <2>2 DEF TurnsKept
<1>4. HistoryIsOwn
  BY DEF TelegramInv, HandlerKept, HistoryIsOwn
<1>5. AnswerStands
  BY DEF TelegramInv, HandlerKept, AnswerStands
<1> QED BY <1>3, <1>4, <1>5 DEF TelegramInv

\* The values of the Telegram channel's variables stay those of its rows and its
\* handlers, in every interleaving of its updates with the web and with restarts.
THEOREM TelegramTyped == TelegramSpec => []TelegramTypeOK
<1>1. TelegramInv => TelegramTypeOK
  BY DEF TelegramInv
<1> QED BY <1>1, TelegramStart, TelegramKeep, PTL DEF TelegramSpec

-----------------------------------------------------------------------------
(* Chunks.                                                                 *)

\* Induction over a set of numbers.
LEMMA SetInduction ==
    ASSUME NEW S, 0 \in S, \A n \in Nat : n \in S => n + 1 \in S
    PROVE  Nat \subseteq S
<1> DEFINE R == OpToRel(<, Nat)
           T == Nat \ S
<1>1. IsWellFoundedOn(R, Nat)
  BY NatLessThanWellFounded
<1>2. \A x, y \in Nat : x < y => <<x, y>> \in R
  BY DEF OpToRel
<1>3. SUFFICES ASSUME T # {} PROVE FALSE
  OBVIOUS
<1> HIDE DEF R
<1>4. PICK x \in T : \A y \in T : <<y, x>> \notin R
  BY <1>1, <1>3, WFMin
<1>5. x \in Nat /\ x # 0 /\ x - 1 \in Nat /\ x - 1 < x
  BY <1>4
<1>6. x - 1 \in S
  BY <1>2, <1>4, <1>5
<1> QED BY <1>4, <1>5, <1>6

\* A value that is computed along 1..n, a step at a time, exists.
Computed(A, base, n, step, g) ==
    /\ g \in [0..n -> A] /\ g[0] = base
    /\ \A i \in 1..n : g[i] = step[<<g[i - 1], i>>]

LEMMA StepsExist ==
    ASSUME NEW A, NEW base \in A, NEW n \in Nat, NEW step \in [A \X (1..n) -> A]
    PROVE  \E g : Computed(A, base, n, step, g)
<1> DEFINE Upto(k, g) == /\ g \in [0..k -> A] /\ g[0] = base
                         /\ \A i \in 1..k : g[i] = step[<<g[i - 1], i>>]
           S == {k \in Nat : k > n \/ \E g \in [0..k -> A] : Upto(k, g)}
<1>1. 0 \in S
  <2> DEFINE g == [i \in 0..0 |-> base]
  <2>1. Upto(0, g)
    OBVIOUS
  <2> HIDE DEF g
  <2> QED BY <2>1
<1>2. ASSUME NEW k \in Nat, k \in S PROVE k + 1 \in S
  <2>1. CASE k + 1 > n
    BY <2>1
  <2>2. CASE k + 1 <= n
    <3>1. PICK g \in [0..k -> A] : Upto(k, g)
      BY <1>2, <2>2
    <3> DEFINE next == step[<<g[k], k + 1>>]
               h == [i \in 0..(k + 1) |-> IF i = k + 1 THEN next ELSE g[i]]
    <3>2. g[k] \in A /\ k + 1 \in 1..n
      BY <2>2
    <3>3. next \in A
      BY <3>2
    <3>4. h \in [0..(k + 1) -> A] /\ h[0] = base
      BY <3>1, <3>3
    <3>5. ASSUME NEW i \in 1..(k + 1) PROVE h[i] = step[<<h[i - 1], i>>]
      <4>1. CASE i = k + 1
        <5>1. i - 1 = k /\ k \in 0..(k + 1) /\ k # k + 1
          BY <4>1
        <5>2. h[i - 1] = g[k] /\ h[i] = next
          BY <4>1, <5>1
        <5> QED BY <4>1, <5>2
      <4>2. CASE i # k + 1
        <5>1. i \in 1..k /\ i - 1 \in 0..k /\ i - 1 # k + 1
          BY <4>2
        <5>2. h[i] = g[i] /\ h[i - 1] = g[i - 1]
          BY <5>1
        <5> QED BY <3>1, <5>1, <5>2
      <4> QED BY <4>1, <4>2
    <3> HIDE DEF h
    <3> QED BY <3>4, <3>5
  <2> QED BY <2>1, <2>2
<1> HIDE DEF S
<1>3. n \in S
  BY <1>1, <1>2, SetInduction
<1>4. PICK g \in [0..n -> A] : Upto(n, g)
  BY <1>3 DEF S
<1> QED BY <1>4 DEF Computed

\* A sum is what the partial sums end with, whichever way they are computed.
LEMMA TotalExists ==
    ASSUME NEW s \in Seq(Nat)
    PROVE  \E f \in [0..Len(s) -> Nat] :
               /\ f[0] = 0 /\ Total(s) = f[Len(s)]
               /\ \A i \in 1..Len(s) : f[i] = f[i - 1] + s[i]
<1> DEFINE n == Len(s)
           step == [x \in Nat \X (1..n) |-> x[1] + s[x[2]]]
           Sums(f) == f = [i \in 0..n |-> IF i = 0 THEN 0 ELSE f[i - 1] + s[i]]
           f == CHOOSE f : Sums(f)
<1>1. n \in Nat /\ \A i \in 1..n : s[i] \in Nat
  OBVIOUS
<1>2. step \in [Nat \X (1..n) -> Nat]
  BY <1>1
<1> HIDE DEF n
<1>3. \A m \in Nat : \A i \in 1..n : step[<<m, i>>] = m + s[i]
  OBVIOUS
<1> HIDE DEF step
<1> HIDE DEF f, Sums
<1>4. PICK g : Computed(Nat, 0, n, step, g)
  <2>1. 0 \in Nat /\ n \in Nat
    BY <1>1
  <2> QED BY <1>2, <2>1, StepsExist, Zenon
<1>5. ASSUME NEW i \in 0..n
      PROVE  g[i] = IF i = 0 THEN 0 ELSE g[i - 1] + s[i]
  <2>1. CASE i = 0
    BY <1>4, <2>1 DEF Computed
  <2>2. CASE i # 0
    <3>1. i \in 1..n /\ i - 1 \in 0..n
      BY <1>1, <2>2
    <3>2. g[i - 1] \in Nat /\ g[i] = step[<<g[i - 1], i>>]
      BY <1>4, <3>1 DEF Computed
    <3> QED BY <1>3, <2>2, <3>1, <3>2
  <2> QED BY <2>1, <2>2
<1>6. Sums(g)
  BY <1>4, <1>5 DEF Sums, Computed
<1>7. f = [i \in 0..n |-> IF i = 0 THEN 0 ELSE f[i - 1] + s[i]]
  BY <1>6 DEF f, Sums
<1>8. Total(s) = f[n]
  BY DEF Total, n, f, Sums
<1>9. f[0] = 0 /\ \A i \in 1..n : f[i] = f[i - 1] + s[i]
  BY <1>1, <1>7
<1>10. \A i \in 0..n : f[i] \in Nat
  <2> DEFINE S == {k \in Nat : k > n \/ f[k] \in Nat}
  <2>1. 0 \in S
    BY <1>9
  <2>2. ASSUME NEW k \in Nat, k \in S PROVE k + 1 \in S
    <3>1. CASE k + 1 > n
      BY <3>1
    <3>2. CASE k + 1 <= n
      <4>1. k + 1 \in 1..n /\ (k + 1) - 1 = k /\ f[k] \in Nat
        BY <1>1, <2>2, <3>2
      <4>2. f[k + 1] = f[k] + s[k + 1]
        BY <1>9, <4>1
      <4> QED BY <1>1, <4>1, <4>2
    <3> QED BY <1>1, <3>1, <3>2
  <2> HIDE DEF S
  <2>3. Nat \subseteq S
    BY <2>1, <2>2, SetInduction
  <2> QED BY <1>1, <2>3 DEF S
<1>11. f \in [0..n -> Nat]
  BY <1>7, <1>10
<1> QED BY <1>8, <1>9, <1>11 DEF n

LEMMA TotalIs ==
    ASSUME NEW s \in Seq(Nat), NEW g, g[0] = 0,
           \A i \in 1..Len(s) : g[i] = g[i - 1] + s[i]
    PROVE  Total(s) \in Nat /\ Total(s) = g[Len(s)]
<1>1. PICK f \in [0..Len(s) -> Nat] :
          /\ f[0] = 0 /\ Total(s) = f[Len(s)]
          /\ \A i \in 1..Len(s) : f[i] = f[i - 1] + s[i]
  BY TotalExists
<1> DEFINE n == Len(s)
           S == {k \in Nat : k > n \/ f[k] = g[k]}
<1>2. n \in Nat
  OBVIOUS
<1> HIDE DEF n
<1>3. 0 \in S
  BY <1>1
<1>4. ASSUME NEW k \in Nat, k \in S PROVE k + 1 \in S
  <2>1. CASE k + 1 > n
    BY <2>1
  <2>2. CASE k + 1 <= n
    <3>1. k + 1 \in 1..n /\ (k + 1) - 1 = k /\ f[k] = g[k]
      BY <1>2, <1>4, <2>2
    <3> QED BY <1>1, <3>1 DEF n
  <2> QED BY <1>2, <2>1, <2>2
<1> HIDE DEF S
<1>5. n \in S
  BY <1>2, <1>3, <1>4, SetInduction
<1>6. f[n] = g[n] /\ f[n] \in Nat
  BY <1>1, <1>2, <1>5 DEF S, n
<1> QED BY <1>1, <1>6 DEF n

LEMMA TotalOfNone == <<>> \in Seq(Nat) /\ Len(<<>>) = 0 /\ Total(<<>>) = 0
<1> DEFINE g == [i \in {0} |-> 0]
<1>1. <<>> \in Seq(Nat) /\ Len(<<>>) = 0 /\ g[0] = 0
  OBVIOUS
<1> DEFINE none == <<>>
<1> HIDE DEF g, none
<1>2. none \in Seq(Nat) /\ Len(none) = 0 /\ 1..Len(none) = {}
  BY <1>1 DEF none
<1>3. Total(none) = g[Len(none)]
  BY <1>1, <1>2, TotalIs
<1> QED BY <1>1, <1>2, <1>3 DEF none

LEMMA TotalOfAppend ==
    ASSUME NEW s \in Seq(Nat), NEW x \in Nat
    PROVE  /\ Append(s, x) \in Seq(Nat) /\ Len(Append(s, x)) = Len(s) + 1
           /\ Total(s) \in Nat /\ Total(Append(s, x)) = Total(s) + x
<1> DEFINE n == Len(s)
           t == Append(s, x)
<1>1. PICK f \in [0..n -> Nat] :
          /\ f[0] = 0 /\ Total(s) = f[n]
          /\ \A i \in 1..n : f[i] = f[i - 1] + s[i]
  BY TotalExists
<1>2. /\ n \in Nat /\ t \in Seq(Nat) /\ Len(t) = n + 1 /\ t[n + 1] = x
      /\ \A i \in 1..n : t[i] = s[i]
  OBVIOUS
<1> DEFINE g == [i \in 0..(n + 1) |-> IF i = n + 1 THEN f[n] + x ELSE f[i]]
<1> HIDE DEF n, t
<1>3. g[0] = 0 /\ g[n + 1] = f[n] + x
  BY <1>1, <1>2
<1>4. ASSUME NEW i \in 1..(n + 1) PROVE g[i] = g[i - 1] + t[i]
  <2>1. CASE i = n + 1
    <3>1. i - 1 = n /\ g[n] = f[n]
      BY <1>2, <2>1
    <3> QED BY <1>2, <1>3, <2>1, <3>1
  <2>2. CASE i # n + 1
    <3>1. i \in 1..n /\ i - 1 \in 0..n /\ i - 1 # n + 1
      BY <1>2, <2>2
    <3>2. g[i] = f[i] /\ g[i - 1] = f[i - 1]
      BY <1>2, <3>1
    <3> QED BY <1>1, <1>2, <3>1, <3>2
  <2> QED BY <2>1, <2>2
<1> HIDE DEF g
<1>5. Total(t) = g[n + 1]
  BY <1>2, <1>3, <1>4, TotalIs
<1>6. f[n] \in Nat
  BY <1>1, <1>2
<1> QED BY <1>1, <1>2, <1>3, <1>5, <1>6 DEF n, t

LEMMA OneMore ==
    ASSUME NEW m \in Nat, NEW b \in Nat, m # 0
    PROVE  m * b = (m - 1) * b + b
OBVIOUS

\* A line cut in k whole pieces.
LEMMA TotalOfEqual ==
    ASSUME NEW s \in Seq(Nat), NEW b \in Nat, NEW k \in Nat
    PROVE  LET t == s \o [i \in 1..k |-> b]
           IN  t \in Seq(Nat) /\ Total(t) = Total(s) + k * b
<1> DEFINE n == Len(s)
           r == [i \in 1..k |-> b]
           t == s \o r
<1>1. PICK f \in [0..n -> Nat] :
          /\ f[0] = 0 /\ Total(s) = f[n]
          /\ \A i \in 1..n : f[i] = f[i - 1] + s[i]
  BY TotalExists
<1>2. r \in Seq(Nat) /\ Len(r) = k /\ \A i \in 1..k : r[i] = b
  OBVIOUS
<1> HIDE DEF r
<1>0. n \in Nat
  OBVIOUS
<1>3. /\ n \in Nat /\ t \in Seq(Nat) /\ Len(t) = n + k
      /\ \A i \in 1..n : t[i] = s[i]
      /\ \A i \in (n + 1)..(n + k) : t[i] = r[i - n]
  BY <1>2
<1> DEFINE g == [i \in 0..(n + k) |-> IF i <= n THEN f[i] ELSE f[n] + (i - n) * b]
<1> HIDE DEF n, t
<1>4. g[0] = 0 /\ f[n] \in Nat
  BY <1>1, <1>3
<1>5. ASSUME NEW i \in 1..(n + k) PROVE g[i] = g[i - 1] + t[i]
  <2>1. CASE i <= n
    <3>1. i \in 1..n /\ i - 1 \in 0..n /\ i - 1 <= n /\ i \in 0..(n + k) /\ i - 1 \in 0..(n + k)
      BY <1>3, <2>1
    <3>2. g[i] = f[i] /\ g[i - 1] = f[i - 1]
      BY <3>1
    <3> QED BY <1>1, <1>3, <3>1, <3>2
  <2>2. CASE ~(i <= n)
    <3>1. i \in (n + 1)..(n + k) /\ i - n \in 1..k /\ i - 1 \in 0..(n + k) /\ i \in 0..(n + k)
      BY <1>3, <2>2
    <3>2. t[i] = b
      BY <1>2, <1>3, <3>1
    <3>3. g[i] = f[n] + (i - n) * b
      BY <2>2, <3>1
    <3>4. g[i - 1] = f[n] + ((i - n) - 1) * b
      <4>1. CASE i - 1 = n
        <5>1. g[i - 1] = f[n]
          BY <3>1, <4>1, <1>3
        <5>2. (i - n) - 1 = 0
          BY <1>3, <4>1
        <5> QED BY <1>4, <5>1, <5>2
      <4>2. CASE i - 1 # n
        <5>1. ~(i - 1 <= n) /\ (i - 1) - n = (i - n) - 1
          BY <1>0, <2>2, <4>2
        <5> QED BY <3>1, <5>1
      <4> QED BY <4>1, <4>2
    <3> DEFINE m == i - n
    <3>5. m \in Nat /\ m - 1 \in Nat /\ m # 0
      <4>1. m \in 1..k
        BY <3>1
      <4> HIDE DEF m
      <4> QED BY <4>1
    <3> HIDE DEF m
    <3>6. m * b = (m - 1) * b + b
      BY <3>5, OneMore
    <3> DEFINE before == (m - 1) * b
               after == m * b
    <3>7. before \in Nat /\ after = before + b
      BY <3>5, <3>6
    <3>8. g[i] = f[n] + after /\ g[i - 1] = f[n] + before
      BY <3>3, <3>4 DEF m
    <3> HIDE DEF before, after, g
    <3> QED BY <1>4, <3>2, <3>7, <3>8
  <2> QED BY <2>1, <2>2
<1>6. g[n + k] = f[n] + k * b
  <2>1. CASE k = 0
    BY <1>3, <1>4, <2>1
  <2>2. CASE k # 0
    <3>1. ~(n + k <= n) /\ (n + k) - n = k /\ n + k \in 0..(n + k)
      BY <1>3, <2>2
    <3> QED BY <3>1
  <2> QED BY <2>1, <2>2
<1> HIDE DEF g
<1>7. Total(t) = g[n + k]
  BY <1>3, <1>4, <1>5, TotalIs
<1> QED BY <1>1, <1>3, <1>6, <1>7 DEF t, r

\* What a list of chunks holds.
Sizes(chunks) == [i \in DOMAIN chunks |-> Total(chunks[i])]
Volume(chunks) == Total(Sizes(chunks))

LEMMA SizesTyped ==
    ASSUME NEW c \in Seq(Seq(Nat))
    PROVE  Sizes(c) \in Seq(Nat) /\ Len(Sizes(c)) = Len(c) /\ Volume(c) \in Nat
<1>1. Len(c) \in Nat /\ DOMAIN c = 1..Len(c) /\ \A i \in 1..Len(c) : c[i] \in Seq(Nat)
  OBVIOUS
<1>2. \A i \in 1..Len(c) : Total(c[i]) \in Nat
  BY <1>1, TotalOfAppend
<1> DEFINE n == Len(c)
           z == [i \in 1..n |-> Total(c[i])]
<1>3. Sizes(c) = z
  BY <1>1 DEF Sizes
<1>4. z \in Seq(Nat) /\ Len(z) = n
  BY <1>1, <1>2
<1> HIDE DEF z
<1>5. Total(z) \in Nat
  BY <1>4, TotalOfAppend
<1> QED BY <1>3, <1>4, <1>5 DEF Volume

LEMMA VolumeOfNone == <<>> \in Seq(Seq(Nat)) /\ Volume(<<>>) = 0
<1>1. Sizes(<<>>) = <<>>
  BY DEF Sizes
<1>2. <<>> \in Seq(Seq(Nat))
  OBVIOUS
<1> QED BY <1>1, <1>2, TotalOfNone DEF Volume

LEMMA VolumeOfAppend ==
    ASSUME NEW c \in Seq(Seq(Nat)), NEW x \in Seq(Nat)
    PROVE  /\ Append(c, x) \in Seq(Seq(Nat))
           /\ Volume(c) \in Nat /\ Total(x) \in Nat
           /\ Volume(Append(c, x)) = Volume(c) + Total(x)
<1> DEFINE d == Append(c, x)
<1>1. /\ Len(c) \in Nat /\ DOMAIN c = 1..Len(c) /\ DOMAIN d = 1..(Len(c) + 1)
      /\ d \in Seq(Seq(Nat)) /\ d[Len(c) + 1] = x /\ \A i \in 1..Len(c) : d[i] = c[i]
  OBVIOUS
<1> HIDE DEF d
<1>2. Total(x) \in Nat
  BY TotalOfAppend
<1>3. Sizes(c) \in Seq(Nat) /\ Len(Sizes(c)) = Len(c) /\ Volume(c) \in Nat
  BY SizesTyped
<1>4. Sizes(d) = Append(Sizes(c), Total(x))
  <2> DEFINE n == Len(c)
             p == [i \in 1..n |-> Total(c[i])]
             q == [i \in 1..(n + 1) |-> Total(d[i])]
  <2>1. Sizes(c) = p /\ Sizes(d) = q
    BY <1>1 DEF Sizes
  <2>2. p \in Seq(Nat) /\ Len(p) = n
    BY <1>3, <2>1
  <2>3. Append(p, Total(x)) = [i \in 1..(n + 1) |-> IF i = n + 1 THEN Total(x) ELSE p[i]]
    BY <1>2, <2>2
  <2>4. ASSUME NEW i \in 1..(n + 1)
        PROVE  q[i] = IF i = n + 1 THEN Total(x) ELSE p[i]
    <3>1. CASE i = n + 1
      BY <1>1, <3>1
    <3>2. CASE i # n + 1
      <4>1. i \in 1..n
        BY <1>1, <3>2
      <4> QED BY <1>1, <3>2, <4>1
    <3> QED BY <3>1, <3>2
  <2>5. q = [i \in 1..(n + 1) |-> IF i = n + 1 THEN Total(x) ELSE p[i]]
    BY <2>4
  <2> QED BY <2>1, <2>3, <2>5
<1>5. Total(Append(Sizes(c), Total(x))) = Volume(c) + Total(x)
  BY <1>2, <1>3, TotalOfAppend DEF Volume
<1> QED BY <1>1, <1>2, <1>3, <1>4, <1>5 DEF Volume, d

LEMMA ShortTexts ==
    ASSUME NEW b \in Nat
    PROVE  <<b>> \in Seq(Nat) /\ <<b>> # <<>> /\ Total(<<b>>) = b /\ Text(<<b>>) = b
           /\ Text(<<>>) = 0
<1>1. <<b>> = Append(<<>>, b) /\ <<b>> # <<>> /\ Len(<<b>>) = 1 /\ <<b>> \in Seq(Nat)
  OBVIOUS
<1>2. Total(<<b>>) = 0 + b
  BY <1>1, TotalOfNone, TotalOfAppend
<1> QED BY <1>1, <1>2 DEF Text

LEMMA TextTyped ==
    ASSUME NEW s \in Seq(Nat)
    PROVE  Text(s) \in Nat
<1>1. Total(s) \in Nat
  BY TotalOfAppend
<1>2. s # <<>> => Len(s) \in Nat /\ Len(s) >= 1
  OBVIOUS
<1> QED BY <1>1, <1>2 DEF Text

LEMMA TextOfAppend ==
    ASSUME NEW s \in Seq(Nat), s # <<>>, NEW x \in Nat
    PROVE  Text(Append(s, x)) = Text(s) + x + 1
<1>1. Total(s) \in Nat /\ Total(Append(s, x)) = Total(s) + x /\ Len(Append(s, x)) = Len(s) + 1
  BY TotalOfAppend
<1>2. Len(s) \in Nat /\ Len(s) >= 1 /\ Append(s, x) # <<>>
  OBVIOUS
<1> QED BY <1>1, <1>2 DEF Text

\* The whole pieces of a line that is too long.
Whole(pieces, b) == \A i \in 1..Len(pieces) : pieces[i] = <<b>>

LEMMA VolumeOfPieces ==
    ASSUME NEW c \in Seq(Seq(Nat)), NEW b \in Nat, NEW r \in Seq(Seq(Nat)), Whole(r, b)
    PROVE  /\ c \o r \in Seq(Seq(Nat)) /\ Volume(c \o r) = Volume(c) + Len(r) * b
           /\ \A i \in DOMAIN (c \o r) :
                 (i \in DOMAIN c /\ (c \o r)[i] = c[i]) \/ (c \o r)[i] = <<b>>
<1> DEFINE n == Len(c)
           k == Len(r)
           d == c \o r
           e == [i \in 1..k |-> b]
<1>1. k \in Nat /\ \A i \in 1..k : r[i] = <<b>>
  <2>1. k \in Nat
    BY LenProperties
  <2> QED BY <2>1 DEF Whole
<1> HIDE DEF k
<1>0. /\ e \in Seq(Nat) /\ Len(e) = k /\ \A i \in 1..k : e[i] = b
  BY <1>1
<1> HIDE DEF e
<1>2. n \in Nat /\ DOMAIN c = 1..n /\ k \in Nat
  BY <1>1, LenProperties
<1>3. /\ d \in Seq(Seq(Nat)) /\ Len(d) = n + k /\ DOMAIN d = 1..(n + k)
      /\ \A i \in 1..n : d[i] = c[i]
      /\ \A i \in (n + 1)..(n + k) : d[i] = r[i - n]
  <2>1. /\ d \in Seq(Seq(Nat)) /\ Len(d) = n + k
        /\ \A i \in 1..(n + k) : d[i] = IF i <= n THEN c[i] ELSE r[i - n]
    BY <1>0, <1>1, ConcatProperties DEF k
  <2>2. DOMAIN d = 1..Len(d)
    BY <2>1, LenProperties
  <2> HIDE DEF d, n
  <2>3. \A i \in 1..n : d[i] = c[i]
    BY <1>2, <2>1
  <2>4. \A i \in (n + 1)..(n + k) : d[i] = r[i - n]
    BY <1>2, <2>1
  <2> QED BY <2>1, <2>2, <2>3, <2>4
<1> HIDE DEF d
<1>4. \A i \in DOMAIN d : (i \in DOMAIN c /\ d[i] = c[i]) \/ d[i] = <<b>>
  <2> SUFFICES ASSUME NEW i \in 1..(n + k)
               PROVE  (i \in 1..n /\ d[i] = c[i]) \/ d[i] = <<b>>
    BY <1>2, <1>3
  <2>1. CASE i \in 1..n
    BY <1>3, <2>1
  <2>2. CASE i \notin 1..n
    <3>1. i \in (n + 1)..(n + k) /\ i - n \in 1..k
      BY <1>2, <2>2
    <3> QED BY <1>0, <1>1, <1>3, <3>1
  <2> QED BY <2>1, <2>2
<1>5. Sizes(c) \in Seq(Nat) /\ Len(Sizes(c)) = n
  BY SizesTyped
<1>6. Sizes(d) = Sizes(c) \o e
  <2> DEFINE z == Sizes(c)
  <2>1. /\ z \o e \in Seq(Nat) /\ Len(z \o e) = n + k
        /\ \A i \in 1..(n + k) : (z \o e)[i] = IF i <= n THEN z[i] ELSE e[i - n]
    <3>1. z \in Seq(Nat) /\ Len(z) = n /\ e \in Seq(Nat) /\ Len(e) = k
      BY <1>0, <1>1, <1>5
    <3> HIDE DEF z, n
    <3>2. /\ z \o e \in Seq(Nat) /\ Len(z \o e) = Len(z) + Len(e)
          /\ \A i \in 1..(Len(z) + Len(e)) :
                (z \o e)[i] = IF i <= Len(z) THEN z[i] ELSE e[i - Len(z)]
      BY <3>1, ConcatProperties, Zenon
    <3> QED BY <3>1, <3>2
  <2>2. ASSUME NEW i \in 1..(n + k)
        PROVE  Total(d[i]) = IF i <= n THEN z[i] ELSE e[i - n]
    <3>1. CASE i <= n
      <4>1. i \in 1..n
        BY <1>2, <3>1
      <4> QED BY <1>2, <1>3, <3>1, <4>1 DEF Sizes
    <3>2. CASE ~(i <= n)
      <4>1. i \in (n + 1)..(n + k) /\ i - n \in 1..k
        BY <1>2, <3>2
      <4>2. d[i] = <<b>> /\ e[i - n] = b
        BY <1>0, <1>1, <1>3, <4>1
      <4> QED BY <3>2, <4>2, ShortTexts
    <3> QED BY <3>1, <3>2
  <2>3. /\ Sizes(d) \in Seq(Nat) /\ Len(Sizes(d)) = n + k
        /\ \A i \in 1..(n + k) : Sizes(d)[i] = Total(d[i])
    BY <1>3, SizesTyped DEF Sizes
  <2> DEFINE ze == z \o e
             sd == Sizes(d)
  <2> HIDE DEF z, n
  <2>4. \A i \in 1..(n + k) : sd[i] = ze[i]
    BY <2>1, <2>2, <2>3
  <2>5. ze \in Seq(Nat) /\ sd \in Seq(Nat) /\ Len(sd) = Len(ze) /\ Len(sd) = n + k
    BY <2>1, <2>3
  <2> HIDE DEF ze, sd
  <2>6. sd = ze
    BY <2>4, <2>5, SeqEqual
  <2> QED BY <2>6 DEF ze, sd, z
<1>7. Total(Sizes(c) \o e) = Total(Sizes(c)) + k * b
  BY <1>1, <1>5, TotalOfEqual DEF e
<1> QED BY <1>3, <1>4, <1>6, <1>7 DEF Volume, d, k

LEMMA RestOf ==
    ASSUME NEW n \in Nat
    PROVE  /\ Rest(n) \in Nat /\ Rest(n) <= ChunkBudget
           /\ n <= ChunkBudget => Rest(n) = n
           /\ n > ChunkBudget =>
                 /\ (n - 1) \div ChunkBudget \in Nat
                 /\ ((n - 1) \div ChunkBudget) * ChunkBudget + Rest(n) = n
<1> DEFINE b == ChunkBudget
           m == n - 1
           q == m \div b
           r == m % b
<1>1. b \in Nat \ {0}
  BY TelegramAssumption
<1>2. CASE n = 0
  BY <1>1, <1>2 DEF Rest
<1>3. CASE n # 0
  <2>1. m \in Nat /\ n = m + 1
    BY <1>3
  <2>2. Rest(n) = r + 1
    BY <1>3 DEF Rest
  <2> HIDE DEF b, m
  <2>3. q \in Nat /\ r \in 0..(b - 1) /\ m = b * q + r
    BY <1>1, <2>1
  <2>4. m < b => r = m
    BY <1>1, <2>1
  <2>5. b * q = q * b
    BY <1>1, <2>3
  <2> DEFINE p == q * b
  <2>6. p \in Nat /\ m = p + r
    BY <1>1, <2>3, <2>5
  <2> HIDE DEF q, r, p
  <2>7. Rest(n) \in Nat /\ Rest(n) <= b /\ p + Rest(n) = n
    BY <1>1, <2>1, <2>2, <2>3, <2>6
  <2>8. n <= b => Rest(n) = n
    BY <1>1, <2>1, <2>2, <2>4
  <2> QED BY <2>3, <2>7, <2>8 DEF b, m, q, p
<1> QED BY <1>2, <1>3

\* What the loop of _chunk_markdown has put together so far.
ChunkStates == [done : Seq(Seq(Nat)), cur : Seq(Nat)]
Fits(chunks) == \A i \in DOMAIN chunks : Text(chunks[i]) <= ChunkBudget
Content(acc) == Volume(acc.done) + Total(acc.cur)

LEMMA FitsAppend ==
    ASSUME NEW c \in Seq(Seq(Nat)), Fits(c), NEW x \in Seq(Nat), Text(x) <= ChunkBudget
    PROVE  Fits(Append(c, x))
<1>1. /\ Len(c) \in Nat /\ DOMAIN c = 1..Len(c)
      /\ DOMAIN Append(c, x) = 1..(Len(c) + 1) /\ Append(c, x)[Len(c) + 1] = x
      /\ \A i \in 1..Len(c) : Append(c, x)[i] = c[i]
  OBVIOUS
<1> QED BY <1>1 DEF Fits

\* A line is added, whole or in pieces, and none of it is left out.
LEMMA AddLineKeeps ==
    ASSUME NEW acc \in ChunkStates, NEW n \in Nat,
           Fits(acc.done), Text(acc.cur) <= ChunkBudget
    PROVE  /\ AddLine(acc, n) \in ChunkStates
           /\ Fits(AddLine(acc, n).done) /\ Text(AddLine(acc, n).cur) <= ChunkBudget
           /\ Content(acc) \in Nat /\ Content(AddLine(acc, n)) = Content(acc) + n
<1> DEFINE b == ChunkBudget
           cut == n > b
           done == IF cut /\ acc.cur # <<>> THEN Append(acc.done, acc.cur) ELSE acc.done
           cur == IF cut THEN <<>> ELSE acc.cur
           pieces == IF cut THEN done \o Pieces(n) ELSE done
           left == Rest(n)
           rest == IF left = 0 THEN <<>> ELSE <<left>>
           full == Text(cur) + left + 1 > b
           flushed == [done |-> Append(pieces, cur), cur |-> rest]
           grown == [done |-> pieces, cur |-> IF cur = <<>> THEN rest ELSE Append(cur, left)]
<1>1. AddLine(acc, n) = IF full THEN flushed ELSE grown
  BY DEF AddLine
<1>2. /\ acc.done \in Seq(Seq(Nat)) /\ acc.cur \in Seq(Nat) /\ b \in Nat \ {0}
      /\ \A d \in Seq(Seq(Nat)), c \in Seq(Nat) : [done |-> d, cur |-> c] \in ChunkStates
  BY TelegramAssumption DEF ChunkStates
<1>3. /\ left \in Nat /\ left <= b
      /\ cut => (n - 1) \div b \in Nat /\ ((n - 1) \div b) * b + left = n
      /\ ~cut => left = n
  BY RestOf, <1>2
<1>4. /\ Volume(acc.done) \in Nat /\ Total(acc.cur) \in Nat
      /\ <<>> \in Seq(Nat) /\ Total(<<>>) = 0 /\ Text(<<>>) = 0
  BY <1>2, SizesTyped, TotalOfAppend, TotalOfNone DEF Text
<1>5. Content(acc) = Volume(acc.done) + Total(acc.cur) /\ Content(acc) \in Nat
  BY <1>4 DEF Content
<1> HIDE DEF b, left
<1>6. /\ rest \in Seq(Nat) /\ Total(rest) = left /\ Text(rest) <= b
  <2>1. CASE left = 0
    BY <1>2, <1>4, <2>1
  <2>2. CASE left # 0
    BY <1>3, <2>2, ShortTexts
  <2> QED BY <2>1, <2>2
<1>7. /\ done \in Seq(Seq(Nat)) /\ Fits(done) /\ cur \in Seq(Nat) /\ Text(cur) <= b
      /\ Volume(done) \in Nat /\ Total(cur) \in Nat
      /\ Volume(done) + Total(cur) = Content(acc)
      /\ cut => cur = <<>>
  <2>1. CASE cut /\ acc.cur # <<>>
    <3>1. done = Append(acc.done, acc.cur) /\ cur = <<>>
      BY <2>1
    <3>2. /\ done \in Seq(Seq(Nat)) /\ Volume(done) = Volume(acc.done) + Total(acc.cur)
      BY <1>2, <3>1, VolumeOfAppend
    <3>3. Fits(done)
      BY <1>2, <3>1, FitsAppend DEF b
    <3> HIDE DEF done, cur
    <3> QED BY <1>2, <1>4, <1>5, <3>1, <3>2, <3>3
  <2>2. CASE ~cut
    BY <1>2, <1>4, <1>5, <2>2 DEF b
  <2>3. CASE cut /\ acc.cur = <<>>
    BY <1>2, <1>4, <1>5, <2>3
  <2> QED BY <2>1, <2>2, <2>3
<1> HIDE DEF done, cur, rest
<1>8. /\ pieces \in Seq(Seq(Nat)) /\ Fits(pieces) /\ Volume(pieces) \in Nat
      /\ Volume(pieces) + Total(cur) + left = Content(acc) + n
  <2>1. CASE cut
    <3> DEFINE k == (n - 1) \div b
               whole == k * b
    <3>1. k \in Nat /\ whole \in Nat /\ whole + left = n
      BY <1>2, <1>3, <2>1
    <3>2. Pieces(n) = [i \in 1..k |-> <<b>>]
      BY DEF Pieces, b
    <3>3. /\ pieces = done \o Pieces(n) /\ Pieces(n) \in Seq(Seq(Nat)) /\ Len(Pieces(n)) = k
          /\ \A i \in 1..k : Pieces(n)[i] = <<b>>
      <4>1. <<b>> \in Seq(Nat)
        BY <1>2, ShortTexts
      <4> HIDE DEF k
      <4> QED BY <2>1, <3>1, <3>2, <4>1
    <3> HIDE DEF k, pieces
    <3>4. /\ pieces \in Seq(Seq(Nat)) /\ Volume(pieces) = Volume(done) + whole
          /\ \A i \in DOMAIN pieces :
                (i \in DOMAIN done /\ pieces[i] = done[i]) \/ pieces[i] = <<b>>
      <4> DEFINE r == Pieces(n)
      <4> HIDE DEF r
      <4>1. r \in Seq(Seq(Nat)) /\ Len(r) = k /\ (\A i \in 1..k : r[i] = <<b>>) /\ pieces = done \o r
        BY <3>3 DEF r
      <4>4. Whole(r, b)
        BY <4>1 DEF Whole
      <4>2. b \in Nat /\ k \in Nat /\ done \in Seq(Seq(Nat))
        BY <1>2, <1>7, <3>1
      <4>3. /\ done \o r \in Seq(Seq(Nat)) /\ Volume(done \o r) = Volume(done) + Len(r) * b
            /\ \A i \in DOMAIN (done \o r) :
                  (i \in DOMAIN done /\ (done \o r)[i] = done[i]) \/ (done \o r)[i] = <<b>>
        BY <4>1, <4>2, <4>4, VolumeOfPieces, Zenon
      <4> QED BY <4>1, <4>3, Zenon
    <3> HIDE DEF whole
    <3>5. Text(<<b>>) = b
      BY <1>2, ShortTexts
    <3>6. Fits(pieces)
      <4>1. \A i \in DOMAIN done : Text(done[i]) <= b
        BY <1>7 DEF Fits, b
      <4>2. \A i \in DOMAIN pieces : Text(pieces[i]) <= b
        <5> TAKE i \in DOMAIN pieces
        <5>1. CASE i \in DOMAIN done /\ pieces[i] = done[i]
          BY <4>1, <5>1
        <5>2. CASE pieces[i] = <<b>>
          BY <1>2, <3>5, <5>2
        <5> QED BY <3>4, <5>1, <5>2
      <4> QED BY <4>2 DEF Fits, b
    <3> DEFINE v == Volume(done)
               u == Total(cur)
    <3>7. /\ v \in Nat /\ u \in Nat /\ v + u = Content(acc) /\ Volume(pieces) = v + whole
      BY <1>7, <3>4
    <3> HIDE DEF v, u
    <3>8. Volume(pieces) \in Nat /\ Volume(pieces) + u + left = Content(acc) + n
      BY <1>3, <1>5, <3>1, <3>7
    <3> QED BY <3>4, <3>6, <3>8 DEF u
  <2>2. CASE ~cut
    BY <1>3, <1>5, <1>7, <2>2
  <2> QED BY <2>1, <2>2
<1> HIDE DEF pieces, cut
<1>9. CASE full
  <2>1. /\ Append(pieces, cur) \in Seq(Seq(Nat))
        /\ Volume(Append(pieces, cur)) = Volume(pieces) + Total(cur)
    BY <1>7, <1>8, VolumeOfAppend
  <2>2. Fits(Append(pieces, cur))
    BY <1>7, <1>8, FitsAppend DEF b
  <2>3. AddLine(acc, n) = flushed
    BY <1>1, <1>9
  <2>4. Content(flushed) = Content(acc) + n
    BY <1>3, <1>6, <1>7, <1>8, <2>1 DEF Content
  <2>5. /\ flushed \in ChunkStates /\ flushed.done = Append(pieces, cur) /\ flushed.cur = rest
    BY <1>2, <1>6, <2>1
  <2> HIDE DEF flushed
  <2> QED BY <1>5, <1>6, <2>2, <2>3, <2>4, <2>5 DEF b
<1>10. CASE ~full
  <2> DEFINE then == IF cur = <<>> THEN rest ELSE Append(cur, left)
  <2>1. AddLine(acc, n) = [done |-> pieces, cur |-> then]
    BY <1>1, <1>10
  <2>2. then \in Seq(Nat) /\ Text(then) <= b /\ Total(then) = Total(cur) + left
    <3>1. CASE cur = <<>>
      BY <1>3, <1>4, <1>6, <3>1
    <3>2. CASE cur # <<>>
      <4>1. /\ Append(cur, left) \in Seq(Nat) /\ Total(Append(cur, left)) = Total(cur) + left
            /\ Text(Append(cur, left)) = Text(cur) + left + 1 /\ Text(cur) \in Nat
        BY <1>3, <1>7, <3>2, TotalOfAppend, TextOfAppend, TextTyped
      <4> QED BY <1>2, <1>3, <1>10, <3>2, <4>1
    <3> QED BY <3>1, <3>2
  <2> HIDE DEF then
  <2>3. Content([done |-> pieces, cur |-> then]) = Content(acc) + n
    BY <1>3, <1>7, <1>8, <2>2 DEF Content
  <2> QED BY <1>2, <1>5, <1>8, <2>1, <2>2, <2>3 DEF b
<1> QED BY <1>9, <1>10

\* The loop over the lines of an answer, line by line.
LEMMA LoopKeeps ==
    ASSUME NEW lines \in Seq(Nat), NEW g \in [0..Len(lines) -> ChunkStates],
           g[0] = [done |-> <<>>, cur |-> <<>>],
           \A i \in 1..Len(lines) : g[i] = AddLine(g[i - 1], lines[i])
    PROVE  LET acc == g[Len(lines)]
           IN  /\ acc \in ChunkStates /\ Fits(acc.done) /\ Text(acc.cur) <= ChunkBudget
               /\ Content(acc) = Total(lines)
<1> DEFINE n == Len(lines)
<1>1. PICK f \in [0..n -> Nat] :
          /\ f[0] = 0 /\ Total(lines) = f[n]
          /\ \A i \in 1..n : f[i] = f[i - 1] + lines[i]
  BY TotalExists
<1> DEFINE Kept(k) == /\ Fits(g[k].done) /\ Text(g[k].cur) <= ChunkBudget
                      /\ Content(g[k]) = f[k]
           S == {k \in Nat : k > n \/ Kept(k)}
<1>2. n \in Nat /\ \A i \in 1..n : lines[i] \in Nat
  OBVIOUS
<1>3. 0 \in S
  <2>1. g[0].done = <<>> /\ g[0].cur = <<>> /\ DOMAIN <<>> = {}
    OBVIOUS
  <2>2. Text(<<>>) = 0 /\ Total(<<>>) = 0 /\ Volume(<<>>) = 0
    BY TotalOfNone, VolumeOfNone DEF Text
  <2>3. Kept(0)
    BY <1>1, <2>1, <2>2, TelegramAssumption DEF Fits, Content
  <2> HIDE DEF Kept
  <2> QED BY <2>3
<1>4. ASSUME NEW k \in Nat, k \in S PROVE k + 1 \in S
  <2>1. CASE k + 1 > n
    BY <2>1
  <2>2. CASE ~(k + 1 > n)
    <3>1. k + 1 \in 1..n /\ (k + 1) - 1 = k /\ k \in 0..n /\ ~(k > n)
      BY <1>2, <2>2
    <3>2. Kept(k)
      BY <1>4, <3>1
    <3> DEFINE next == AddLine(g[k], lines[k + 1])
    <3>3. g[k + 1] = next /\ f[k + 1] = f[k] + lines[k + 1] /\ lines[k + 1] \in Nat
      BY <1>1, <1>2, <3>1
    <3>4. Fits(next.done) /\ Text(next.cur) <= ChunkBudget
          /\ Content(next) = Content(g[k]) + lines[k + 1]
      BY <3>1, <3>2, <3>3, AddLineKeeps
    <3> HIDE DEF next
    <3>5. Kept(k + 1)
      BY <3>2, <3>3, <3>4
    <3> HIDE DEF Kept
    <3> QED BY <3>5
  <2> QED BY <2>1, <2>2
<1> HIDE DEF S
<1>5. n \in S
  BY <1>2, <1>3, <1>4, SetInduction
<1>6. Kept(n) /\ g[n] \in ChunkStates
  BY <1>2, <1>5 DEF S
<1> QED BY <1>1, <1>6

LEMMA LoopExists ==
    ASSUME NEW lines \in Seq(Nat)
    PROVE  \E g \in [0..Len(lines) -> ChunkStates] :
               /\ g[0] = [done |-> <<>>, cur |-> <<>>]
               /\ \A i \in 1..Len(lines) : g[i] = AddLine(g[i - 1], lines[i])
<1> DEFINE n == Len(lines)
           start == [done |-> <<>>, cur |-> <<>>]
           Good == {acc \in ChunkStates : Fits(acc.done) /\ Text(acc.cur) <= ChunkBudget}
           step == [x \in Good \X (1..n) |-> AddLine(x[1], lines[x[2]])]
<1>1. n \in Nat /\ \A i \in 1..n : lines[i] \in Nat
  OBVIOUS
<1>2. start \in Good
  <2>1. start \in ChunkStates /\ start.done = <<>> /\ start.cur = <<>> /\ DOMAIN <<>> = {}
    BY TotalOfNone, VolumeOfNone DEF ChunkStates
  <2>2. Text(<<>>) = 0
    BY DEF Text
  <2> QED BY <2>1, <2>2, TelegramAssumption DEF Fits
<1>3. \A acc \in Good, i \in 1..n : AddLine(acc, lines[i]) \in Good
  BY <1>1, AddLineKeeps
<1> HIDE DEF Good, n
<1>4. step \in [Good \X (1..n) -> Good]
  BY <1>3
<1>5. \A acc \in Good, i \in 1..n : step[<<acc, i>>] = AddLine(acc, lines[i])
  OBVIOUS
<1> HIDE DEF step, start
<1>6. PICK g : Computed(Good, start, n, step, g)
  BY <1>1, <1>2, <1>4, StepsExist, Zenon
<1>7. /\ g \in [0..n -> Good] /\ g[0] = start
      /\ \A i \in 1..n : g[i] = step[<<g[i - 1], i>>]
  BY <1>6 DEF Computed
<1>8. \A i \in 1..n : g[i] = AddLine(g[i - 1], lines[i])
  <2> TAKE i \in 1..n
  <2>1. i - 1 \in 0..n
    BY <1>1
  <2> QED BY <1>5, <1>7, <2>1
<1>9. g \in [0..n -> ChunkStates]
  BY <1>7 DEF Good
<1> QED BY <1>7, <1>8, <1>9 DEF n, start

LEMMA ChunksDoFit == ChunksFit
<1> SUFFICES ASSUME NEW lines \in AnswerTexts
             PROVE  /\ Fits(ChunkMarkdown(lines))
                    /\ Volume(ChunkMarkdown(lines)) = Total(lines)
  BY DEF ChunksFit, Fits, Volume, Sizes
<1>1. lines \in Seq(Nat) /\ Total(lines) \in Nat
  BY TelegramAssumption, TotalOfAppend
<1>2. CASE Text(lines) <= ChunkBudget
  <2>1. ChunkMarkdown(lines) = <<lines>>
    BY <1>2 DEF ChunkMarkdown
  <2> DEFINE none == <<>>
  <2>2. <<lines>> = Append(none, lines) /\ DOMAIN none = {}
    OBVIOUS
  <2>3. none \in Seq(Seq(Nat)) /\ Volume(none) = 0
    BY VolumeOfNone
  <2> HIDE DEF none
  <2>4. Fits(none)
    BY <2>2 DEF Fits
  <2>5. Fits(Append(none, lines))
    BY <1>1, <1>2, <2>3, <2>4, FitsAppend
  <2>6. Volume(Append(none, lines)) = Total(lines)
    BY <1>1, <2>3, VolumeOfAppend
  <2> QED BY <2>1, <2>2, <2>5, <2>6
<1>3. CASE ~(Text(lines) <= ChunkBudget)
  <2> DEFINE n == Len(lines)
             start == [done |-> <<>>, cur |-> <<>>]
             Upto(g) == g = [i \in 0..n |->
                                IF i = 0 THEN start ELSE AddLine(g[i - 1], lines[i])]
             upto == CHOOSE g : Upto(g)
             acc == upto[n]
  <2>1. ChunkMarkdown(lines) = IF acc.cur = <<>> THEN acc.done ELSE Append(acc.done, acc.cur)
    BY <1>3 DEF ChunkMarkdown
  <2>2. n \in Nat
    BY <1>1
  <2> HIDE DEF n, start, upto
  <2>3. PICK g \in [0..n -> ChunkStates] :
            g[0] = start /\ \A i \in 1..n : g[i] = AddLine(g[i - 1], lines[i])
    BY <1>1, LoopExists DEF n, start
  <2>4. ASSUME NEW i \in 0..n
        PROVE  g[i] = IF i = 0 THEN start ELSE AddLine(g[i - 1], lines[i])
    BY <2>2, <2>3
  <2>5. Upto(g)
    BY <2>3, <2>4
  <2>6. Upto(upto)
    BY <2>5 DEF upto
  <2>7. upto[0] = start /\ \A i \in 1..n : upto[i] = AddLine(upto[i - 1], lines[i])
    BY <2>2, <2>6
  <2>8. \A i \in 0..n : upto[i] = g[i]
    <3> DEFINE S == {k \in Nat : k > n \/ upto[k] = g[k]}
    <3>1. 0 \in S
      BY <2>3, <2>7
    <3>2. ASSUME NEW k \in Nat, k \in S PROVE k + 1 \in S
      <4>1. CASE k + 1 > n
        BY <4>1
      <4>2. CASE ~(k + 1 > n)
        <5>1. k + 1 \in 1..n /\ (k + 1) - 1 = k /\ upto[k] = g[k]
          BY <2>2, <3>2, <4>2
        <5>2. upto[k + 1] = g[k + 1]
          BY <2>3, <2>7, <5>1
        <5> QED BY <5>2
      <4> QED BY <4>1, <4>2
    <3> HIDE DEF S
    <3>3. Nat \subseteq S
      BY <3>1, <3>2, SetInduction
    <3> QED BY <2>2, <3>3 DEF S
  <2>9. acc = g[n]
    BY <2>2, <2>8
  <2>10. /\ acc \in ChunkStates /\ Fits(acc.done) /\ Text(acc.cur) <= ChunkBudget
         /\ Content(acc) = Total(lines)
    BY <1>1, <2>3, <2>9, LoopKeeps DEF n, start
  <2> HIDE DEF acc
  <2>11. acc.done \in Seq(Seq(Nat)) /\ acc.cur \in Seq(Nat)
    BY <2>10 DEF ChunkStates
  <2>12. CASE acc.cur = <<>>
    <3>1. Volume(acc.done) \in Nat /\ Total(acc.cur) = 0
      BY <2>11, <2>12, SizesTyped, TotalOfNone
    <3> QED BY <2>1, <2>10, <2>12, <3>1 DEF Content
  <2>13. CASE acc.cur # <<>>
    BY <2>1, <2>10, <2>11, <2>13, FitsAppend, VolumeOfAppend DEF Content
  <2> QED BY <2>12, <2>13
<1> QED BY <1>2, <1>3

\* A conversation stays with the account that a chat was linked to when it was
\* held: turns, history, links and what the chat shows, for all chats, accounts,
\* codes, questions and answers, and the chunks of every answer.
THEOREM ConversationsStay == TelegramSpec => []ConversationsKeepTheirAccount
<1>1. TelegramInv => ConversationsKeepTheirAccount
  BY TelegramInvSuffices, ChunksDoFit DEF ConversationsKeepTheirAccount
<1> QED BY <1>1, TelegramStart, TelegramKeep, PTL DEF TelegramSpec

=============================================================================
