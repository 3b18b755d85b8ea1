-------------------------------- MODULE Answers --------------------------------
(***************************************************************************)
(* What an answer is made from and how it is told, side by side: from a    *)
(* file to its chunks and figures, the search over them, the document a    *)
(* question names, people, personal memory, the text a model streams, and  *)
(* the Telegram chat it may be asked in.                                   *)
(*                                                                         *)
(* As in Processes a behaviour follows one of them, the one in focus: they *)
(* share no state that these modules model.                                *)
(***************************************************************************)
EXTENDS Parsing, Figures, Retrieval, Resolver, PeopleSearch, Memory,
        AnswerStream, Telegram

VARIABLE focus

answersVars == <<focus, parsingVars, figureVars, retrievalVars, resolverVars,
                 peopleVars, memoryVars, streamVars, telegramVars>>

\* The parts at rest begin in one of their initial states.
AnswersInit ==
    /\ focus \in {"parsing", "figures", "retrieval", "resolver", "people",
                  "memory", "stream", "telegram"}
    /\ ParsingInit
    /\ focus # "parsing" => file = CHOOSE f \in Files : TRUE
    /\ FiguresInit
    /\ focus # "figures" => items = CHOOSE d \in Documented : TRUE
    /\ RetrievalInit
    /\ ResolverInit
    /\ focus # "resolver" => row = [d \in Titled |-> "indexed"]
    /\ PeopleInit
    /\ MemoryInit
    /\ AnswerStreamInit
    /\ focus # "stream" =>
          /\ stream.provider = CHOOSE p \in Providers : TRUE
          /\ stream.script = CHOOSE s \in Scripts : TRUE
          /\ answer.intent = "search"
    /\ TelegramInit

\* A step of the part in focus leaves the others at rest.
Step(part, Next) == focus = part /\ Next /\ UNCHANGED focus

AnswersNext ==
    \/ Step("parsing", ParsingNext)
         /\ UNCHANGED <<figureVars, retrievalVars, resolverVars, peopleVars,
                       memoryVars, streamVars, telegramVars>>
    \/ Step("figures", FiguresNext)
         /\ UNCHANGED <<parsingVars, retrievalVars, resolverVars, peopleVars,
                       memoryVars, streamVars, telegramVars>>
    \/ Step("retrieval", RetrievalNext)
         /\ UNCHANGED <<parsingVars, figureVars, resolverVars, peopleVars,
                       memoryVars, streamVars, telegramVars>>
    \/ Step("resolver", ResolverNext)
         /\ UNCHANGED <<parsingVars, figureVars, retrievalVars, peopleVars,
                       memoryVars, streamVars, telegramVars>>
    \/ Step("people", PeopleNext)
         /\ UNCHANGED <<parsingVars, figureVars, retrievalVars, resolverVars,
                       memoryVars, streamVars, telegramVars>>
    \/ Step("memory", MemoryNext)
         /\ UNCHANGED <<parsingVars, figureVars, retrievalVars, resolverVars,
                       peopleVars, streamVars, telegramVars>>
    \/ Step("stream", AnswerStreamNext)
         /\ UNCHANGED <<parsingVars, figureVars, retrievalVars, resolverVars,
                       peopleVars, memoryVars, telegramVars>>
    \/ Step("telegram", TelegramNext)
         /\ UNCHANGED <<parsingVars, figureVars, retrievalVars, resolverVars,
                       peopleVars, memoryVars, streamVars>>

AnswersSpec == AnswersInit /\ [][AnswersNext]_answersVars

-----------------------------------------------------------------------------
\* The variables of every part keep their types.  Among them are limits of the
\* code: the figures that are captioned at once, the candidates that a resolver
\* passes on, the attempts to save a turn's memory.
AnswersTypeOK ==
    /\ ParsingTypeOK
    /\ FiguresTypeOK
    /\ RetrievalTypeOK
    /\ ResolverTypeOK
    /\ PeopleTypeOK
    /\ MemoryTypeOK
    /\ AnswerStreamTypeOK
    /\ TelegramTypeOK
=============================================================================
