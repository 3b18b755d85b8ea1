-------------------------------- MODULE Requests --------------------------------
(***************************************************************************)
(* What requests and the work they start do, side by side: chat sessions,  *)
(* documents, dead letters, validity, the lexical index, the knowledge     *)
(* graph, memberships, the answering loop, document types, accounts, and   *)
(* the start of the processes that serve them.                             *)
(*                                                                         *)
(* As in Processes a behaviour follows one of them, the one in focus: they *)
(* share no state that these modules model.                                *)
(***************************************************************************)
EXTENDS ChatStreams, Documents, DeadLetters, Validity,
        SearchIndex, KnowledgeGraph, Membership, ReactLoop, DocumentTypes,
        Accounts, Startup

VARIABLE focus

requestsVars == <<focus, chatVars, documentsVars, deadLetterVars, validityVars,
                  indexVars, knowledgeGraphVars, memberVars, reactVars,
                  typeVars, accountVars, startVars>>

\* The parts at rest begin in one of their initial states.
RequestsInit ==
    /\ focus \in {"chat", "documents", "dead_letters", "validity",
                 "index", "graph", "members", "react", "types", "accounts", "startup"}
    /\ ChatInit
    /\ DocumentsInit
    /\ DeadLettersInit
    /\ ValidityInit
    /\ SearchIndexInit
    /\ KnowledgeGraphInit
    /\ MembershipInit
    /\ ReactLoopInit
    /\ DocumentTypesInit
    /\ AccountsInit
    /\ StartupInit
    /\ focus # "documents" => reach = "none" /\ ~webhook
    /\ focus # "index" => corpus = {}
    /\ focus # "members" => \A u \in TenantUsers : member[u] = "none"
    /\ focus # "members" => link.max_uses = CHOOSE n \in MaxUsesValues : TRUE
    /\ focus # "react" => ~loop.judge_on /\ ~loop.planned /\ ~loop.attached
    /\ focus # "types" => \A t \in DocTypes : docTypes[t] = "absent"
    /\ focus # "startup" => ~schema.tables

\* A step of the part in focus leaves the others at rest.
Step(part, Next) == focus = part /\ Next /\ UNCHANGED focus

RequestsNext ==
    \/ Step("chat", ChatNext)
         /\ UNCHANGED <<documentsVars, deadLetterVars, validityVars, indexVars,
                       knowledgeGraphVars, memberVars, reactVars, typeVars,
                       accountVars, startVars>>
    \/ Step("documents", DocumentsNext)
         /\ UNCHANGED <<chatVars, deadLetterVars, validityVars, indexVars,
                       knowledgeGraphVars, memberVars, reactVars, typeVars,
                       accountVars, startVars>>
    \/ Step("dead_letters", DeadLettersNext)
         /\ UNCHANGED <<chatVars, documentsVars, validityVars, indexVars,
                       knowledgeGraphVars, memberVars, reactVars, typeVars,
                       accountVars, startVars>>
    \/ Step("validity", ValidityNext)
         /\ UNCHANGED <<chatVars, documentsVars, deadLetterVars, indexVars,
                       knowledgeGraphVars, memberVars, reactVars, typeVars,
                       accountVars, startVars>>
    \/ Step("index", SearchIndexNext)
         /\ UNCHANGED <<chatVars, documentsVars, deadLetterVars, validityVars,
                       knowledgeGraphVars, memberVars, reactVars, typeVars,
                       accountVars, startVars>>
    \/ Step("graph", KnowledgeGraphNext)
         /\ UNCHANGED <<chatVars, documentsVars, deadLetterVars, validityVars,
                       indexVars, memberVars, reactVars, typeVars, accountVars,
                       startVars>>
    \/ Step("members", MembershipNext)
         /\ UNCHANGED <<chatVars, documentsVars, deadLetterVars, validityVars,
                       indexVars, knowledgeGraphVars, reactVars, typeVars,
                       accountVars, startVars>>
    \/ Step("react", ReactLoopNext)
         /\ UNCHANGED <<chatVars, documentsVars, deadLetterVars, validityVars,
                       indexVars, knowledgeGraphVars, memberVars, typeVars,
                       accountVars, startVars>>
    \/ Step("types", DocumentTypesNext)
         /\ UNCHANGED <<chatVars, documentsVars, deadLetterVars, validityVars,
                       indexVars, knowledgeGraphVars, memberVars, reactVars,
                       accountVars, startVars>>
    \/ Step("accounts", AccountsNext)
         /\ UNCHANGED <<chatVars, documentsVars, deadLetterVars, validityVars,
                       indexVars, knowledgeGraphVars, memberVars, reactVars,
                       typeVars, startVars>>
    \/ Step("startup", StartupNext)
         /\ UNCHANGED <<chatVars, documentsVars, deadLetterVars, validityVars,
                       indexVars, knowledgeGraphVars, memberVars, reactVars,
                       typeVars, accountVars>>

RequestsSpec == RequestsInit /\ [][RequestsNext]_requestsVars

-----------------------------------------------------------------------------
\* The variables of every part keep their types.  Among them is a limit the
\* code keeps by counting: the tool turns of the answering loop.
RequestsTypeOK ==
    /\ ChatTypeOK
    /\ DocumentsTypeOK
    /\ DeadLettersTypeOK
    /\ ValidityTypeOK
    /\ SearchIndexTypeOK
    /\ KnowledgeGraphTypeOK
    /\ MembershipTypeOK
    /\ ReactLoopTypeOK
    /\ DocumentTypesTypeOK
    /\ AccountsTypeOK
    /\ StartupTypeOK
=============================================================================
