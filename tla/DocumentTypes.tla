----------------------------- MODULE DocumentTypes -----------------------------
(***************************************************************************)
(* Document types and their prompts: api/document_types.py, and            *)
(* services/document_type_classifier.py, which seeds them when an API      *)
(* process starts and classifies documents by them in the parse worker.    *)
(*                                                                         *)
(* A request reads the rows it is about and writes them when it commits;   *)
(* a seed reads several and commits once.  Rows change at the commit.  A   *)
(* prompt's row is known by its type, its scope and the writer that        *)
(* inserted it: two rows of the global scope are possible, for the unique  *)
(* constraint on (document_type_id, workspace_id) does not bind NULLs.     *)
(*                                                                         *)
(* A request that is refused by what it reads changes nothing and is left  *)
(* out.  Names, descriptions and the deletion of workspaces are too.       *)
(***************************************************************************)
EXTENDS Naturals, FiniteSets

CONSTANTS
    DocTypes,        \* slugs
    DefaultTypes,    \* those of _DEFAULT_DOC_TYPES
    TypeSpaces,      \* workspaces
    Global,          \* the scope of a prompt whose workspace_id is NULL
    TypeRequests,    \* superadmins' requests, each made at most once
    TypeBoots,       \* API processes that start, each at most once
    Earlier,         \* the writer of the rows there are at the start
    PromptTexts,     \* prompts superadmins write
    Standard,        \* DEFAULT_SYSTEM_PROMPT or LEGAL_KG_SYSTEM_PROMPT
    NoText,          \* NULL
    NoRow,
    TypeProcesses,   \* parse workers, each with a cache of the types
    TypedDocuments,  \* documents they classify
    NoType

Scopes == TypeSpaces \cup {Global}
TypeWriters == TypeRequests \cup TypeBoots \cup {Earlier}

ASSUME DocumentTypesAssumption ==
    /\ DefaultTypes \subseteq DocTypes
    /\ DocTypes # {}
    /\ Global \notin TypeSpaces
    /\ TypeRequests \cap TypeBoots = {}
    /\ Earlier \notin TypeRequests \cup TypeBoots
    /\ NoRow \notin TypeWriters
    /\ {Standard, NoText} \cap PromptTexts = {}
    /\ Standard # NoText
    /\ NoType \notin DocTypes

VARIABLES
    docTypes,        \* [DocTypes -> the document_types row: is_active, or none]
    prompts,         \* [DocTypes \X Scopes \X TypeWriters -> the row, or NoPrompt]
    typeWork,        \* [TypeRequests -> what the request is about to write, and read]
    seed,            \* [TypeBoots -> how far the seed is, and what it read]
    typeCache,       \* [TypeProcesses -> the types in _cache, none before it is loaded]
    typedAs,         \* [TypedDocuments -> document_type_id, or NoType]
    wanted,          \* history: the prompts had every commit been the only one under way
    racedPrompts,    \* history: <<type, scope>> written by one that had read
                     \* before another wrote
    seeded           \* history: types a seed that committed had looked at

typeVars == <<docTypes, prompts, typeWork, seed, typeCache, typedAs,
              wanted, racedPrompts, seeded>>

Activity == {"absent", "active", "inactive"}

\* system_prompt and kg_system_prompt.
PromptRows == [text : PromptTexts \cup {Standard}, kg : PromptTexts \cup {Standard, NoText}]
NoPrompt == [text |-> NoText, kg |-> NoText]
StandardPrompt == [text |-> Standard, kg |-> Standard]

\* at names the endpoint of a request that has read and not yet committed.
RequestStates ==
    [ at    : {"idle", "create", "update", "set", "unset", "over"},
      type  : DocTypes,
      scope : Scopes,
      to    : Activity,                         \* what update writes
      new   : PromptRows,
      row   : TypeWriters \cup {NoRow},         \* the row set or unset read
      saw   : PromptRows \cup {NoPrompt},       \* and what was in it
      stale : BOOLEAN ]                         \* history: it was written since

SeedStates ==
    [ at      : {"idle", "read", "look", "over"},
      missing : SUBSET DocTypes,                \* types to insert
      todo    : SUBSET DocTypes,                \* types still to look at
      looked  : SUBSET DocTypes,
      fresh   : SUBSET DocTypes,                \* types to insert a prompt for
      bare    : SUBSET (DocTypes \X TypeWriters),   \* rows to set kg_system_prompt of
      stale   : SUBSET DocTypes ]               \* history: written since

DocumentTypesTypeOK ==
    /\ docTypes \in [DocTypes -> Activity]
    /\ prompts \in [DocTypes \X Scopes \X TypeWriters -> PromptRows \cup {NoPrompt}]
    /\ typeWork \in [TypeRequests -> RequestStates]
    /\ seed \in [TypeBoots -> SeedStates]
    /\ typeCache \in [TypeProcesses -> SUBSET DocTypes]
    /\ typedAs \in [TypedDocuments -> DocTypes \cup {NoType}]
    /\ wanted \in [DocTypes \X Scopes -> PromptRows \cup {NoPrompt}]
    /\ racedPrompts \in SUBSET (DocTypes \X Scopes)
    /\ seeded \in SUBSET DocTypes

IdleRequest ==
    [at |-> "idle", type |-> CHOOSE t \in DocTypes : TRUE, scope |-> Global,
     to |-> "absent", new |-> StandardPrompt, row |-> NoRow,
     saw |-> NoPrompt, stale |-> FALSE]

IdleSeed == [at |-> "idle", missing |-> {}, todo |-> {}, looked |-> {},
             fresh |-> {}, bare |-> {}, stale |-> {}]

\* Types of an older version may have no prompt, or one from before
\* kg_system_prompt.
DocumentTypesInit ==
    /\ docTypes \in [DocTypes -> {"absent", "active"}]
    /\ wanted \in [DocTypes \X Scopes -> {NoPrompt, [text |-> Standard, kg |-> NoText]}]
    /\ \A t \in DocTypes, s \in Scopes :
          wanted[<<t, s>>] # NoPrompt => s = Global /\ docTypes[t] # "absent"
    /\ prompts = [k \in DocTypes \X Scopes \X TypeWriters |->
                     IF k[3] = Earlier THEN wanted[<<k[1], k[2]>>] ELSE NoPrompt]
    /\ typeWork = [q \in TypeRequests |-> IdleRequest]
    /\ seed = [b \in TypeBoots |-> IdleSeed]
    /\ typeCache = [p \in TypeProcesses |-> {}]
    /\ typedAs = [d \in TypedDocuments |-> NoType]
    /\ racedPrompts = {}
    /\ seeded = {}

\* The rows that a SELECT on a type and a scope returns, by their writers.
RowsOf(t, s) == {w \in TypeWriters : prompts[<<t, s, w>>] # NoPrompt}

\* scalar_one_or_none: at most one row, or MultipleResultsFound.
OneOrNone(t, s) == \A v, w \in RowsOf(t, s) : v = w

RowRead(t, s) == IF RowsOf(t, s) = {} THEN NoRow ELSE CHOOSE w \in RowsOf(t, s) : TRUE

Touches(q, keys) ==
    typeWork[q].at \in {"set", "unset"} /\ <<typeWork[q].type, typeWork[q].scope>> \in keys

\* The writer is done, and what others read of the rows it wrote is stale.
OverOthersStale(w, keys) ==
    /\ typeWork' = [q \in TypeRequests |->
          IF q = w THEN [IdleRequest EXCEPT !.at = "over"]
          ELSE [typeWork[q] EXCEPT !.stale = @ \/ Touches(q, keys)]]
    /\ seed' = [b \in TypeBoots |->
          IF b = w THEN [IdleSeed EXCEPT !.at = "over"]
          ELSE [seed[b] EXCEPT
                   !.stale = @ \cup {t \in seed[b].looked : <<t, Global>> \in keys}]]

-----------------------------------------------------------------------------
(* Requests.                                                               *)

Reads(q, request) ==
    /\ typeWork[q].at = "idle"
    /\ typeWork' = [typeWork EXCEPT ![q] = request]
    /\ UNCHANGED <<docTypes, prompts, seed, typeCache, typedAs, wanted,
                   racedPrompts, seeded>>

\* create_document_type finds no such slug.
CreateReads(q, t) ==
    /\ docTypes[t] = "absent"
    /\ Reads(q, [IdleRequest EXCEPT !.at = "create", !.type = t])

\* It inserts the type and its prompt, unless the slug is taken by now.
CreateCommits(q) ==
    LET t == typeWork[q].type
    IN  /\ typeWork[q].at = "create"
        /\ docTypes[t] = "absent"
        /\ docTypes' = [docTypes EXCEPT ![t] = "active"]
        /\ prompts' = [prompts EXCEPT ![<<t, Global, q>>] = StandardPrompt]
        /\ wanted' = [wanted EXCEPT ![<<t, Global>>] = StandardPrompt]
        /\ OverOthersStale(q, {<<t, Global>>})
        /\ UNCHANGED <<typeCache, typedAs, racedPrompts, seeded>>

\* update_document_type with is_active, and deactivate_document_type: a value
\* that is the one read is not written.
ActivityReads(q, t, to) ==
    /\ docTypes[t] # "absent"
    /\ to \notin {"absent", docTypes[t]}
    /\ Reads(q, [IdleRequest EXCEPT !.at = "update", !.type = t, !.to = to])

ActivityCommits(q) ==
    /\ typeWork[q].at = "update"
    /\ docTypes' = [docTypes EXCEPT ![typeWork[q].type] = typeWork[q].to]
    /\ OverOthersStale(q, {})
    /\ UNCHANGED <<prompts, typeCache, typedAs, wanted, racedPrompts, seeded>>

\* set_global_system_prompt and set_workspace_system_prompt.
SetReads(q, t, s, new) ==
    /\ docTypes[t] # "absent"
    /\ OneOrNone(t, s)
    /\ LET r == RowRead(t, s)
       IN  Reads(q, [IdleRequest EXCEPT
                        !.at = "set", !.type = t, !.scope = s, !.new = new, !.row = r,
                        !.saw = IF r = NoRow THEN NoPrompt ELSE prompts[<<t, s, r>>]])

\* What becomes of a row: a value that is the one read is not written, and a
\* kg_system_prompt that is not given is left as it is.
Written(new, saw, now) ==
    [text |-> IF new.text = saw.text THEN now.text ELSE new.text,
     kg   |-> IF new.kg \in {NoText, saw.kg} THEN now.kg ELSE new.kg]

\* What the prompt is when this is the only request under way.
Applied(new, now) ==
    [text |-> new.text, kg |-> IF new.kg = NoText THEN now.kg ELSE new.kg]

PromptCommits(q, key, row, value, alone) ==
    /\ prompts' = [prompts EXCEPT ![<<key[1], key[2], row>>] = value]
    /\ wanted' = [wanted EXCEPT ![key] = alone]
    /\ racedPrompts' = IF typeWork[q].stale THEN racedPrompts \cup {key} ELSE racedPrompts
    /\ OverOthersStale(q, {key})
    /\ UNCHANGED <<docTypes, typeCache, typedAs, seeded>>

\* The row that was read is updated, if it is there still.
SetUpdates(q) ==
    LET work == typeWork[q]
        key == <<work.type, work.scope>>
        now == prompts[<<work.type, work.scope, work.row>>]
    IN  /\ work.at = "set"
        /\ work.row # NoRow
        /\ now # NoPrompt
        /\ PromptCommits(q, key, work.row, Written(work.new, work.saw, now),
                         Applied(work.new, wanted[key]))

\* None was read: a row is inserted.  The constraint binds workspaces only.
SetInserts(q) ==
    LET work == typeWork[q]
        key == <<work.type, work.scope>>
    IN  /\ work.at = "set"
        /\ work.row = NoRow
        /\ work.scope # Global => RowsOf(work.type, work.scope) = {}
        /\ PromptCommits(q, key, q, work.new, Applied(work.new, wanted[key]))

\* delete_workspace_system_prompt.
UnsetReads(q, t, s) ==
    /\ docTypes[t] # "absent"
    /\ s # Global
    /\ RowsOf(t, s) # {}
    /\ Reads(q, [IdleRequest EXCEPT !.at = "unset", !.type = t, !.scope = s,
                                    !.row = RowRead(t, s)])

UnsetCommits(q) ==
    LET work == typeWork[q]
    IN  /\ work.at = "unset"
        /\ PromptCommits(q, <<work.type, work.scope>>, work.row, NoPrompt, NoPrompt)

\* The commit fails, on a constraint, on a row that is gone, or with the
\* connection: nothing is written.
RequestFails(q) ==
    /\ typeWork[q].at \in {"create", "update", "set", "unset"}
    /\ OverOthersStale(q, {})
    /\ UNCHANGED <<docTypes, prompts, typeCache, typedAs, wanted, racedPrompts, seeded>>

-----------------------------------------------------------------------------
(* seed_document_types.                                                    *)

SeedGoes(b, state) ==
    /\ seed' = [seed EXCEPT ![b] = state]
    /\ UNCHANGED <<docTypes, prompts, typeWork, typeCache, typedAs, wanted,
                   racedPrompts, seeded>>

SeedReads(b) ==
    /\ seed[b].at = "idle"
    /\ SeedGoes(b, [seed[b] EXCEPT !.at = "read",
                       !.missing = {t \in DefaultTypes : docTypes[t] = "absent"}])

\* The missing types and their prompts are inserted, and the active ones read.
SeedLists(b) ==
    /\ seed[b].at = "read"
    /\ \A t \in seed[b].missing : docTypes[t] = "absent"
    /\ SeedGoes(b, [seed[b] EXCEPT !.at = "look",
                       !.todo = {t \in DocTypes : docTypes[t] = "active"}])

\* Mutant: the prompt for extraction is reset at every start.
AnyRow(row) == TRUE

\* Has a row no prompt for extraction?
Bare(row) == row.kg = NoText

SeedLooks(b, t) ==
    /\ seed[b].at = "look"
    /\ t \in seed[b].todo
    /\ OneOrNone(t, Global)
    /\ SeedGoes(b, [seed[b] EXCEPT
          !.todo = @ \ {t},
          !.looked = @ \cup {t},
          !.fresh = IF RowsOf(t, Global) = {} THEN @ \cup {t} ELSE @,
          !.bare = @ \cup ({t} \X {w \in RowsOf(t, Global) : Bare(prompts[<<t, Global, w>>])})])

\* One transaction: a slug that is taken by now fails it.
SeedCommits(b) ==
    LET new == seed[b].missing \cup seed[b].fresh
        written == new \cup {r[1] : r \in seed[b].bare}
    IN  /\ seed[b].at = "look"
        /\ seed[b].todo = {}
        /\ \A t \in seed[b].missing : docTypes[t] = "absent"
        /\ docTypes' = [t \in DocTypes |->
              IF t \in seed[b].missing THEN "active" ELSE docTypes[t]]
        /\ prompts' = [k \in DocTypes \X Scopes \X TypeWriters |->
              CASE k[2] = Global /\ k[3] = b /\ k[1] \in new -> StandardPrompt
                [] k[2] = Global /\ <<k[1], k[3]>> \in seed[b].bare ->
                      [prompts[k] EXCEPT !.kg = Standard]
                [] OTHER -> prompts[k]]
        /\ wanted' = [k \in DocTypes \X Scopes |->
              IF k[2] # Global \/ k[1] \notin seed[b].missing \cup seed[b].looked THEN wanted[k]
              ELSE IF wanted[k] = NoPrompt THEN StandardPrompt
              ELSE IF wanted[k].kg = NoText THEN [wanted[k] EXCEPT !.kg = Standard]
              ELSE wanted[k]]
        /\ racedPrompts' = racedPrompts \cup ((seed[b].stale \cap written) \X {Global})
        /\ seeded' = seeded \cup seed[b].missing \cup seed[b].looked
        /\ OverOthersStale(b, written \X {Global})
        /\ UNCHANGED <<typeCache, typedAs>>

\* Rolled back: on a slug, on two prompts of a type, or with the connection.
\* The process starts all the same.
SeedFails(b) ==
    /\ seed[b].at \in {"read", "look"}
    /\ SeedGoes(b, [IdleSeed EXCEPT !.at = "over"])

-----------------------------------------------------------------------------
(* Classification, in the parse worker.                                    *)

\* get_all_document_types, before the first use and whenever
\* _CACHE_TTL_SECONDS are over: the active types, or the defaults if the
\* database does not answer.
LoadTypes(p) ==
    /\ \E offered \in {{t \in DocTypes : docTypes[t] = "active"}, DefaultTypes} :
          typeCache' = [typeCache EXCEPT ![p] = offered]
    /\ UNCHANGED <<docTypes, prompts, typeWork, seed, typedAs, wanted,
                   racedPrompts, seeded>>

\* The model names one of the types it was offered, and its row is looked up.
\* If it names none, or the row is not active, the document keeps what it has.
ClassifyAs(p, d, t) ==
    /\ t \in typeCache[p]
    /\ docTypes[t] = "active"
    /\ typedAs' = [typedAs EXCEPT ![d] = t]
    /\ UNCHANGED <<docTypes, prompts, typeWork, seed, typeCache, wanted,
                   racedPrompts, seeded>>

-----------------------------------------------------------------------------
DocumentTypesNext ==
    \/ \E q \in TypeRequests :
          \/ \E t \in DocTypes :
                \/ CreateReads(q, t)
                \/ \E to \in Activity : ActivityReads(q, t, to)
                \/ \E s \in Scopes :
                      \/ UnsetReads(q, t, s)
                      \/ \E text \in PromptTexts, kg \in PromptTexts \cup {NoText} :
                            SetReads(q, t, s, [text |-> text, kg |-> kg])
          \/ CreateCommits(q)
          \/ ActivityCommits(q)
          \/ SetUpdates(q)
          \/ SetInserts(q)
          \/ UnsetCommits(q)
          \/ RequestFails(q)
    \/ \E b \in TypeBoots :
          \/ SeedReads(b)
          \/ SeedLists(b)
          \/ \E t \in DocTypes : SeedLooks(b, t)
          \/ SeedCommits(b)
          \/ SeedFails(b)
    \/ \E p \in TypeProcesses :
          \/ LoadTypes(p)
          \/ \E d \in TypedDocuments, t \in DocTypes : ClassifyAs(p, d, t)

DocumentTypesSpec == DocumentTypesInit /\ [][DocumentTypesNext]_typeVars

-----------------------------------------------------------------------------
(* What readers of the prompts get.                                        *)

\* The prompt of a chat in a workspace whose documents are mostly of a type,
\* NoText for the workspace's own.  Two rows are an error, and that is caught.
ChatPrompt(t, s) ==
    CASE RowsOf(t, s) # {} -> prompts[<<t, s, RowRead(t, s)>>].text
      [] RowsOf(t, s) = {} /\ RowsOf(t, Global) # {} /\ OneOrNone(t, Global) ->
            prompts[<<t, Global, RowRead(t, Global)>>].text
      [] OTHER -> NoText

\* The prompt for extraction from a document of a type, NoText for the default.
KgPrompt(t) ==
    IF RowsOf(t, Global) # {} /\ OneOrNone(t, Global)
    THEN prompts[<<t, Global, RowRead(t, Global)>>].kg
    ELSE NoText

-----------------------------------------------------------------------------
(* Properties.                                                             *)

\* A type's prompts are what superadmins and seeds made them, through any
\* interleaving of requests, starts and failures, as long as none of them wrote
\* what another had written since it read: chats and extraction then get the
\* workspace's prompt before the global one, a seed fills in what is missing
\* and never replaces what a superadmin wrote, and a type that a seed looked at
\* keeps a prompt for extraction.  And the type a document is given exists,
\* whatever the worker's cache offered.
PromptsAreAsWritten ==
    /\ \A t \in DocTypes, s \in TypeSpaces :
          <<t, s>> \notin racedPrompts /\ <<t, Global>> \notin racedPrompts =>
             ChatPrompt(t, s) = IF wanted[<<t, s>>] # NoPrompt THEN wanted[<<t, s>>].text
                                ELSE wanted[<<t, Global>>].text
    /\ \A t \in DocTypes : <<t, Global>> \notin racedPrompts =>
          /\ KgPrompt(t) = wanted[<<t, Global>>].kg
          /\ t \in seeded => KgPrompt(t) # NoText
    /\ \A d \in TypedDocuments : typedAs[d] # NoType => docTypes[typedAs[d]] # "absent"
=============================================================================
