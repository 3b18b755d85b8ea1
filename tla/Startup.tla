-------------------------------- MODULE Startup --------------------------------
(***************************************************************************)
(* The start of API processes against one database: the lifespan of        *)
(* main.py, with AUTO_CREATE_TABLES, which migrates the schema and its     *)
(* rows in one transaction and then fills in what an older version lacks.  *)
(*                                                                         *)
(* A failure of the migration ends the process; each later step is tried,  *)
(* and its failure logged.  The document types it seeds are modelled in    *)
(* DocumentTypes; what the process warms up afterwards, models and         *)
(* connections, is kept in no table and left out.                          *)
(***************************************************************************)
EXTENDS Naturals, FiniteSets

CONSTANTS
    Starts,          \* starts of a process, each made at most once
    StartDocuments,
    StartSpaces,     \* workspaces
    StartMessages    \* chat messages of an older version

VARIABLES
    schema,          \* what of the schema is committed
    document,        \* [StartDocuments -> the row of documents]
    space,           \* [StartSpaces -> the row of knowledge_bases]
    message,         \* [StartMessages -> what the message belongs to]
    admin,           \* the row of FIRST_SUPERADMIN_EMAIL
    start,           \* [Starts -> how far the start is, and what it read]
    finished,        \* history: documents processed by this version
    chosen           \* history: visibility as an owner or a superadmin set it

startVars == <<schema, document, space, message, admin, start, finished, chosen>>

Visibilities == {"personal", "tenant", "public"}

AdminRows == [there : BOOLEAN, active : BOOLEAN, super : BOOLEAN]
NoAdmin == [there |-> FALSE, active |-> FALSE, super |-> FALSE]
EnsuredAdmin == [there |-> TRUE, active |-> TRUE, super |-> TRUE]

\* A legacy status is one of the values from before values_callable, flags
\* are embed_done, captions_done and kg_done, and the markdown is in a
\* column, in an object of MinIO, or nowhere.
DocumentRows ==
    [ status   : {"none", "legacy", "current"},
      flags    : {"missing", "false", "true"},
      markdown : {"column", "object", "nowhere"} ]

SpaceRows ==
    [there : BOOLEAN, owned : BOOLEAN, visibility : Visibilities \cup {"missing"}]

StartStates ==
    [ at       : {"idle", "create", "buckets", "admin", "ensure", "publish", "columns",
                  "serving", "down"},
      tables   : BOOLEAN,      \* create_all found the tables
      upgraded : BOOLEAN,      \* history: another start had left all of the schema
      saw      : AdminRows,    \* the administrator's row as read
      changed  : BOOLEAN,      \* history: the administrator changed it since
      failed   : SUBSET {"admin", "publish"} ]      \* history: steps that failed

\* keys: the columns that refer to other tables (owner_id, document_type_id and
\* the like).  enum: documentstatus has its lower-case values.  users:
\* avatar_url and the columns of two-factor sign-in.
StartupTypeOK ==
    /\ schema \in [tables : BOOLEAN, keys : BOOLEAN, enum : BOOLEAN, users : BOOLEAN,
                   buckets : BOOLEAN]
    /\ document \in [StartDocuments -> DocumentRows]
    /\ space \in [StartSpaces -> SpaceRows]
    /\ message \in [StartMessages -> {"none", "workspace", "nothing"}]
    /\ admin \in AdminRows
    /\ start \in [Starts -> StartStates]
    /\ finished \in SUBSET StartDocuments
    /\ chosen \in [StartSpaces -> Visibilities \cup {"missing"}]

\* The database is empty, or it is one of an older version.
StartupInit ==
    /\ \E legacy \in BOOLEAN :
          /\ \E keys \in BOOLEAN :
                /\ keys => legacy
                /\ schema = [tables |-> legacy, keys |-> keys, enum |-> FALSE,
                             users |-> FALSE, buckets |-> FALSE]
          /\ document = [d \in StartDocuments |->
                [status |-> IF legacy THEN "legacy" ELSE "none",
                 flags |-> "missing",
                 markdown |-> IF legacy THEN "column" ELSE "nowhere"]]
          /\ \E old \in SUBSET StartSpaces :
                /\ old # {} => legacy
                /\ space = [s \in StartSpaces |->
                      [there |-> s \in old, owned |-> FALSE, visibility |-> "missing"]]
          /\ message = [m \in StartMessages |-> IF legacy THEN "workspace" ELSE "none"]
          /\ admin \in {NoAdmin, [there |-> legacy, active |-> FALSE, super |-> FALSE]}
    /\ start = [b \in Starts |->
          [at |-> "idle", tables |-> FALSE, upgraded |-> FALSE, saw |-> NoAdmin,
           changed |-> FALSE, failed |-> {}]]
    /\ finished = {}
    /\ chosen = [s \in StartSpaces |-> "missing"]

To(b, at) == start' = [start EXCEPT ![b].at = at]

-----------------------------------------------------------------------------
(* The migration.                                                          *)

\* create_all looks which tables there are.
LooksForTables(b) ==
    /\ start[b].at = "idle"
    /\ start' = [start EXCEPT ![b] = [@ EXCEPT
          !.at = "create",
          !.tables = schema.tables,
          !.upgraded = schema.tables /\ schema.enum /\ schema.users]]
    /\ UNCHANGED <<schema, document, space, message, admin, finished, chosen>>

\* chat_messages loses its workspace_id: older messages get no session.
MessageColumns(where) == IF where = "workspace" THEN "nothing" ELSE where

\* documents gets its flags, FALSE, and markdown_s3_key instead of
\* markdown_content: what that held is not copied.
DocumentColumns(row) ==
    [row EXCEPT !.flags = IF row.status # "none" /\ @ = "missing" THEN "false" ELSE @,
                !.markdown = IF @ = "column" THEN "nowhere" ELSE @]

\* knowledge_bases gets visibility, 'personal', also where owner_id is NULL.
SpaceColumns(row) ==
    [row EXCEPT !.visibility = IF row.there /\ @ = "missing" THEN "personal" ELSE @]

\* Can the values of documentstatus be used?  Those this transaction adds
\* cannot, before it commits, unless it created the type itself.
StatusesUsable(b) == schema.enum \/ ~start[b].tables

\* The statuses are brought to lower case, all of them or none: an exception
\* undoes the block and is ignored.
StatusMigrated(b, row) ==
    [row EXCEPT !.status = IF @ = "legacy" /\ StatusesUsable(b) THEN "current" ELSE @]

\* Transactions that migrate wait for one another at the first table they alter.
\* The columns that refer to other tables would be added as INTEGER and
\* VARCHAR, which cannot refer to ids that are UUIDs.
Migrates(b) ==
    /\ start[b].at = "create"
    /\ start[b].tables = schema.tables
    /\ schema.tables => schema.keys
    /\ schema' = [schema EXCEPT !.tables = TRUE, !.keys = TRUE, !.enum = TRUE,
                                !.users = @ \/ ~start[b].tables]
    /\ document' = [d \in StartDocuments |-> StatusMigrated(b, DocumentColumns(document[d]))]
    /\ space' = [s \in StartSpaces |-> SpaceColumns(space[s])]
    /\ message' = [m \in StartMessages |-> MessageColumns(message[m])]
    /\ To(b, "buckets")
    /\ UNCHANGED <<admin, finished, chosen>>

\* Tables that another start has created meanwhile, columns that cannot be
\* added, or the connection: the process ends.
MigrationFails(b) ==
    /\ start[b].at = "create"
    /\ To(b, "down")
    /\ UNCHANGED <<schema, document, space, message, admin, finished, chosen>>

-----------------------------------------------------------------------------
(* The steps after it.                                                     *)

EnsureBuckets(b) ==
    /\ start[b].at = "buckets"
    /\ schema' = [schema EXCEPT !.buckets = TRUE]
    /\ To(b, "admin")
    /\ UNCHANGED <<document, space, message, admin, finished, chosen>>

\* The query names every column of users.
AdminReads(b) ==
    /\ start[b].at = "admin"
    /\ schema.users
    /\ start' = [start EXCEPT ![b].at = "ensure", ![b].saw = admin, ![b].changed = FALSE]
    /\ UNCHANGED <<schema, document, space, message, admin, finished, chosen>>

\* A flag that was read as set is not written.
Ensured(saw) ==
    [there  |-> TRUE,
     active |-> IF saw.active THEN admin.active ELSE TRUE,
     super  |-> IF saw.super THEN admin.super ELSE TRUE]

\* An account that was not there is inserted, unless it is there by now.
AdminCommits(b) ==
    /\ start[b].at = "ensure"
    /\ ~start[b].saw.there => ~admin.there
    /\ admin' = IF start[b].saw.there THEN Ensured(start[b].saw) ELSE EnsuredAdmin
    /\ To(b, "publish")
    /\ UNCHANGED <<schema, document, space, message, finished, chosen>>

\* Mutant: owner_id IS NULL is forgotten.
PersonalSpace(row) == row.visibility = "personal"

Ownerless(row) == ~row.owned /\ row.visibility = "personal"

\* Workspaces from before there were owners become public.
PublishOwnerless(b) ==
    /\ start[b].at = "publish"
    /\ space' = [s \in StartSpaces |->
          IF Ownerless(space[s]) THEN [space[s] EXCEPT !.visibility = "public"] ELSE space[s]]
    /\ To(b, "columns")
    /\ UNCHANGED <<schema, document, message, admin, finished, chosen>>

AddUserColumns(b) ==
    /\ start[b].at = "columns"
    /\ schema' = [schema EXCEPT !.users = TRUE]
    /\ To(b, "serving")
    /\ UNCHANGED <<document, space, message, admin, finished, chosen>>

\* "non-fatal": the start goes on without the step.
StepFails(b) ==
    /\ \E step \in {<<"buckets", "admin", {}>>, <<"admin", "publish", {"admin"}>>,
                    <<"ensure", "publish", {"admin"}>>, <<"publish", "columns", {"publish"}>>,
                    <<"columns", "serving", {}>>} :
          /\ start[b].at = step[1]
          /\ start' = [start EXCEPT ![b].at = step[2], ![b].failed = @ \cup step[3]]
    /\ UNCHANGED <<schema, document, space, message, admin, finished, chosen>>

ShutDown(b) ==
    /\ start[b].at = "serving"
    /\ To(b, "down")
    /\ UNCHANGED <<schema, document, space, message, admin, finished, chosen>>

-----------------------------------------------------------------------------
(* What is done with the database meanwhile.                               *)

\* Requests read the user who makes them.
Serving == schema.users /\ \E b \in Starts : start[b].at = "serving"

\* The worker indexes a document: a status it does not know cannot be loaded.
IndexDocument(d) ==
    /\ Serving
    /\ document[d].status # "legacy"
    /\ document' = [document EXCEPT ![d] =
          [status |-> "current", flags |-> "true", markdown |-> "object"]]
    /\ finished' = finished \cup {d}
    /\ UNCHANGED <<schema, space, message, admin, start, chosen>>

\* create_workspace, by its owner.
CreateSpace(s, visibility) ==
    /\ Serving
    /\ ~space[s].there
    /\ space' = [space EXCEPT ![s] = [there |-> TRUE, owned |-> TRUE, visibility |-> visibility]]
    /\ chosen' = [chosen EXCEPT ![s] = visibility]
    /\ UNCHANGED <<schema, document, message, admin, start, finished>>

\* update_workspace, by a superadmin.
SetVisibility(s, visibility) ==
    /\ Serving
    /\ space[s].there
    /\ space' = [space EXCEPT ![s].visibility = visibility]
    /\ chosen' = [chosen EXCEPT ![s] = visibility]
    /\ UNCHANGED <<schema, document, message, admin, start, finished>>

\* Nobody but the administrator may (update_user).
DeactivateAdmin ==
    /\ Serving
    /\ admin = EnsuredAdmin
    /\ admin' = [admin EXCEPT !.active = FALSE]
    /\ start' = [b \in Starts |-> [start[b] EXCEPT !.changed = TRUE]]
    /\ UNCHANGED <<schema, document, space, message, finished, chosen>>

StartupNext ==
    \/ \E b \in Starts :
          \/ LooksForTables(b)
          \/ Migrates(b)
          \/ MigrationFails(b)
          \/ EnsureBuckets(b)
          \/ AdminReads(b)
          \/ AdminCommits(b)
          \/ PublishOwnerless(b)
          \/ AddUserColumns(b)
          \/ StepFails(b)
          \/ ShutDown(b)
    \/ \E d \in StartDocuments : IndexDocument(d)
    \/ \E s \in StartSpaces, visibility \in Visibilities :
          CreateSpace(s, visibility) \/ SetVisibility(s, visibility)
    \/ DeactivateAdmin

StartupSpec == StartupInit /\ [][StartupNext]_startVars

-----------------------------------------------------------------------------
(* Properties.                                                             *)

\* Started over and over, several at once, with steps failing in between,
\* processes bring a database of any version to this one and leave alone what
\* this one wrote.  A start on a database whose schema another had completed
\* leaves no legacy status (main.py:437).  Where the step did not fail, a start
\* leaves an active administrator (main.py:613), but for one who deactivated the
\* account since, and no workspace personal that nobody owns, but by choice.  A
\* document that was indexed stays so, and what somebody owns is as visible as
\* it was set to be.
StartsUpgradeInPlace ==
    /\ \A b \in Starts : start[b].at = "serving" =>
          /\ start[b].upgraded => \A d \in StartDocuments : document[d].status # "legacy"
          /\ "admin" \notin start[b].failed =>
                admin.there /\ (admin = EnsuredAdmin \/ start[b].changed)
          /\ "publish" \notin start[b].failed =>
                \A s \in StartSpaces : Ownerless(space[s]) => chosen[s] = "personal"
    /\ \A d \in finished :
          document[d] = [status |-> "current", flags |-> "true", markdown |-> "object"]
    /\ \A s \in StartSpaces :
          space[s].owned => space[s].there /\ space[s].visibility = chosen[s]
=============================================================================
