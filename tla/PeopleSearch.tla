------------------------------ MODULE PeopleSearch ------------------------------
(***************************************************************************)
(* A person is looked up in several collections at once, each by a thread  *)
(* of its own that may find some records, be cut off, or lose the          *)
(* connection (services/people/mongo_people_service.py); the records are   *)
(* put together into profiles, and documents that mention the person are   *)
(* looked for (services/agents/people_agent.py).                           *)
(*                                                                         *)
(* Numbers, names and dates are model values; a name is found inside those *)
(* that Containing gives for it.                                           *)
(***************************************************************************)
EXTENDS Naturals, FiniteSets

CONSTANTS
    Schemas,             \* collections
    FieldsOf,            \* [collection |-> what it can be searched by]
    PersonRecords,       \* [id, schema, cccd, bhxh, phone, name, dob]
    Missing,             \* an attribute that a record does not have
    Containing,          \* [name |-> the names it is part of]
    Lookups,             \* [by |-> kind, values |-> {..}] or [by |-> "advanced", criteria]
    DocChunks,           \* chunks that a document search returns
    Mentioning,          \* [chunk |-> numbers and names in its text]
    PerSchema,           \* limit of each query
    MaxLookups,
    MaxMongoFaults       \* queries cut off or disconnected, searches that fail

\* An id names one record, and no date of birth reads like a phone number.
ASSUME PeopleAssumption ==
    /\ \A r \in PersonRecords : r.schema \in Schemas
    /\ \A r, q \in PersonRecords : r.id = q.id => r = q
    /\ \A r, q \in PersonRecords : r.dob # Missing => r.dob # q.phone
    /\ {PerSchema, MaxLookups} \subseteq Nat \ {0}
    /\ MaxMongoFaults \in Nat

VARIABLES
    lookup,              \* the request and its local variables
    mongoFaults

peopleVars == <<lookup, mongoFaults>>

NoLookup(n) ==
    [phase |-> "idle", runs |-> n, query |-> [by |-> "none"], asked |-> {}, waiting |-> {},
     found |-> {}, unavailable |-> FALSE, skipped |-> {}, cut |-> {}, answer |-> "none",
     profiles |-> {}, sources |-> {}]

\* skipped and cut are kept for the properties: the collections that were cut
\* off, and those with more records than the limit.
LookupStates ==
    [ phase       : {"idle", "searching", "documents", "over"},
      runs        : 0..MaxLookups,
      query       : Lookups \cup {[by |-> "none"]},
      asked       : SUBSET Schemas,
      waiting     : SUBSET Schemas,
      found       : SUBSET PersonRecords,
      unavailable : BOOLEAN,
      skipped     : SUBSET Schemas,
      cut         : SUBSET Schemas,
      answer      : {"none", "found", "not_found", "busy", "refused", "failed"},
      profiles    : SUBSET SUBSET PersonRecords,
      sources     : SUBSET DocChunks ]

PeopleTypeOK ==
    /\ lookup \in LookupStates
    /\ lookup.waiting \subseteq lookup.asked
    /\ mongoFaults \in 0..MaxMongoFaults

PeopleInit == lookup = NoLookup(0) /\ mongoFaults = 0

MongoWorks == mongoFaults' = mongoFaults
MongoFails == mongoFaults < MaxMongoFaults /\ mongoFaults' = mongoFaults + 1

-----------------------------------------------------------------------------
(* The queries.                                                            *)

\* What a collection supports of several criteria; the rest is left out.
Supported(s, criteria) == DOMAIN criteria \cap FieldsOf[s]

\* The collections that are asked.
Searchable(q) ==
    IF q.by = "advanced" THEN {s \in Schemas : Supported(s, q.criteria) # {}}
                         ELSE {s \in Schemas : q.by \in FieldsOf[s]}

HasValue(r, q) ==
    IF q.by = "name" THEN \E v \in q.values : r.name \in Containing[v] ELSE r[q.by] \in q.values

\* The records of s that a query matches: one of several values, or every
\* criterion that s supports.
MatchesIn(s, q) ==
    {r \in PersonRecords :
        /\ r.schema = s
        /\ IF q.by = "advanced" THEN \A f \in Supported(s, q.criteria) : r[f] = q.criteria[f]
                                ELSE HasValue(r, q)}

\* Several numbers are given room for each.
LimitFor(q) == IF q.by = "advanced" THEN PerSchema ELSE Cardinality(q.values) * PerSchema

\* people_agent_node: without the permission nothing is said to be found; the
\* criteria are read by a model, which may fail.
StartLookup ==
    /\ lookup.phase \in {"idle", "over"}
    /\ lookup.runs < MaxLookups
    /\ \E q \in Lookups, may \in BOOLEAN, read \in BOOLEAN :
          LET begun == [NoLookup(lookup.runs + 1) EXCEPT !.query = q]
          IN  /\ read \/ (may /\ q.by = "advanced")
              /\ IF read THEN MongoWorks ELSE MongoFails
              /\ lookup' =
                    IF ~may THEN [begun EXCEPT !.phase = "over", !.answer = "refused"]
                    ELSE IF ~read THEN [begun EXCEPT !.phase = "documents", !.answer = "failed"]
                    ELSE [begun EXCEPT !.phase = "searching", !.asked = Searchable(q),
                                       !.waiting = Searchable(q)]

\* _query_single_schema_sync
QuerySchema(s) ==
    /\ lookup.phase = "searching"
    /\ s \in lookup.waiting
    /\ LET all == MatchesIn(s, lookup.query)
           room == LimitFor(lookup.query)
           answered == [lookup EXCEPT !.waiting = @ \ {s}]
       IN  \/ /\ \E S \in SUBSET all :
                    /\ IF Cardinality(all) <= room THEN S = all ELSE Cardinality(S) = room
                    /\ lookup' = [answered EXCEPT
                           !.found = @ \cup S, !.cut = IF S = all THEN @ ELSE @ \cup {s}]
              /\ MongoWorks
           \* The server cuts a slow query off, or refuses it.
           \/ lookup' = [answered EXCEPT !.skipped = @ \cup {s}] /\ MongoFails
           \* The connection is lost.
           \/ lookup' = [answered EXCEPT !.unavailable = TRUE] /\ MongoFails

-----------------------------------------------------------------------------
(* The profiles.                                                           *)

\* Mutant: two records are one person's if the names are the same.
NamedAlike(r) == <<"name", r.name>>

\* _identity_key: a number of one's own; else the name with a date or a phone.
IdentityKey(r) ==
    IF r.cccd # Missing THEN <<"cccd", r.cccd>>
    ELSE IF r.bhxh # Missing THEN <<"bhxh", r.bhxh>>
    ELSE IF r.name # Missing THEN <<"np", r.name, IF r.dob # Missing THEN r.dob ELSE r.phone>>
    ELSE <<"id", r.id>>

\* _consolidate
Profiles(records) ==
    {{r \in records : IdentityKey(r) = IdentityKey(p)} : p \in records}

\* _gather_schemas: part of the collections is enough, if it has found something.
Outcome(records, unavailable) ==
    IF records # {} THEN "found" ELSE IF unavailable THEN "busy" ELSE "not_found"

\* When the system is busy the search ends there.
GatherSchemas ==
    /\ lookup.phase = "searching"
    /\ lookup.waiting = {}
    /\ LET answer == Outcome(lookup.found, lookup.unavailable)
       IN  lookup' = [lookup EXCEPT
              !.phase = IF answer = "busy" THEN "over" ELSE "documents",
              !.answer = answer,
              !.profiles = Profiles(lookup.found)]
    /\ MongoWorks

-----------------------------------------------------------------------------
(* The documents.                                                          *)

\* The numbers of the question and the names of the records.
Anchors ==
    (IF lookup.query.by \in {"cccd", "bhxh", "phone"} THEN lookup.query.values ELSE {})
        \cup ({r.name : r \in UNION lookup.profiles} \ {Missing})

\* _filter_relevant_sources: without an anchor, all are kept.
Relevant(chunks) ==
    IF Anchors = {} THEN chunks ELSE {c \in chunks : Mentioning[c] \cap Anchors # {}}

\* people_doc_search_node: a failure leaves the records' answer as it is.
SearchDocuments ==
    /\ lookup.phase = "documents"
    /\ \/ \E S \in SUBSET DocChunks :
             lookup' = [lookup EXCEPT !.phase = "over", !.sources = Relevant(S)]
          /\ MongoWorks
       \/ lookup' = [lookup EXCEPT !.phase = "over"] /\ MongoFails

PeopleNext ==
    \/ StartLookup
    \/ \E s \in Schemas : QuerySchema(s)
    \/ GatherSchemas
    \/ SearchDocuments

PeopleSpec == PeopleInit /\ [][PeopleNext]_peopleVars

-----------------------------------------------------------------------------
(* Properties.                                                             *)

\* Nobody is said not to exist while a collection could not be reached, whatever
\* order the collections answer in; and what others have found is still told.
AbsenceIsKnown ==
    lookup.answer = "not_found" => ~lookup.unavailable

ReachableIsShown ==
    lookup.answer = "found" =>
        \A r \in PersonRecords :
            /\ r \in MatchesIn(r.schema, lookup.query)
            /\ r.schema \in lookup.asked \ (lookup.skipped \cup lookup.cut)
            /\ ~lookup.unavailable
            => r \in UNION lookup.profiles

\* A profile is one person's: its records do not differ in a number of one's
\* own, nor, without one, in the date of birth; and one number has one profile.
ProfileIsOnePersons ==
    /\ \A P \in lookup.profiles : \A r, q \in P :
          /\ r.cccd = q.cccd
          /\ r.cccd = Missing => r.bhxh = q.bhxh
          /\ r.cccd = Missing /\ r.bhxh = Missing => r.dob = q.dob
    /\ \A P, Q \in lookup.profiles : P # Q =>
          \A r \in P, q \in Q : r.cccd = Missing \/ r.cccd # q.cccd

\* Where a number or a name is known, a document is shown only if it mentions one.
DocumentsMention ==
    Anchors # {} => \A c \in lookup.sources : Mentioning[c] \cap Anchors # {}

\* Without the permission nothing is shown.
RefusedIsSilent == lookup.answer = "refused" => lookup.found = {} /\ lookup.sources = {}

PeopleAreToldApart ==
    /\ AbsenceIsKnown
    /\ ReachableIsShown
    /\ ProfileIsOnePersons
    /\ DocumentsMention
    /\ RefusedIsSilent
=============================================================================
