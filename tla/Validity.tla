------------------------------- MODULE Validity -------------------------------
(***************************************************************************)
(* Whether a legal document is in force: apply_validity of                 *)
(* backend/app/services/legal/validity_service.py, called by parse_worker  *)
(* for each document.  A document declares that others are replaced (full) *)
(* or amended (partial); the declaration must take effect whichever of the *)
(* two is parsed first.  Sessions read what others have committed and      *)
(* write at their own commit (no autoflush, READ COMMITTED).               *)
(***************************************************************************)
EXTENDS Naturals, FiniteSets

CONSTANTS
    LegalDocuments,   \* documents of one workspace, each with its number
    Declares,         \* [LegalDocuments -> set of <<document, scope>>]
    MaxFailedExtracts \* bound on classifications and extractions that raise

ASSUME ValidityAssumption ==
    /\ Declares \in [LegalDocuments -> SUBSET (LegalDocuments \X {"full", "partial"})]
    /\ MaxFailedExtracts \in Nat

VARIABLES
    parse,          \* [LegalDocuments -> how far parse_worker is]
    loaded,         \* [LegalDocuments -> status of its own row when it was read]
    mine,           \* [LegalDocuments -> the same in the session, not yet written]
    marks,          \* [LegalDocuments -> the status it will write of each other document]
    validityStatus, \* [LegalDocuments -> committed validity_status]
    numbered,       \* documents whose document_number is committed
    declared,       \* documents whose validity_events are committed
    failedExtracts, \* documents whose extraction failed
    overlapped      \* pairs that applied their validity at the same time

validityVars == <<parse, loaded, mine, marks, validityStatus, numbered, declared,
                  failedExtracts, overlapped>>

Statuses == {"unknown", "effective", "partially_amended", "superseded"}
Applying == {"extracted", "forwarded", "scanned"}

ValidityTypeOK ==
    /\ parse \in [LegalDocuments -> {"new", "loaded", "numbered", "done"} \cup Applying]
    /\ {loaded, mine} \subseteq [LegalDocuments -> Statuses]
    /\ marks \in [LegalDocuments -> [LegalDocuments -> Statuses \cup {"unwritten"}]]
    /\ validityStatus \in [LegalDocuments -> Statuses]
    /\ {numbered, declared, failedExtracts} \subseteq SUBSET LegalDocuments
    /\ overlapped \subseteq SUBSET LegalDocuments

ValidityInit ==
    /\ parse = [d \in LegalDocuments |-> "new"]
    /\ loaded = [d \in LegalDocuments |-> "unknown"]
    /\ mine = loaded
    /\ marks = [d \in LegalDocuments |-> [o \in LegalDocuments |-> "unwritten"]]
    /\ validityStatus = [d \in LegalDocuments |-> "unknown"]
    /\ numbered = {}
    /\ declared = {}
    /\ failedExtracts = {}
    /\ overlapped = {}

ParseGoes(d, place) == parse' = [parse EXCEPT ![d] = place]

\* What d declares of o.
DeclaredOf(d, o) == {scope \in {"full", "partial"} : <<o, scope>> \in Declares[d]}

\* _mark_target for each of some declarations of one document, in any order:
\* partial never overwrites superseded.
Marked(status, scopes) ==
    IF scopes = {} THEN status
    ELSE IF "full" \in scopes \/ status = "superseded" THEN "superseded"
                                                       ELSE "partially_amended"

\* parse_worker reads the row.
LoadsDocument(d) ==
    /\ parse[d] = "new"
    /\ ParseGoes(d, "loaded")
    /\ loaded' = [loaded EXCEPT ![d] = validityStatus[d]]
    /\ mine' = [mine EXCEPT ![d] = validityStatus[d]]
    /\ UNCHANGED <<marks, validityStatus, numbered, declared, failedExtracts, overlapped>>

\* The classifier's document_number is committed.
CommitsNumber(d) ==
    /\ parse[d] = "loaded"
    /\ ParseGoes(d, "numbered")
    /\ numbered' = numbered \cup {d}
    /\ UNCHANGED <<loaded, mine, marks, validityStatus, declared, failedExtracts, overlapped>>

Unnumbered == {d \in LegalDocuments : parse[d] \notin {"new", "loaded"}} \ numbered

ParseFault == Cardinality(failedExtracts) + Cardinality(Unnumbered) < MaxFailedExtracts

\* The classifier fails, which is not fatal: there is no number.
ClassifierFails(d) ==
    /\ parse[d] = "loaded"
    /\ ParseFault
    /\ ParseGoes(d, "numbered")
    /\ UNCHANGED <<loaded, mine, marks, validityStatus, numbered, declared, failedExtracts, overlapped>>

\* extract_validity: the declarations, and the date if the text has one.
ExtractsValidity(d) ==
    /\ parse[d] = "numbered"
    /\ ParseGoes(d, "extracted")
    /\ \E dated \in BOOLEAN :
          mine' = [mine EXCEPT ![d] = IF dated /\ @ = "unknown" THEN "effective" ELSE @]
    /\ overlapped' = overlapped \cup {{d, o} : o \in {x \in LegalDocuments : parse[x] \in Applying}}
    /\ UNCHANGED <<loaded, marks, validityStatus, numbered, declared, failedExtracts>>

ExtractFails(d) ==
    /\ parse[d] = "numbered"
    /\ ParseFault
    /\ failedExtracts' = failedExtracts \cup {d}
    /\ ParseGoes(d, "done")
    /\ UNCHANGED <<loaded, mine, marks, validityStatus, numbered, declared, overlapped>>

\* The session writes a status it changed.
Write(before, after) == IF after = before THEN "unwritten" ELSE after

\* Forward: the declared documents that are there already are marked.
MarksTargets(d) ==
    /\ parse[d] = "extracted"
    /\ ParseGoes(d, "forwarded")
    /\ marks' = [marks EXCEPT ![d] = [o \in LegalDocuments |->
          IF o \in numbered \ {d}
          THEN Write(validityStatus[o], Marked(validityStatus[o], DeclaredOf(d, o)))
          ELSE "unwritten"]]
    /\ UNCHANGED <<loaded, mine, validityStatus, numbered, declared, failedExtracts, overlapped>>

\* Mutant: only the forward direction.
DeclarationsAgainstNone(d) == {}

\* What the documents that are there declare of d, by its number.
DeclarationsAgainst(d) ==
    IF d \in numbered THEN UNION {DeclaredOf(o, d) : o \in declared \ {d}} ELSE {}

\* Backward: declarations that were there before d.
ScansDeclarations(d) ==
    /\ parse[d] = "forwarded"
    /\ ParseGoes(d, "scanned")
    /\ mine' = [mine EXCEPT ![d] = Marked(@, DeclarationsAgainst(d))]
    /\ UNCHANGED <<loaded, marks, validityStatus, numbered, declared, failedExtracts, overlapped>>

\* What the session of d writes of t: of itself what it changed since it was
\* read, of the others the marks.
WritesOf(d, t) == IF t = d THEN Write(loaded[d], mine[d]) ELSE marks[d][t]

\* The commit writes them, and the declarations.
CommitsValidity(d) ==
    /\ parse[d] = "scanned"
    /\ ParseGoes(d, "done")
    /\ declared' = declared \cup {d}
    /\ validityStatus' = [t \in LegalDocuments |->
          IF WritesOf(d, t) = "unwritten" THEN validityStatus[t] ELSE WritesOf(d, t)]
    /\ UNCHANGED <<loaded, mine, marks, numbered, failedExtracts, overlapped>>

ValidityNext ==
    \E d \in LegalDocuments :
        \/ LoadsDocument(d)
        \/ CommitsNumber(d)
        \/ ClassifierFails(d)
        \/ ExtractsValidity(d)
        \/ ExtractFails(d)
        \/ MarksTargets(d)
        \/ ScansDeclarations(d)
        \/ CommitsValidity(d)

ValiditySpec == ValidityInit /\ [][ValidityNext]_validityVars

-----------------------------------------------------------------------------
\* Documents that declare something of o.
Declarers(o) == {d \in LegalDocuments \ {o} : DeclaredOf(d, o) # {}}

\* No two of the documents that write o's status did so at the same time.
OneAtATime(o) ==
    \A x, y \in Declarers(o) \cup {o} : x # y => {x, y} \notin overlapped

\* A declaration takes effect whichever document is parsed first ("both
\* directions of time", validity_service.py:5), and a partial amendment never
\* undoes a replacement, unless two documents that write the status apply their
\* validity at the same time: then a declaration may be missed or overwritten.
DeclarationsTakeEffect ==
    \A o \in LegalDocuments :
        LET parsed == {d \in Declarers(o) : parse[d] = "done"}
            scopes == UNION {DeclaredOf(d, o) : d \in parsed}
        IN  (/\ parse[o] = "done" /\ o \in numbered
             /\ scopes # {}
             /\ OneAtATime(o)
             /\ failedExtracts \cap (parsed \cup {o}) = {})
            => validityStatus[o] = IF "full" \in scopes THEN "superseded"
                                                        ELSE "partially_amended"
=============================================================================
