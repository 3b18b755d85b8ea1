------------------------------- MODULE Parsing -------------------------------
(***************************************************************************)
(* From a file to chunks that can be asked for by article:                 *)
(* parse_structure, the pages of a scan read one by one (ocr_service.py),  *)
(* _parse_legacy with the two chunkers of chunker.py, the heading paths of *)
(* heading_path.py, and search_document_section (agent/tools.py), which    *)
(* answers from what they left on the chunks.                              *)
(*                                                                         *)
(* A text is a sequence of lines; a line knows where in the file it was.   *)
(***************************************************************************)
EXTENDS Naturals, Sequences, FiniteSets, SequencesExt

CONSTANTS
    Files,              \* what may be uploaded, see ParsingAssumption
    MaxChunk,           \* HRAG_LEGAL_CHUNK_MAX_CHARS, chunk_size
    MinDieuHeadings,
    MaxDieuPerChunk,
    OcrConcurrency,
    LoopCopies,         \* as many copies of an end are a loop
    Articles,           \* the numbers that are asked for
    MaxPageFaults,      \* bound on pages that cannot be read
    MaxSectionFaults    \* bound on workspaces that cannot be searched

Plain(w) == <<"text", w>>        \* w = 1 begins with a capital letter
Dieu(n) == <<"dieu", n>>        \* "Dieu n."
Bare(n) == <<"bare", n>>        \* "Dieu n" alone on its line
Chuong(n) == <<"chuong", n>>
Marker(p) == <<"marker", p>>    \* <!-- page p -->
Rule == <<"rule", 0>>           \* a rule between two paragraphs

\* A file: its type, and the words of each of its pages.
ASSUME ParsingAssumption ==
    /\ \A f \in Files : f.type \in {"md", "pdf", "csv"} /\ Len(f.pages) > 0
    /\ {MaxChunk, OcrConcurrency} \subseteq Nat \ {0} /\ LoopCopies \in Nat \ {0, 1}
    /\ {MinDieuHeadings, MaxDieuPerChunk, MaxPageFaults, MaxSectionFaults} \subseteq Nat

VARIABLES
    file,
    route,              \* what parse_structure is doing
    pages,              \* the pages of a scan: [read, text]
    parsed,             \* the ParsedDocument, and the text its chunks are cut from
    section,            \* search_document_section: [no, found, guessed]
    pageFaults,
    sectionFaults

parsingVars == <<file, route, pages, parsed, section, pageFaults, sectionFaults>>

NotParsed == [markdown |-> <<>>, text |-> <<>>, chunks |-> <<>>, pageCount |-> 0, legal |-> FALSE]
NotSearched == [no |-> 0, found |-> {}, guessed |-> FALSE]

ParsingTypeOK ==
    /\ file \in Files
    /\ route \in {"arrived", "ocr", "legacy", "docling", "refused", "parsed", "failed"}
    /\ \A i \in DOMAIN pages : pages[i].read \in {"waiting", "running", "read", "lost"}
    /\ \A k \in DOMAIN parsed.chunks : parsed.chunks[k].page \in Nat
    /\ section.found \subseteq DOMAIN parsed.chunks

ParsingInit ==
    /\ file \in Files
    /\ route = "arrived"
    /\ pages = <<>>
    /\ parsed = NotParsed
    /\ section = NotSearched
    /\ pageFaults = 0
    /\ sectionFaults = 0

\* A set of positions up to n, in order.
InOrder(S, n) == SelectSeq([i \in 1..n |-> i], LAMBDA i : i \in S)

Line(word, page, at) == [word |-> word, page |-> page, at |-> at]
PageLines(p) == [i \in DOMAIN file.pages[p] |-> Line(file.pages[p][i], p, i)]
Break == <<Line(Rule, 0, 0)>>
MarkerLine(p) == <<Line(Marker(p), 0, 0)>>

-----------------------------------------------------------------------------
(* parse_structure: which way a file goes.                                 *)

\* At least half of the pages lack text, or the text layer lost its tones;
\* a detector that fails says neither.
Choose ==
    /\ route = "arrived"
    /\ \E looksScanned, broken \in BOOLEAN :
        route' = CASE file.type = "md" -> "legacy"
                   [] file.type = "pdf" -> IF looksScanned \/ broken THEN "ocr" ELSE "docling"
                   [] OTHER -> "refused"
    /\ pages' = IF route' = "ocr"
                THEN [p \in DOMAIN file.pages |-> [read |-> "waiting", text |-> <<>>]]
                ELSE pages
    /\ UNCHANGED <<file, parsed, section, pageFaults, sectionFaults>>

-----------------------------------------------------------------------------
(* ocr_pdf.                                                                *)

Running == {p \in DOMAIN pages : pages[p].read = "running"}

ReadPage(p) ==
    /\ route = "ocr" /\ pages[p].read = "waiting"
    /\ Cardinality(Running) < OcrConcurrency
    /\ pages' = [pages EXCEPT ![p].read = "running"]
    /\ UNCHANGED <<file, route, parsed, section, pageFaults, sectionFaults>>

\* How often the last l lines are repeated at the end of t.
Copies(t, l) ==
    LET Ends(n) == n * l <= Len(t) /\ \A i \in 1..n*l :
            t[Len(t) - i + 1].word = t[Len(t) - ((i - 1) % l)].word
    IN Cardinality({n \in 1..Len(t) : Ends(n)})

\* _clean_repeated_substrings: a model that got into a loop repeats its end.
WithoutLoop(t) ==
    LET loops == {l \in 1..Len(t) : Copies(t, l) >= LoopCopies}
        l == CHOOSE x \in loops : \A y \in loops : x <= y
    IN IF loops = {} THEN t ELSE SubSeq(t, 1, Len(t) - l * (Copies(t, l) - 1))

\* The model answers with the page, or with the page and a loop at its end.
PageAnswered(p) ==
    /\ route = "ocr" /\ pages[p].read = "running"
    /\ \E loops \in {0, LoopCopies} :
        LET t == PageLines(p) IN
        pages' = [pages EXCEPT ![p] =
            [read |-> "read",
             text |-> WithoutLoop(IF t = <<>> THEN t
                                  ELSE t \o [i \in 1..loops |-> Last(t)])]]
    /\ UNCHANGED <<file, route, parsed, section, pageFaults, sectionFaults>>

\* A page that fails is an empty page.
PageLost(p) ==
    /\ route = "ocr" /\ pages[p].read = "running" /\ pageFaults < MaxPageFaults
    /\ pages' = [pages EXCEPT ![p].read = "lost"]
    /\ pageFaults' = pageFaults + 1
    /\ UNCHANGED <<file, route, parsed, section, sectionFaults>>

Joined(texts) == FoldLeft(LAMBDA t, u : IF t = <<>> THEN u ELSE t \o Break \o u, <<>>, texts)

\* Mutant of Marked: the pages are numbered after the empty ones are left out.
MarkedInOrder(ps) ==
    LET kept == SelectSeq(ps, LAMBDA p : pages[p].text # <<>>)
    IN [i \in DOMAIN kept |-> MarkerLine(i) \o pages[kept[i]].text]

Marked(ps) ==
    LET kept == SelectSeq(ps, LAMBDA p : pages[p].text # <<>>)
    IN [i \in DOMAIN kept |-> MarkerLine(kept[i]) \o pages[kept[i]].text]

OcrText == Joined(Marked([i \in DOMAIN pages |-> i]))

-----------------------------------------------------------------------------
(* _parse_legacy: pages.                                                   *)

IsMarker(line) == line.word[1] = "marker"
Breaks(t) == {i \in DOMAIN t : t[i].word = Rule}

\* The text between two rules, whoever wrote them.
Segments(t) ==
    LET cuts == <<0>> \o InOrder(Breaks(t) \cup {Len(t) + 1}, Len(t) + 1)
    IN [k \in 1..Len(cuts)-1 |-> SubSeq(t, cuts[k] + 1, cuts[k+1] - 1)]

\* A segment without a marker counts on from the segments before it.
SegmentPage(t, k) ==
    LET marked == SelectSeq(Segments(t)[k], IsMarker)
    IN IF marked = <<>> THEN k ELSE Head(marked).word[2]

Reconstructed(t) ==
    Joined([k \in DOMAIN Segments(t) |->
              MarkerLine(SegmentPage(t, k)) \o
                 SelectSeq(Segments(t)[k], LAMBDA line : ~IsMarker(line))])

HasMarkers(t) == \E i \in DOMAIN t : IsMarker(t[i])

\* page_ranges: a line is on the page of the marker before it.
PageAt(t, i) ==
    LET before == {j \in 1..i : IsMarker(t[j])}
    IN IF ~HasMarkers(t) \/ before = {} THEN 0
       ELSE t[CHOOSE j \in before : \A h \in before : h <= j].word[2]

-----------------------------------------------------------------------------
(* heading_path.py.                                                        *)

\* _iter_headings: a bare number is a heading if a title follows on the next line.
IsHeading(t, i) ==
    \/ t[i].word[1] \in {"dieu", "chuong"}
    \/ t[i].word[1] = "bare" /\ i < Len(t) /\ t[i+1].word = Plain(1)

Headings(t) == InOrder({i \in DOMAIN t : IsHeading(t, i)}, Len(t))
HeadingWords(t) == [k \in DOMAIN Headings(t) |-> t[Headings(t)[k]].word]

\* The chapter and the article that are open after these headings; 0 for none.
OpenChapter(hs) ==
    LET i == SelectLastInSeq(hs, LAMBDA h : h[1] = "chuong")
    IN IF i = 0 THEN 0 ELSE hs[i][2]

OpenArticle(hs) == IF hs = <<>> \/ Last(hs)[1] = "chuong" THEN 0 ELSE Last(hs)[2]

Distinct(s) ==
    SelectSeq([i \in DOMAIN s |-> IF \E j \in 1..i-1 : s[j] = s[i] THEN 0 ELSE s[i]],
              LAMBDA x : x # 0)

\* derive_heading_paths for one chunk, given the headings of the chunks before.
HeadingPath(before, t) ==
    LET hs == HeadingWords(t)
        open == OpenArticle(before)
        midArticle == open # 0 /\ (hs = <<>> \/ Headings(t)[1] > 1)
        dieus == SelectSeq(hs, LAMBDA h : h[1] # "chuong")
        all == Distinct((IF midArticle THEN <<open>> ELSE <<>>)
                           \o [i \in DOMAIN dieus |-> dieus[i][2]])
    IN [chapter |-> OpenChapter(before \o hs),
        articles |-> SubSeq(all, 1, IF Len(all) < MaxDieuPerChunk THEN Len(all)
                                    ELSE MaxDieuPerChunk)]

-----------------------------------------------------------------------------
(* chunker.py.  A piece is <<first line, last line>> of its text.          *)

\* RecursiveCharacterTextSplitter: as it likes, no piece longer than MaxChunk.
Splits(n) ==
    {[k \in 1..Len(s) |-> <<s[k], IF k = Len(s) THEN n ELSE s[k+1] - 1 + lap>>] :
        s \in {InOrder({1} \cup cut, n) : cut \in SUBSET (2..n)}, lap \in {0, 1}}

Fitting(n) ==
    {sp \in Splits(n) : \A k \in DOMAIN sp :
        /\ sp[k][2] - sp[k][1] < MaxChunk /\ sp[k][2] <= n
        /\ k > 1 => sp[k][2] > sp[k-1][2]}

\* find(): the first line at or after a position that reads like this one.
Found(t, word, from) ==
    LET at == {i \in DOMAIN t : i >= from /\ t[i].word = word}
    IN IF at = {} THEN from ELSE CHOOSE i \in at : \A j \in at : i <= j

\* Where split_text believes the k-th piece of t begins: the search goes on so far
\* behind where it found the piece, and never where it began.
Starts(t, sp, ahead) ==
    LET at(k, pos) == Found(t, t[sp[k][1]].word, pos)
        from[k \in DOMAIN sp] ==
            IF k = 1 THEN 1
            ELSE Max({at(k-1, from[k-1]) + ahead[k-1], from[k-1] + 1})
    IN [k \in DOMAIN sp |-> at(k, from[k])]

Cut(t, sp, starts, offset) ==
    [k \in DOMAIN sp |-> [lines |-> SubSeq(t, sp[k][1], sp[k][2]),
                          start |-> starts[k] + offset]]

\* DocumentChunker: on from where the piece ended, less the overlap.
BySize(t) ==
    {Cut(t, sp, Starts(t, sp, [k \in DOMAIN sp |-> sp[k][2] - sp[k][1]]), 0) :
        sp \in Fitting(Len(t))}

HasLegalStructure(t) ==
    Len(SelectSeq(HeadingWords(t), LAMBDA h : h[1] # "chuong")) >= MinDieuHeadings

Sections(t) ==
    LET bounds == InOrder({1, Len(t) + 1} \cup Range(Headings(t)), Len(t) + 1)
    IN [k \in 1..Len(bounds)-1 |-> <<bounds[k], bounds[k+1] - 1>>]

\* LegalDocumentChunker: a long section is cut within itself.
SectionPieces(t, s) ==
    LET u == SubSeq(t, s[1], s[2]) IN
    {Cut(u, sp, Starts(u, sp, [k \in DOMAIN sp |-> 1]), s[1] - 1) :
        sp \in IF Len(u) <= MaxChunk THEN {<< <<1, Len(u)>> >>} ELSE Fitting(Len(u))}

ByStructure(t) ==
    LET ss == Sections(t)
        all[k \in 0..Len(ss)] ==
            IF k = 0 THEN {<<>>}
            ELSE {ps \o qs : ps \in all[k-1], qs \in SectionPieces(t, ss[k])}
    IN all[Len(ss)]

ChunksOf(t) == IF t = <<>> THEN {<<>>}
             ELSE IF HasLegalStructure(t) THEN ByStructure(t) ELSE BySize(t)

\* EnrichedChunks, with their page and their heading path.
Enriched(t, ps) ==
    LET before(k) == FlattenSeq([j \in 1..k-1 |-> HeadingWords(ps[j].lines)])
    IN [k \in DOMAIN ps |-> [lines |-> ps[k].lines, page |-> PageAt(t, ps[k].start),
                             path |-> HeadingPath(before(k), ps[k].lines)]]

\* The markdown of a scan stays as the pages were joined.
ParseText(t) ==
    LET u == IF HasMarkers(t) THEN Reconstructed(t) ELSE t IN
    \E ps \in ChunksOf(u) :
        parsed' = [markdown |-> t, text |-> u, chunks |-> Enriched(u, ps),
                   legal |-> HasLegalStructure(u),
                   pageCount |-> IF HasMarkers(t) THEN Len(Segments(t)) ELSE 1]

-----------------------------------------------------------------------------
ParseOcr ==
    /\ route = "ocr" /\ \A p \in DOMAIN pages : pages[p].read \in {"read", "lost"}
    /\ route' = "parsed"
    /\ IF OcrText = <<>> THEN parsed' = NotParsed ELSE ParseText(OcrText)
    /\ UNCHANGED <<file, pages, section, pageFaults, sectionFaults>>

ParseLegacy ==
    /\ route = "legacy"
    /\ route' = "parsed"
    /\ ParseText(PageLines(1))
    /\ UNCHANGED <<file, pages, section, pageFaults, sectionFaults>>

\* With the model in this process, all pages are one batch that fails as one.
LocalOcrFails ==
    /\ route = "ocr" /\ pageFaults < MaxPageFaults
    /\ \A p \in DOMAIN pages : pages[p].read = "waiting"
    /\ route' = "failed"
    /\ pageFaults' = pageFaults + 1
    /\ UNCHANGED <<file, pages, parsed, section, sectionFaults>>

\* article_nos of the chunks, or else the ten that are most like the question.
SearchSection(no) ==
    /\ route = "parsed" /\ section = NotSearched
    /\ LET named == {k \in DOMAIN parsed.chunks : no \in Range(parsed.chunks[k].path.articles)}
       IN \/ section' = [no |-> no, found |-> IF named = {} THEN DOMAIN parsed.chunks ELSE named,
                         guessed |-> named = {}] /\ UNCHANGED sectionFaults
          \/ /\ sectionFaults < MaxSectionFaults
             /\ section' = [no |-> no, found |-> {}, guessed |-> TRUE]
             /\ sectionFaults' = sectionFaults + 1
    /\ UNCHANGED <<file, route, pages, parsed, pageFaults>>

ParsingNext ==
    \/ Choose \/ ParseOcr \/ ParseLegacy \/ LocalOcrFails
    \/ \E p \in DOMAIN pages : ReadPage(p) \/ PageAnswered(p) \/ PageLost(p)
    \/ \E no \in Articles : SearchSection(no)

ParsingSpec == ParsingInit /\ [][ParsingNext]_parsingVars

-----------------------------------------------------------------------------
(* Properties.                                                             *)

Origins(t) == {<<t[i].page, t[i].at>> : i \in {j \in DOMAIN t : t[j].page > 0 /\ t[j].word # Rule}}
WasRead == IF file.type = "md" THEN Origins(PageLines(1))
           ELSE UNION {Origins(pages[p].text) : p \in DOMAIN pages}

\* The chapter and the article the i-th line of the parsed text stands in.
HeadingsUpTo(i) ==
    LET hs == SelectSeq(Headings(parsed.text), LAMBDA h : h <= i)
    IN [k \in DOMAIN hs |-> parsed.text[hs[k]].word]

Places(k) == {i \in DOMAIN parsed.text :
    LET line == parsed.text[i] IN line.page > 0 /\ line \in Range(parsed.chunks[k].lines)}
ArticlesOf(k) == {OpenArticle(HeadingsUpTo(i)) : i \in Places(k)} \ {0}
ChaptersOf(k) == {OpenChapter(HeadingsUpTo(i)) : i \in Places(k)}

\* Nothing that was read is left out of the chunks or of the markdown, and nothing
\* else is in them.
TextSurvives ==
    /\ UNION {Origins(parsed.chunks[k].lines) : k \in DOMAIN parsed.chunks} = WasRead
    /\ Origins(parsed.markdown) = WasRead

\* No rule is taken for the end of a page, and no line reads like another.
Unambiguous ==
    \A i, j \in DOMAIN parsed.text : i # j /\ parsed.text[i].word = parsed.text[j].word =>
        {parsed.text[i].page, parsed.text[j].page} = {0}
PlainPages == \A p \in DOMAIN file.pages : Rule \notin Range(file.pages[p])

PagesAreRight ==
    Unambiguous /\ PlainPages /\ file.type = "pdf" =>
        \A k \in DOMAIN parsed.chunks : LET first == Head(parsed.chunks[k].lines) IN
            first.page > 0 => parsed.chunks[k].page = first.page

ArticlesApart ==
    parsed.legal => \A k \in DOMAIN parsed.chunks :
        /\ Cardinality(ArticlesOf(k)) <= 1
        /\ ChaptersOf(k) \subseteq {parsed.chunks[k].path.chapter}

\* No number that stands alone is cut off from the title that makes it a heading.
TitlesKept ==
    \A k \in DOMAIN parsed.chunks : LET last == Last(parsed.chunks[k].lines) IN
        last.word[1] = "bare" => ~\E h \in Range(Headings(parsed.text)) : parsed.text[h] = last

ArticleIsFound ==
    TitlesKept /\ section # NotSearched /\ section.found # {} =>
        LET holders == {k \in DOMAIN parsed.chunks : section.no \in ArticlesOf(k)}
        IN holders \subseteq section.found /\ (section.guessed => holders = {})

ParsingIsFaithful ==
    route = "parsed" => TextSurvives /\ PagesAreRight /\ ArticlesApart /\ ArticleIsFound
=============================================================================
