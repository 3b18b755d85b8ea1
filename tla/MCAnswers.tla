------------------------------- MODULE MCAnswers -------------------------------
EXTENDS Answers, TLC

\* Parsing: two pages of up to two lines or a text of up to four, with articles,
\* a chapter, an article number without its point, and a rule that is no end of
\* a page.
MCLines == {Plain(1), Dieu(1), Bare(2), Chuong(1)}
MCTexts(n, lines) == UNION {[1..k -> lines] : k \in 0..n}
MCRuled == {<<Plain(1), Rule, Plain(2)>>, <<Dieu(1), Rule, Plain(1)>>}
MCFiles ==
    [type : {"pdf"}, pages : [1..2 -> MCTexts(2, MCLines) \cup MCRuled]]
    \cup [type : {"md"}, pages : [1..1 -> MCTexts(4, MCLines \cup {Plain(2)})]]
    \cup [type : {"csv"}, pages : {<< <<>> >>}]

\* Figures: text, pictures with and without a caption of their own, tables
\* that begin alike or not, or as another goes on, on two pages.
Paragraph(p) == [kind |-> "text", page |-> p, rows |-> <<>>, captioned |-> FALSE]
Picture(p, own) == [kind |-> "picture", page |-> p, rows |-> <<>>, captioned |-> own]
Table(p, r) == [kind |-> "table", page |-> p, rows |-> r, captioned |-> FALSE]
MCDocumented == {
    <<Paragraph(1), Picture(1, FALSE), Picture(1, FALSE), Picture(2, FALSE), Paragraph(2)>>,
    <<Picture(1, FALSE), Paragraph(2), Picture(2, TRUE)>>,
    <<Table(1, <<1, 2>>), Paragraph(1), Table(2, <<2>>), Picture(2, FALSE)>>,
    <<Paragraph(1), Table(1, <<1>>), Paragraph(2), Table(2, <<1>>)>>,
    <<Table(1, <<2>>), Table(1, <<1>>), Table(2, <<1, 2>>), Picture(2, FALSE)>>,
    <<Paragraph(1), Picture(1, TRUE), Table(2, <<1>>), Paragraph(2)>>}

\* Retrieval: four documents in two workspaces, one of them a chat attachment.
MCPlaceOf == [d \in SearchDocs |-> IF d = "x3" THEN "W2" ELSE "W1"]
MCRelevance == [d \in SearchDocs |->
    CASE d = "x1" -> 3 [] d \in {"x2", "x3"} -> 2 [] OTHER -> 1]
MCScopes == {{}, {"x1"}, {"x4", "x3"}}

\* Resolver: decree 53 of this year, decree 153, a decree 53 of long ago, and a
\* circular that refers to decree 53.
MCKindOf == [d \in Titled |-> IF d = "circular" THEN "tt" ELSE "nd"]
MCExact == [d \in Titled |->
    CASE d = "decree53" -> {"53"} [] d = "decree153" -> {"153"} [] OTHER -> {}]
MCContains == [d \in Titled |->
    CASE d = "decree53" -> {"53"} [] d = "decree153" -> {"53", "153"} [] OTHER -> {}]
MCBears == [d \in Titled |->
    CASE d \in {"decree53", "old53"} -> {"53"} [] d = "decree153" -> {"153"}
      [] d = "circular" -> {"53", "15"}]
MCWordsOf == [d \in Titled |->
    CASE d \in {"decree53", "circular"} -> {"cyber"} [] d = "decree153" -> {"tax"}
      [] d = "old53" -> {"tax", "land"}]
MCLikeness == [d \in Titled |->
    CASE d = "decree153" -> 90 [] d = "old53" -> 20 [] OTHER -> 50]

Reference(kind, number, full, words, topic) ==
    [kind |-> kind, number |-> number, full |-> full, words |-> words, topic |-> topic]
MCReferences == {
    Reference("nd", "53", FALSE, {"tax"}, {"tax"}),
    Reference(NoKind, "53", TRUE, {}, {"tax"}),
    Reference(NoKind, "53", FALSE, {"tax"}, {"tax"}),
    Reference("nd", NoNumber, FALSE, {"cyber", "land"}, {"cyber"}),
    Reference("tt", "15", FALSE, {}, {"cyber", "tax"}),
    Reference(NoKind, NoNumber, FALSE, {"tax"}, {"land"})}

\* People: one person in two collections, another with his phone, and two that
\* a name alone cannot tell apart.
Record(id, s, cccd, bhxh, phone, name, dob) ==
    [id |-> id, schema |-> s, cccd |-> cccd, bhxh |-> bhxh, phone |-> phone,
     name |-> name, dob |-> dob]
MCPersonRecords == {
    Record(1, "insurance", "c1", "b1", "p1", "an", "d1"),
    Record(2, "census", "c1", Missing, Missing, "an", "d1"),
    Record(3, "census", "c2", Missing, "p1", "an", "d2"),
    Record(4, "power", Missing, Missing, "p1", "an", Missing),
    Record(5, "power", Missing, Missing, "p2", "anh", Missing)}
MCFieldsOf == [s \in Schemas |->
    CASE s = "insurance" -> {"cccd", "bhxh", "phone", "name", "dob"}
      [] s = "census" -> {"cccd", "name", "dob"}
      [] s = "power" -> {"phone", "name"}]
MCContaining == [n \in {"an", "anh"} |-> IF n = "an" THEN {"an", "anh"} ELSE {"anh"}]
MCLookups == {
    [by |-> "cccd", values |-> {"c1", "c2"}],
    [by |-> "phone", values |-> {"p1"}],
    [by |-> "bhxh", values |-> {"b1"}],
    [by |-> "name", values |-> {"an"}],
    [by |-> "advanced", criteria |-> [name |-> "an", dob |-> "d1"]],
    [by |-> "advanced", criteria |-> [phone |-> "p2"]]}
MCMentioning == [c \in DocChunks |->
    CASE c = "x1" -> {"c1"} [] c = "x2" -> {"anh"} [] OTHER -> {}]

\* What models stream: thoughts, citations, tool calls whole, malformed and cut
\* off, and native calls in fragments.
MCScripts == {
    <<"<think>", "thought", "thought", "</think>", "w", "[", "c1", "]", "w">>,
    <<"w", "[", "fake", "]", "[", "c1", "]", "[", "mem", "]">>,
    <<"<think>", "thought", "</think>", "w", "<tool_call>", "args", "</tool_call>", "w">>,
    <<"w", "<tool_call>", "bad", "</tool_call>", "[", "w", "w", "w", "w", "]">>,
    <<"w", "f1", "f2", "f3", "f1">>,
    <<"w", "[", "w", "[", "d1", "]", "[", "d2", "]">>,
    <<"<tool_call>", "args", "w", "<think>", "thought">>}
MCFragmentOf == [f \in Fragments |-> IF f = "f3" THEN 2 ELSE 1]

\* Telegram: answers of up to three lines; each account has minted one code.
MCAnswerTexts == UNION {[1..n -> 0..6] : n \in 1..3}
MCMintedBy == [k \in Codes |-> IF k = "ka" THEN "A" ELSE "B"]
MCSymmetry == Permutations(Questions) \cup Permutations(LinkRequests)
=============================================================================
