----------------------------- MODULE AnswerStream -----------------------------
(***************************************************************************)
(* An answer on its way from the model to the client: astream of           *)
(* services/llm/openai_compatible.py and ollama.py sorts what the model    *)
(* writes into thinking, tool calls and text; answer_generator of          *)
(* services/agent/nodes.py shows the text as it comes, and clears it of    *)
(* thoughts and of invented citations at the end.                          *)
(*                                                                         *)
(* The model writes one of Scripts, a sequence of tokens, cut into deltas  *)
(* anywhere between two of them, and may be cut off anywhere.  Tokens are  *)
(* the tags, the brackets, the numbers of sources and documents, and plain *)
(* words.  A token of Fragments is a piece of a native tool call, which    *)
(* arrives in a delta of its own.                                          *)
(***************************************************************************)
EXTENDS Naturals, Sequences, SequencesExt

CONSTANTS
    Scripts,
    Providers,          \* subset of {"openai_compatible", "ollama"}
    Fragments,
    FragmentOf,         \* [Fragments -> the index of the call]
    Malformed,          \* tokens that no tool call parses with
    StreamSources,      \* sources of a search, the numbers the model may cite
    ResolvedDocs,       \* documents of a summary, as the numbers they are cited by
    CitationTokens,     \* what looks like a citation between two brackets
    MemoryTokens,       \* MEM- and IMG- numbers
    MaxHold,            \* _MAX_HOLD
    MaxDelta            \* tokens in a delta

ASSUME AnswerStreamAssumption ==
    /\ Providers \subseteq {"openai_compatible", "ollama"}
    /\ StreamSources \cup ResolvedDocs \cup MemoryTokens \subseteq CitationTokens
    /\ {MaxHold, MaxDelta} \subseteq Nat \ {0}

VARIABLES
    stream,             \* the provider's generator
    answer              \* answer_generator

streamVars == <<stream, answer>>

\* tool is <<>> outside of a tool call.  hidden, calls and told are what has
\* been yielded as thinking, as calls, and pushed as tokens.
AnswerStreamTypeOK ==
    /\ stream.provider \in Providers
    /\ stream.script \in Scripts
    /\ stream.sent \in 0..Len(stream.script)
    /\ stream.in_think \in BOOLEAN
    /\ stream.broken \in BOOLEAN
    /\ answer.at \in {"context", "streaming", "over"}
    /\ answer.intent \in {"search", "summarize"}
    /\ answer.sources \subseteq StreamSources \cup ResolvedDocs
    /\ answer.new_sources \subseteq ResolvedDocs
    /\ answer.pushed \subseteq StreamSources \cup ResolvedDocs

AnswerStreamInit ==
    /\ stream \in [provider : Providers, script : Scripts, sent : {0}, in_think : {FALSE},
                   tool : {<<>>}, native : {<<>>}, pre_tool : {<<>>}, hidden : {<<>>},
                   calls : {<<>>}, broken : {FALSE}]
    /\ answer \in [at : {"context"}, intent : {"search", "summarize"}, sources : {{}},
                   new_sources : {{}}, pushed : {{}}, parts : {<<>>}, pending : {<<>>},
                   told : {<<>>}, final : {<<>>}]

-----------------------------------------------------------------------------
(* Texts.                                                                  *)

Has(s, token) == \E i \in DOMAIN s : s[i] = token
Place(s, token) == CHOOSE i \in DOMAIN s :
    s[i] = token /\ \A j \in 1..(i - 1) : s[j] # token
Until(s, token) == SubSeq(s, 1, Place(s, token) - 1)
Beyond(s, token) == SubSeq(s, Place(s, token) + 1, Len(s))

\* A generator's step is a record of what is left of the delta, the state it
\* leaves, and what it yields: <<type, text>>.
Yielding(st, type, text) ==
    IF text = <<>> THEN st ELSE [st EXCEPT !.out = Append(@, <<type, text>>)]

-----------------------------------------------------------------------------
(* The provider.                                                           *)

\* Inside <think>: up to the end tag is thinking.
CloseThought(st) ==
    IF ~st.in_think THEN st
    ELSE IF Has(st.content, "</think>")
    THEN [Yielding(st, "thinking", Until(st.content, "</think>")) EXCEPT
            !.in_think = FALSE, !.content = Beyond(st.content, "</think>")]
    ELSE [Yielding(st, "thinking", st.content) EXCEPT !.content = <<>>]

\* A thought that opens in this delta, or one that closes without having been
\* opened.
OpenThought(st) ==
    IF Has(st.content, "<think>") THEN
        LET begun == Yielding(st, "text", Until(st.content, "<think>"))
            rest == Beyond(st.content, "<think>") IN
        IF Has(rest, "</think>")
        THEN [Yielding(begun, "thinking", Until(rest, "</think>")) EXCEPT
                !.content = Beyond(rest, "</think>")]
        ELSE [Yielding(begun, "thinking", rest) EXCEPT !.content = <<>>, !.in_think = TRUE]
    ELSE IF Has(st.content, "</think>") THEN
        [Yielding(st, "thinking", Until(st.content, "</think>")) EXCEPT
            !.content = Beyond(st.content, "</think>")]
    ELSE st

\* A tool call whose end tag has come: the call, or the text if nothing parses
\* it, and what follows it as text.
ResolveCall(st) ==
    IF ~Has(st.tool, "</tool_call>") THEN st
    ELSE LET body == Until(st.tool, "</tool_call>") IN
         [Yielding(IF \E i \in DOMAIN body : body[i] \in Malformed
                   THEN Yielding(st, "text", st.tool)
                   ELSE Yielding(st, "function_call", Tail(body)),
                   "text", Beyond(st.tool, "</tool_call>")) EXCEPT !.tool = <<>>]

\* Text before a call is thinking; for ollama it is text.
DetectCall(st, provider) ==
    IF st.tool # <<>>
    THEN ResolveCall([st EXCEPT !.tool = @ \o st.content])
    ELSE IF Has(st.content, "<tool_call>")
    THEN ResolveCall([Yielding(st, IF provider = "ollama" THEN "text" ELSE "thinking",
                               Until(st.content, "<tool_call>")) EXCEPT
             !.tool = <<"<tool_call>">> \o Beyond(st.content, "<tool_call>")])
    ELSE Yielding(st, "text",
             IF provider = "ollama" THEN st.content
             ELSE SelectSeq(st.content, LAMBDA t : t # "</tool_call>"))

\* _THINK_RE, on one delta: complete thoughts only.
RemoveThoughts(content) ==
    IF Has(content, "<think>") /\ Has(Beyond(content, "<think>"), "</think>")
    THEN Until(content, "<think>") \o Beyond(Beyond(content, "<think>"), "</think>")
    ELSE content

\* ollama removes thoughts only from a delta that has nothing to do with a tool
\* call.
OnDelta(content, provider) ==
    LET st == [content |-> content, in_think |-> stream.in_think, tool |-> stream.tool,
               out |-> <<>>] IN
    IF provider = "ollama"
    THEN DetectCall([st EXCEPT !.content =
             IF st.tool = <<>> /\ ~Has(content, "<tool_call>")
             THEN RemoveThoughts(content) ELSE content], provider)
    ELSE DetectCall(OpenThought(CloseThought(st)), provider)

OfType(out, type) ==
    FlattenSeq([i \in DOMAIN out |-> IF out[i][1] = type THEN out[i][2] ELSE <<>>])

-----------------------------------------------------------------------------
(* _CitationSafeStreamer.                                                  *)

LastBracket(s) == CHOOSE i \in DOMAIN s :
    s[i] = "[" /\ \A j \in (i + 1)..Len(s) : s[j] # "["

\* Mutant of HeldFrom: everything is shown at once.
HeldFromNowhere(s) == Len(s) + 1

\* Where the text that is held back begins: at an open bracket, unless it is
\* too long for a citation.
HeldFrom(s) ==
    IF Has(s, "[") /\ ~Has(SubSeq(s, LastBracket(s), Len(s)), "]")
       /\ Len(s) - LastBracket(s) < MaxHold
    THEN LastBracket(s) ELSE Len(s) + 1

\* feed, for each text in turn.
Feed(acc, text) ==
    LET s == acc.pending \o text
        safe == SubSeq(s, 1, HeldFrom(s) - 1) IN
    [pending |-> SubSeq(s, HeldFrom(s), Len(s)),
     told |-> IF safe = <<>> THEN acc.told ELSE Append(acc.told, safe)]

-----------------------------------------------------------------------------
(* The end.                                                                *)

\* Thoughts with their tags, and what an open one hides to the end.
StripThinkingTags(s) ==
    FoldLeft(LAMBDA acc, t :
        IF acc.skip THEN [acc EXCEPT !.skip = t # "</think>"]
        ELSE IF t = "<think>" THEN [acc EXCEPT !.skip = TRUE]
        ELSE [acc EXCEPT !.kept = Append(@, t)],
        [skip |-> FALSE, kept |-> <<>>], s).kept

\* Position i belongs to a citation of something not in valid.
Invented(s, i, valid) ==
    \E j \in {k \in 1..(Len(s) - 2) : i \in k..(k + 2)} :
        /\ s[j] = "[" /\ s[j + 2] = "]"
        /\ s[j + 1] \in CitationTokens \ (valid \cup MemoryTokens)

SanitizeCitations(s, valid) ==
    FlattenSeq([i \in DOMAIN s |-> IF Invented(s, i, valid) THEN <<>> ELSE <<s[i]>>])

-----------------------------------------------------------------------------
(* The node.                                                               *)

\* The sources of a search have been sent to the client when they were found.
\* To summarize, each document gives its text, or a summary of it, or nothing;
\* the client is sent those that gave their text.
PrepareContext ==
    /\ answer.at = "context"
    /\ \/ /\ answer.intent = "search"
          /\ answer' = [answer EXCEPT !.at = "streaming", !.sources = StreamSources,
                                      !.pushed = StreamSources]
       \/ /\ answer.intent = "summarize"
          /\ \E raw \in SUBSET ResolvedDocs : \E summed \in SUBSET (ResolvedDocs \ raw) :
                answer' = [answer EXCEPT !.at = "streaming", !.sources = raw,
                                         !.new_sources = summed, !.pushed = raw]
    /\ UNCHANGED stream

\* What the generator yields reaches the answer: text is kept and shown.
Takes(out) ==
    LET texts == SelectSeq(out, LAMBDA o : o[1] = "text")
        shown == FoldLeft(LAMBDA acc, o : Feed(acc, o[2]),
                          [pending |-> answer.pending, told |-> answer.told], texts) IN
    [answer EXCEPT !.parts = @ \o OfType(out, "text"),
                   !.pending = shown.pending, !.told = shown.told]

IsFragment(n) == stream.script[n] \in Fragments

\* A delta of content: it ends before a piece of a native call.
ContentDelta ==
    /\ answer.at = "streaming"
    /\ \E n \in 1..MaxDelta :
          /\ stream.sent + n <= Len(stream.script)
          /\ \A i \in 1..n : ~IsFragment(stream.sent + i)
          /\ LET content == SubSeq(stream.script, stream.sent + 1, stream.sent + n)
                 st == OnDelta(content, stream.provider) IN
             /\ stream' = [stream EXCEPT
                   !.sent = @ + n, !.in_think = st.in_think, !.tool = st.tool,
                   !.pre_tool = @ \o content,
                   !.hidden = @ \o OfType(st.out, "thinking"),
                   !.calls = @ \o SelectSeq(st.out, LAMBDA o : o[1] = "function_call")]
             /\ answer' = Takes(st.out)

\* A piece of a native tool call is put to its index; what was written before
\* it is yielded once more, as thinking.
NativeDelta ==
    /\ answer.at = "streaming" /\ stream.sent < Len(stream.script)
    /\ IsFragment(stream.sent + 1)
    /\ stream' = [stream EXCEPT
          !.sent = @ + 1, !.native = Append(@, stream.script[stream.sent + 1]),
          !.hidden = @ \o stream.pre_tool, !.pre_tool = <<>>]
    /\ UNCHANGED answer

\* The native calls, each put together, in the order of their indices.
Assembled(native) ==
    LET indices == {FragmentOf[native[i]] : i \in DOMAIN native} IN
    FlattenSeq([k \in 1..4 |->
        IF k \in indices
        THEN <<<<"function_call", SelectSeq(native, LAMBDA f : FragmentOf[f] = k)>>>>
        ELSE <<>>])

\* The answer is over: what was held back is shown, and the final text is made
\* from the parts.
Finished(a) ==
    [a EXCEPT !.at = "over", !.pending = <<>>,
              !.told = IF a.pending = <<>> THEN @ ELSE Append(@, a.pending),
              !.final = SanitizeCitations(StripThinkingTags(a.parts),
                                          a.sources \cup a.new_sources)]

\* The stream ends: the native calls, then a tool call that was never closed,
\* as text.
StreamEnds ==
    /\ answer.at = "streaming" /\ stream.sent = Len(stream.script)
    /\ stream' = [stream EXCEPT !.calls = @ \o Assembled(stream.native)]
    /\ answer' = Finished(Takes(IF stream.tool = <<>> THEN <<>>
                                ELSE <<<<"text", stream.tool>>>>))

\* The connection breaks.  The generator yields an empty text and ends, so the
\* node takes what has come for the answer.
StreamBreaks ==
    /\ answer.at = "streaming" /\ stream.sent < Len(stream.script)
    /\ stream' = [stream EXCEPT !.broken = TRUE]
    /\ answer' = Finished(answer)

AnswerStreamNext ==
    PrepareContext \/ ContentDelta \/ NativeDelta \/ StreamEnds \/ StreamBreaks

AnswerStreamSpec == AnswerStreamInit /\ [][AnswerStreamNext]_streamVars

-----------------------------------------------------------------------------
\* No thought is left in the final answer, whichever provider wrote it and
\* however it was cut, and with openai_compatible none is shown on the way.
ThoughtsStayHidden ==
    LET shown == FlattenSeq(answer.told) IN
    /\ answer.at = "over" => ~Has(answer.final, "thought")
    /\ stream.provider = "openai_compatible" => ~Has(shown, "thought")

\* Nobody is shown half a citation: where one piece that is pushed ends and the
\* next begins, there is none.
MarkersAreWhole ==
    LET text == FlattenSeq(answer.told)
        ends == {Len(FlattenSeq(SubSeq(answer.told, 1, k))) : k \in DOMAIN answer.told} IN
    \A i \in ends \ {Len(text)} :
        ~ \E j \in {i - 1, i} \cap 1..(Len(text) - 2) :
            text[j] = "[" /\ text[j + 1] \in CitationTokens /\ text[j + 2] = "]"

\* What was shown is what the final answer was made from: no token is lost in
\* the buffers, shown twice or out of order.
NothingIsDropped ==
    FlattenSeq(answer.told) \o answer.pending = answer.parts

\* Every call whose pieces all came is called, with all of its pieces.
CallsAreWhole ==
    answer.at = "over" /\ ~stream.broken =>
        \A f, g \in Fragments : Has(stream.script, f) /\ Has(stream.script, g)
                                /\ FragmentOf[f] = FragmentOf[g] =>
            \E i \in DOMAIN stream.calls :
                Has(stream.calls[i][2], f) /\ Has(stream.calls[i][2], g)

\* A citation in the final answer is of something the model was given.
CitationsAreGrounded ==
    \A i \in DOMAIN answer.final :
        /\ i > 1 /\ i < Len(answer.final)
        /\ answer.final[i] \in CitationTokens
        /\ answer.final[i - 1] = "[" /\ answer.final[i + 1] = "]"
        => answer.final[i] \in answer.sources \cup answer.new_sources \cup MemoryTokens

\* astream, _CitationSafeStreamer and sanitize_citations together.
AnswerIsClean ==
    /\ ThoughtsStayHidden /\ MarkersAreWhole /\ NothingIsDropped
    /\ CallsAreWhole /\ CitationsAreGrounded
=============================================================================
