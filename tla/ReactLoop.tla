------------------------------- MODULE ReactLoop -------------------------------
(***************************************************************************)
(* react_executor_node of services/agents/supervisor.py: the model calls   *)
(* tools until it can answer; a judge may send a draft back; a gate may    *)
(* refuse to answer from thin sources; the last turn streams live and may  *)
(* be retracted.                                                           *)
(*                                                                         *)
(* An answer is a sequence of parts.  The model's own text is "grounded",  *)
(* "suspect" (it cites an article found in no source) or "ungrounded" (it  *)
(* cites a document number found in no source), as the grounding guard     *)
(* finds when it looks.  The flags have their defaults, except the judge.  *)
(***************************************************************************)
EXTENDS Naturals, Sequences

CONSTANTS
    MaxToolSteps,    \* NEXUSRAG_REACT_MAX_TOOL_STEPS
    MaxReflections   \* NEXUSRAG_REACT_MAX_REFLECTIONS

ASSUME ReactLoopAssumption ==
    /\ MaxToolSteps \in Nat \ {0}
    /\ MaxReflections \in Nat

VARIABLES
    loop,            \* the node's local variables
    onScreen,        \* the tokens the client has received and not dropped
    answer           \* final_answer of the node's update

reactVars == <<loop, onScreen, answer>>

Texts == {"grounded", "suspect", "ungrounded"}

AnswerParts == Texts \cup {"partial", "apology", "replacement", "insufficient", "caveat",
                         "notice"}

LoopStates ==
    [ phase       : {"tools", "after", "synthesis", "streamed", "over"},
      step        : 0..MaxToolSteps,
      tool_rounds : 0..MaxToolSteps,
      sources     : 0..MaxToolSteps + 1,
      no_progress : 0..2,
      reflections : 0..MaxReflections,
      last_draft  : BOOLEAN,
      draft_source_count : 0..MaxToolSteps + 1,
      verdict     : {"none", "pass", "revise", "insufficient_sources"},
      broken      : BOOLEAN,       \* the live stream raised
      judge_on    : BOOLEAN,       \* NEXUSRAG_REACT_JUDGE
      planned     : BOOLEAN,       \* the analyzer left sub_queries
      attached    : BOOLEAN ]      \* a file is attached, and the scope kept

ReactLoopTypeOK ==
    /\ loop \in LoopStates
    /\ onScreen \in Seq(AnswerParts)
    /\ answer \in Seq(AnswerParts)

ReactLoopInit ==
    /\ \E judge_on, planned, attached \in BOOLEAN :
          loop = [ phase |-> "tools", step |-> 0, tool_rounds |-> 0, sources |-> 0,
                   no_progress |-> 0, reflections |-> 0, last_draft |-> FALSE,
                   draft_source_count |-> 0, verdict |-> "none", broken |-> FALSE,
                   judge_on |-> judge_on, planned |-> planned, attached |-> attached ]
    /\ onScreen = <<>>
    /\ answer = <<>>

Enter(phase) == loop' = [loop EXCEPT !.phase = phase]

\* Nothing is sent to the client.
Silent == UNCHANGED <<onScreen, answer>>

\* _memory_notice, unless a file is attached.
Notices == IF loop.attached THEN {<<>>} ELSE {<<>>, <<"notice">>}

\* _grounding_breach: a judge that passed is not overruled.
Breach(text, verdict) == text = "ungrounded" /\ verdict \in {"revise", "none"}

\* Mutant: a judge that passed asks for no caveat.
NeedsCaveatIfRevise(text, verdict) == verdict = "revise"

NeedsCaveat(text, verdict) == verdict = "revise" \/ text \in {"ungrounded", "suspect"}

Caveat(text, verdict) == IF NeedsCaveat(text, verdict) THEN <<"caveat">> ELSE <<>>

\* _finish: the answer is completed, then replayed to the client.
Finish(text, verdict) ==
    \E notice \in Notices :
       /\ answer' = IF Breach(text, verdict)
                    THEN <<"replacement">> \o notice
                    ELSE <<text>> \o Caveat(text, verdict) \o notice
       /\ onScreen' = onScreen \o answer'
       /\ loop' = [loop EXCEPT !.phase = "over", !.verdict = verdict]

-----------------------------------------------------------------------------
(* Tool turns.                                                             *)

\* Mutant: the tool turns are not counted.
ToolTurnUncounted == loop.phase = "tools"

ToolTurn == loop.phase = "tools" /\ loop.step < MaxToolSteps

\* No call and no answer yet: to the synthesis.
ReadySignal ==
    /\ ToolTurn
    /\ Enter("after")
    /\ Silent

JudgeSkipped == ~loop.judge_on \/ (~loop.planned /\ loop.tool_rounds <= 1)

\* A full draft that is not judged.
DraftFinishes ==
    /\ ToolTurn
    /\ JudgeSkipped
    /\ \E text \in Texts : Finish(text, loop.verdict)

\* The judge passes the draft, or fails, or its revisions are spent.
JudgeLetsFinish ==
    /\ ToolTurn
    /\ ~JudgeSkipped
    /\ \E verdict \in {"pass", "revise"}, text \in Texts :
          /\ verdict = "pass" \/ loop.reflections >= MaxReflections
          /\ Finish(text, verdict)

\* The judge sends the draft back.
JudgeRevises ==
    /\ ToolTurn
    /\ ~JudgeSkipped
    /\ loop.reflections < MaxReflections
    /\ loop' = [loop EXCEPT !.verdict = "revise", !.last_draft = TRUE,
                            !.draft_source_count = loop.sources,
                            !.reflections = @ + 1, !.step = @ + 1]
    /\ Silent

\* Every call repeats an earlier one.
CallsRepeat ==
    /\ ToolTurn
    /\ loop.tool_rounds > 0
    /\ Enter("after")
    /\ Silent

\* The calls run; a second round in a row that adds no source ends the loop.
CallsRun ==
    /\ ToolTurn
    /\ \E new \in {0, 1} :
          LET stuck == loop.sources > 0 /\ new = 0
              stuckFor == IF stuck THEN loop.no_progress + 1 ELSE 0
          IN  loop' = [loop EXCEPT !.sources = @ + new, !.tool_rounds = @ + 1,
                                   !.no_progress = stuckFor, !.step = @ + 1,
                                   !.phase = IF stuckFor >= 2 THEN "after" ELSE "tools"]
    /\ Silent

\* ask_user is one of the calls: the clarification is the reply.
AsksUser ==
    /\ ToolTurn
    /\ \E new \in {0, 1} :
          loop' = [loop EXCEPT !.sources = @ + new, !.tool_rounds = @ + 1,
                               !.phase = "over"]
    /\ Silent

StepsSpent ==
    /\ loop.phase = "tools"
    /\ loop.step = MaxToolSteps
    /\ Enter("after")
    /\ Silent

-----------------------------------------------------------------------------
(* After the tool turns.                                                   *)

DraftIsCurrent == loop.last_draft /\ loop.sources = loop.draft_source_count

ReusesDraft ==
    /\ loop.phase = "after"
    /\ DraftIsCurrent
    /\ \E text \in Texts : Finish(text, loop.verdict)

\* The sufficiency gate lets the synthesis run, at once or after its one
\* targeted search.
GatePasses ==
    /\ loop.phase = "after"
    /\ ~DraftIsCurrent
    /\ \E new \in {0, 1} :
          /\ new = 0 => loop.attached \/ loop.sources > 0
          /\ new = 1 => ~loop.attached /\ loop.sources > 0
          /\ loop' = [loop EXCEPT !.sources = @ + new, !.phase = "synthesis"]
    /\ Silent

\* The sources do not cover the question: say so.
GateBlocks ==
    /\ loop.phase = "after"
    /\ ~DraftIsCurrent
    /\ ~loop.attached
    /\ \E new \in {0, 1}, notice \in Notices :
          /\ new = 1 => loop.sources > 0
          /\ loop' = [loop EXCEPT !.sources = @ + new, !.phase = "over",
                                  !.verdict = "insufficient_sources"]
          /\ answer' = <<"insufficient">> \o notice
          /\ onScreen' = onScreen \o answer'

\* The last turn streams to the client as it is written.
SynthesisStreams ==
    /\ loop.phase = "synthesis"
    /\ Enter("streamed")
    /\ \E text \in Texts : onScreen' = onScreen \o <<text>>
    /\ UNCHANGED answer

SynthesisIsEmpty ==
    /\ loop.phase = "synthesis"
    /\ Finish("apology", loop.verdict)

\* token_rollback: the client drops what it has.
Retracted == <<>>

\* The streamed text is judged, then retracted and replaced, or completed.
StreamedIsSettled ==
    /\ loop.phase = "streamed"
    /\ \E verdict \in IF JudgeSkipped THEN {loop.verdict} ELSE {"pass", "revise"},
         notice \in Notices :
          LET text == onScreen[1]
          IN  /\ loop' = [loop EXCEPT !.verdict = verdict, !.phase = "over"]
              /\ IF Breach(text, verdict)
                 THEN /\ answer' = <<"replacement">> \o notice
                      /\ onScreen' = Retracted \o answer'
                 ELSE LET tail == Caveat(text, verdict) \o notice
                      IN  /\ answer' = <<text>> \o tail
                          /\ onScreen' = onScreen \o tail

\* A model or tool call raises: the apology, after what was streamed.
LoopBreaks ==
    /\ loop.phase \in {"tools", "after"}
    /\ Finish("apology", loop.verdict)

SynthesisBreaks ==
    /\ loop.phase = "synthesis"
    /\ \E streamed \in {<<>>, <<"partial">>}, notice \in Notices :
          /\ loop' = [loop EXCEPT !.phase = "over", !.broken = TRUE]
          /\ answer' = <<"apology">> \o Caveat("apology", loop.verdict) \o notice
          /\ onScreen' = onScreen \o streamed \o answer'

ReactLoopNext ==
    \/ ReadySignal
    \/ DraftFinishes
    \/ JudgeLetsFinish
    \/ JudgeRevises
    \/ CallsRepeat
    \/ CallsRun
    \/ AsksUser
    \/ StepsSpent
    \/ ReusesDraft
    \/ GatePasses
    \/ GateBlocks
    \/ SynthesisStreams
    \/ SynthesisIsEmpty
    \/ StreamedIsSettled
    \/ LoopBreaks
    \/ SynthesisBreaks

ReactLoopSpec == ReactLoopInit /\ [][ReactLoopNext]_reactVars

-----------------------------------------------------------------------------
(* Properties.                                                             *)

\* What the client has on screen when the node ends is the final answer, whether
\* it was replayed, streamed and completed, or streamed, retracted and replaced.
\* The code does not ensure this when the live stream itself raises: the apology
\* then follows the part already streamed.
ShownIsFinal ==
    loop.phase = "over" /\ ~loop.broken => onScreen = answer

\* An answer that cites a document number or an article found in no source is
\* never presented as it is: it was replaced, or it carries the caveat.  A draft,
\* a reused draft and a live synthesis are checked on two separate paths.
UngroundedIsFlagged ==
    \A i \in DOMAIN answer :
       answer[i] \in {"ungrounded", "suspect"} =>
          \E j \in DOMAIN answer : answer[j] = "caveat"

\* What the user is left with is the final answer, flagged where it must be.
AnswerIsHonest == ShownIsFinal /\ UngroundedIsFlagged
=============================================================================
